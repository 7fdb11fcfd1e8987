--------------------------- MODULE JacobiTaskProofs ---------------------------
(***************************************************************************)
(* The parallel Jacobi solver for every grid, every number of tasks and    *)
(* iterations, and every relaxation: its tasks never race on a buffer,     *)
(* they only read what the serial solver reads, and they end with what the *)
(* serial solver ends with.                                                *)
(*                                                                         *)
(* The argument: the strips partition the inner cells, and what is read    *)
(* around a strip belongs to the two neighbours or to the boundary.  A     *)
(* strip holds in its source buffer the serial iterate of its task's       *)
(* iteration n, and in the other one iterate n + 1 where it was written    *)
(* and n - 1 elsewhere (Data).  A neighbour that is one ahead of a task at *)
(* work is not at work itself (WorkOK), so what it has in the buffer read  *)
(* is still iterate n.                                                     *)
(*                                                                         *)
(* The early stop may be decided by any task, in any iteration.  It is     *)
(* decided once (StopOK), and since no task is numTasks iterations ahead   *)
(* of another (CallProofs!Drift) the new bound is beyond what anybody has  *)
(* done.  So all tasks stop at the same bound unless it is raised          *)
(* (LastOK).                                                               *)
(*                                                                         *)
(* The last part is about CheckRaceConds, the comparison that              *)
(* tests/checkRaceConds.sh makes.  The serial solver keeps the same        *)
(* invariant with a single strip, and the two are compared through Serial, *)
(* the synchronous iterates.                                               *)
(***************************************************************************)
EXTENDS CheckRaceConds, TLAPS

CallProofs == INSTANCE TaskCallsProofs WITH maxIter <- startMaxIter

LEMMA DivideProduct ==
  ASSUME NEW k \in Nat, NEW n \in Nat \ {0}
  PROVE  (k * n) \div n = k
OBVIOUS

LEMMA RowsDivided ==
  /\ numlocRows \in Nat \ {0}
  /\ numRows = numlocRows * numTasks
<1>1. PICK k \in 1 .. numRows : numRows = k * numTasks
  BY numRowsAssumption
<1>2. k \in Nat \ {0} /\ numTasks \in Nat \ {0}
  BY numRowsAssumption, numTasksAssumption
<1>3. numlocRows = k
  BY <1>1, <1>2, DivideProduct DEF numlocRows
<1> QED
  BY <1>1, <1>2, <1>3

\* The first row of the strip of a task, boundary row included.
first(t) == numlocRows * t

LEMMA FirstRows ==
  ASSUME NEW t \in Int
  PROVE  /\ first(t) \in Int
         /\ first(t + 1) = first(t) + numlocRows
         /\ first(0) = 0
         /\ first(numTasks) = numRows
  BY RowsDivided, numTasksAssumption DEF first

LEMMA FirstOrdered ==
  ASSUME NEW t \in Int, NEW v \in Int, t < v
  PROVE  first(t) + numlocRows <= first(v)
<1> DEFINE d == v - t - 1
<1>1. d \in Nat /\ v = t + 1 + d
  OBVIOUS
<1>2. numlocRows * d >= 0
  BY <1>1, RowsDivided
<1>3. numlocRows * (t + 1 + d) = numlocRows * t + numlocRows + numlocRows * d
  BY <1>1, RowsDivided
<1> QED
  BY <1>1, <1>2, <1>3, RowsDivided DEF first

LEMMA TaskFacts ==
  ASSUME NEW t \in TaskIds
  PROVE  /\ t \in Int /\ 0 <= t /\ t < numTasks
         /\ first(t) \in Int /\ 0 <= first(t)
         /\ first(t) + numlocRows <= numRows
         /\ startRow(t) = IF t = 0 THEN 1 ELSE first(t)
         /\ endRow(t) = IF t = numTasks - 1 THEN numRows - 1
                        ELSE first(t) + numlocRows
         /\ Calls!TopBound(t) <=> t = 0
<1>1. t \in Int /\ 0 <= t /\ t < numTasks
  BY numTasksAssumption DEF TaskIds
<1>2. first(t) \in Int /\ first(t + 1) = first(t) + numlocRows /\ first(0) = 0
      /\ first(numTasks) = numRows
  BY <1>1, FirstRows
<1>3. 0 <= first(t)
  <2>1. CASE t = 0
    BY <2>1, <1>2
  <2>2. CASE 0 < t
    <3>1. first(0) + numlocRows <= first(t)
      BY <2>2, <1>1, FirstOrdered
    <3> QED
      BY <3>1, <1>2, RowsDivided
  <2> QED
    BY <2>1, <2>2, <1>1
<1>4. first(t) + numlocRows <= numRows
  <2>1. first(t) + numlocRows <= first(numTasks)
    BY <1>1, numTasksAssumption, FirstOrdered
  <2> QED
    BY <2>1, <1>2
<1>5. numlocRows * t = first(t) /\ numlocRows * (t + 1) = first(t) + numlocRows
  BY <1>2 DEF first
<1>6. startRow(t) = IF t = 0 THEN 1 ELSE first(t)
  BY <1>1, <1>2, <1>5, RowsDivided DEF startRow, Calls!TopBound
<1>7. endRow(t) = IF t = numTasks - 1 THEN numRows - 1 ELSE first(t) + numlocRows
  <2>1. CASE t = numTasks - 1
    <3>1. first(t) + numlocRows = numRows
      BY <2>1, <1>1, <1>2, numTasksAssumption
    <3> QED
      BY <2>1, <3>1, <1>5, numRowsAssumption DEF endRow, Calls!BottomBound
  <2>2. CASE t # numTasks - 1
    BY <2>2, <1>2, <1>5, RowsDivided DEF endRow, Calls!BottomBound
  <2> QED
    BY <2>1, <2>2
<1>8. Calls!TopBound(t) <=> t = 0
  BY DEF Calls!TopBound
<1> QED
  BY <1>1, <1>2, <1>3, <1>4, <1>6, <1>7, <1>8

\* The strip of a task holds the inner cells of its rows.
LEMMA StripRows ==
  ASSUME NEW t \in TaskIds, NEW c
  PROVE  c \in Strip(t) <=>
           c \in Interior /\ first(t) <= c[1] /\ c[1] < first(t) + numlocRows
<1>1. numRows \in Int /\ numlocRows \in Nat \ {0} /\ numTasks \in Nat \ {0, 1}
  BY RowsDivided, numRowsAssumption, numTasksAssumption
<1>2. /\ t \in Int /\ 0 <= t /\ t < numTasks
      /\ first(t) \in Int /\ 0 <= first(t) /\ first(t) + numlocRows <= numRows
      /\ startRow(t) = IF t = 0 THEN 1 ELSE first(t)
      /\ endRow(t) = IF t = numTasks - 1 THEN numRows - 1 ELSE first(t) + numlocRows
  BY TaskFacts
<1>3. t # 0 => first(t) >= 1
  <2>1. SUFFICES ASSUME t # 0 PROVE first(t) >= 1
    OBVIOUS
  <2>2. first(0) + numlocRows <= first(t) /\ first(0) = 0
    BY <2>1, <1>2, FirstOrdered, FirstRows
  <2> QED
    BY <2>2, <1>1, <1>2
<1>4. t = 0 => first(t) = 0
  BY FirstRows
<1>5. t # numTasks - 1 => first(t) + numlocRows <= numRows - 1
  <2>1. SUFFICES ASSUME t # numTasks - 1 PROVE first(t) + numlocRows <= numRows - 1
    OBVIOUS
  <2>2. /\ first(t) + numlocRows <= first(numTasks - 1)
        /\ first(numTasks - 1) + numlocRows <= first(numTasks)
        /\ first(numTasks) = numRows /\ first(numTasks - 1) \in Int
    <3>1. t \in Int /\ numTasks - 1 \in Int /\ numTasks \in Int
          /\ t < numTasks - 1 /\ numTasks - 1 < numTasks
      BY <2>1, <1>1, <1>2
    <3>2. first(numTasks - 1) \in Int
      BY <3>1, FirstRows
    <3>3. first(t) + numlocRows <= first(numTasks - 1)
      BY <3>1, FirstOrdered
    <3>4. first(numTasks - 1) + numlocRows <= first(numTasks)
      BY <3>1, FirstOrdered
    <3> QED
      BY <3>2, <3>3, <3>4, FirstRows
  <2> QED
    BY <2>2, <1>1, <1>2
<1>6. t = numTasks - 1 => first(t) + numlocRows = numRows
  <2>1. SUFFICES ASSUME t = numTasks - 1 PROVE first(t) + numlocRows = numRows
    OBVIOUS
  <2>2. first(t + 1) = first(t) + numlocRows /\ first(numTasks) = numRows
    BY <1>2, FirstRows
  <2>3. t + 1 = numTasks
    BY <2>1, <1>1
  <2> QED
    BY <2>2, <2>3
<1>7. \A r \in Int : r \in startRow(t) .. endRow(t) - 1 <=>
        r \in 1 .. numRows - 2 /\ first(t) <= r /\ r < first(t) + numlocRows
  BY <1>1, <1>2, <1>3, <1>4, <1>5, <1>6
<1>8. ASSUME c \in Strip(t)
      PROVE  c \in Interior /\ first(t) <= c[1] /\ c[1] < first(t) + numlocRows
  <2>1. c[1] \in startRow(t) .. endRow(t) - 1 /\ c[2] \in 1 .. numCols - 2
        /\ c = <<c[1], c[2]>>
    BY <1>8 DEF Strip
  <2>2. c[1] \in Int
    BY <2>1, <1>1, <1>2
  <2> QED
    BY <2>1, <2>2, <1>7 DEF Interior
<1>9. ASSUME c \in Interior, first(t) <= c[1], c[1] < first(t) + numlocRows
      PROVE  c \in Strip(t)
  <2>1. c[1] \in 1 .. numRows - 2 /\ c[2] \in 1 .. numCols - 2 /\ c = <<c[1], c[2]>>
    BY <1>9 DEF Interior
  <2>2. c[1] \in Int
    BY <2>1, <1>1
  <2>3. c[1] \in startRow(t) .. endRow(t) - 1
    BY <2>1, <2>2, <1>7, <1>9
  <2> QED
    BY <2>1, <2>3 DEF Strip
<1> QED
  BY <1>8, <1>9

LEMMA StripsDisjoint ==
  ASSUME NEW t \in TaskIds, NEW v \in TaskIds, NEW c \in Strip(t), c \in Strip(v)
  PROVE  t = v
<1>1. /\ t \in Int /\ v \in Int /\ numlocRows \in Nat
      /\ first(t) \in Int /\ first(v) \in Int
  BY TaskFacts, RowsDivided
<1>2. /\ first(t) <= c[1] /\ c[1] < first(t) + numlocRows
      /\ first(v) <= c[1] /\ c[1] < first(v) + numlocRows
      /\ c \in Interior
  BY StripRows
<1>3. c[1] \in Int
  BY <1>2, numRowsAssumption DEF Interior
<1>4. ~(t < v)
  <2>1. SUFFICES ASSUME t < v PROVE FALSE
    OBVIOUS
  <2>2. first(t) + numlocRows <= first(v)
    BY <1>1, <2>1, FirstOrdered
  <2> QED
    BY <1>1, <1>2, <1>3, <2>2
<1>5. ~(v < t)
  <2>1. SUFFICES ASSUME v < t PROVE FALSE
    OBVIOUS
  <2>2. first(v) + numlocRows <= first(t)
    BY <1>1, <2>1, FirstOrdered
  <2> QED
    BY <1>1, <1>2, <1>3, <2>2
<1> QED
  BY <1>1, <1>4, <1>5

LEMMA DivideRow ==
  ASSUME NEW r \in Nat, NEW k \in Nat \ {0}
  PROVE  /\ r \div k \in Nat
         /\ k * (r \div k) <= r
         /\ r < k * (r \div k) + k
OBVIOUS

LEMMA StripsCover ==
  ASSUME NEW c \in Interior
  PROVE  \E t \in TaskIds : c \in Strip(t)
<1> DEFINE t == c[1] \div numlocRows
<1>1. c[1] \in Nat /\ c[1] < numRows /\ numTasks \in Nat
  BY numRowsAssumption, numTasksAssumption DEF Interior
<1>2. numlocRows \in Nat \ {0}
  BY RowsDivided
<1>3. t \in Nat /\ numlocRows * t <= c[1] /\ c[1] < numlocRows * t + numlocRows
  BY <1>1, <1>2, DivideRow
<1> HIDE DEF t
<1>4. first(t) <= c[1] /\ c[1] < first(t) + numlocRows /\ first(t) \in Int
  BY <1>3, <1>2 DEF first
<1>5. t < numTasks
  <2>1. SUFFICES ASSUME ~(t < numTasks) PROVE FALSE
    OBVIOUS
  <2>2. CASE t = numTasks
    BY <2>2, <1>1, <1>4, FirstRows
  <2>3. CASE numTasks < t
    <3>1. first(numTasks) + numlocRows <= first(t) /\ first(numTasks) = numRows
      BY <2>3, <1>1, <1>3, FirstOrdered, FirstRows
    <3> QED
      BY <3>1, <1>1, <1>2, <1>4, numRowsAssumption
  <2> QED
    BY <2>1, <2>2, <2>3, <1>1, <1>3
<1>6. t \in TaskIds
  BY <1>1, <1>3, <1>5 DEF TaskIds
<1> QED
  BY <1>4, <1>6, StripRows

\* The rows around a strip belong to the two neighbours or to the boundary.
LEMMA AroundStrip ==
  ASSUME NEW t \in TaskIds, NEW c \in Strip(t), NEW d \in Around(c)
  PROVE  /\ d \in Cells
         /\ d \in Interior =>
              \E v \in TaskIds : v \in {t - 1, t, t + 1} /\ d \in Strip(v)
<1>1. /\ c \in Interior /\ first(t) <= c[1] /\ c[1] < first(t) + numlocRows
      /\ t \in Int /\ 0 <= t /\ t < numTasks /\ numTasks \in Int
      /\ first(t) \in Int /\ numRows \in Int /\ numCols \in Int
      /\ numlocRows \in Nat \ {0}
  BY StripRows, TaskFacts, RowsDivided, numRowsAssumption, numColsAssumption,
     numTasksAssumption
<1>2. /\ c = <<c[1], c[2]>> /\ c[1] \in Int /\ c[2] \in Int
      /\ 1 <= c[1] /\ c[1] <= numRows - 2 /\ 1 <= c[2] /\ c[2] <= numCols - 2
  BY <1>1 DEF Interior
<1>3. /\ d \in Int \X Int /\ d = <<d[1], d[2]>>
      /\ d[1] \in c[1] - 1 .. c[1] + 1 /\ d[2] \in c[2] - 1 .. c[2] + 1
  BY <1>2 DEF Around, Up, Left, Right, Down
<1>4. d \in Cells
  BY <1>1, <1>2, <1>3 DEF Cells
<1>5. SUFFICES ASSUME d \in Interior
               PROVE  \E v \in TaskIds : v \in {t - 1, t, t + 1} /\ d \in Strip(v)
  BY <1>4
<1>6. 1 <= d[1] /\ d[1] <= numRows - 2 /\ d[1] \in Int
  BY <1>1, <1>5 DEF Interior
<1>7. CASE first(t) <= d[1] /\ d[1] < first(t) + numlocRows
  <2>1. d \in Strip(t)
    BY <1>5, <1>7, StripRows
  <2> QED
    BY <2>1
<1>8. CASE d[1] < first(t)
  <2>1. t # 0
    BY <1>6, <1>8, <1>1, FirstRows
  <2>2. t - 1 \in TaskIds /\ t - 1 \in Int
    BY <2>1, <1>1 DEF TaskIds
  <2>3. first(t) = first(t - 1) + numlocRows /\ first(t - 1) \in Int
    <3>1. /\ first(t - 1) \in Int
          /\ first((t - 1) + 1) = first(t - 1) + numlocRows
      BY <2>2, FirstRows
    <3>2. (t - 1) + 1 = t
      BY <1>1
    <3> QED
      BY <3>1, <3>2
  <2>4. first(t - 1) <= d[1] /\ d[1] < first(t - 1) + numlocRows
    BY <2>3, <1>1, <1>2, <1>3, <1>6, <1>8
  <2>5. d \in Strip(t - 1)
    BY <2>2, <2>4, <1>5, StripRows
  <2> QED
    BY <2>2, <2>5
<1>9. CASE first(t) + numlocRows <= d[1]
  <2>1. first(t + 1) = first(t) + numlocRows
    BY <1>1, FirstRows
  <2>2. t + 1 # numTasks
    BY <2>1, <1>1, <1>6, <1>9, FirstRows
  <2>3. t + 1 \in TaskIds
    BY <2>2, <1>1 DEF TaskIds
  <2>4. first(t + 1) <= d[1] /\ d[1] < first(t + 1) + numlocRows
    BY <2>1, <1>1, <1>2, <1>3, <1>6, <1>9
  <2>5. d \in Strip(t + 1)
    BY <2>3, <2>4, <1>5, StripRows
  <2> QED
    BY <2>3, <2>5
<1> QED
  BY <1>1, <1>6, <1>7, <1>8, <1>9

LEMMA StripInside ==
  ASSUME NEW t \in TaskIds, NEW c \in Strip(t)
  PROVE  c \in Interior /\ c \in Cells
<1>1. c \in Interior
  BY StripRows
<1> QED
  BY <1>1, numRowsAssumption, numColsAssumption DEF Interior, Cells

\* A relaxation depends on the four cells around only.
LEMMA RelaxedLocal ==
  ASSUME NEW src1, NEW src2, NEW c, \A d \in Around(c) : src1[d] = src2[d]
  PROVE  Relaxed(src1, c) = Relaxed(src2, c)
BY DEF Relaxed, Around
-----------------------------------------------------------------------------
(* The inductive invariant. *)

GridTypes ==
  /\ iter_number \in [TaskIds -> 0 .. maxBound]
  /\ maxIter \in 1 .. maxBound
  /\ resTermFlagSet \in BOOLEAN
  /\ phase \in [TaskIds -> {"residual", "changeMaxIter", "update"}]
  /\ todo \in [TaskIds -> SUBSET Cells]
  /\ u1 = [c \in Cells |-> u1[c]]
  /\ u2 = [c \in Cells |-> u2[c]]

\* Nobody has changed the bound before the only task that may.
StopOK ==
  /\ \A t \in TaskIds : phase[t] = "changeMaxIter" => resTermFlagSet /\ maxIter = startMaxIter
  /\ ~resTermFlagSet => maxIter = startMaxIter
  /\ \A t, v \in TaskIds : phase[t] = "changeMaxIter" /\ phase[v] = "changeMaxIter" => t = v

\* Only unfinished tasks are called, and finished ones have done everything.
LastOK ==
  \A t \in TaskIds :
    /\ iter_number[t] <= maxIter
    /\ tpc[t] \in {"up", "down", "work"} => iter_number[t] < maxIter
    /\ tpc[t] = "finished" /\ maxIter <= startMaxIter => iter_number[t] = maxIter

TodoOK ==
  \A t \in TaskIds :
    /\ todo[t] \subseteq Strip(t)
    /\ tpc[t] # "work" => phase[t] = "residual"
    /\ phase[t] = "residual" => todo[t] = Strip(t)

\* What a buffer holds before an iteration overwrites it.
Previous(n) == IF n = 0 THEN u0 ELSE Serial[n - 1]

Data ==
  \A t \in TaskIds : \A c \in Strip(t) :
    /\ getSrcVec(iter_number[t])[c] = Serial[iter_number[t]][c]
    /\ getSrcVec(iter_number[t] + 1)[c] =
         IF c \in todo[t] THEN Previous(iter_number[t])[c]
                          ELSE Serial[iter_number[t] + 1][c]

Boundary ==
  \A c \in Cells \ Interior :
    /\ u1[c] = u0[c] /\ u2[c] = u0[c]
    /\ \A t \in TaskIds : Serial[iter_number[t]][c] = u0[c]

Inv ==
  /\ CallProofs!Order
  /\ CallProofs!Drift
  /\ GridTypes
  /\ StopOK
  /\ LastOK
  /\ TodoOK
  /\ Data
  /\ Boundary

LEMMA Constants ==
  /\ numTasks \in Nat \ {0, 1} /\ startMaxIter \in Nat \ {0}
  /\ maxBound \in Nat /\ maxBound = startMaxIter + numTasks - 1
  /\ Calls!TaskIds = TaskIds /\ CallProofs!TaskIds = TaskIds
  /\ TaskIds \subseteq Nat
BY numTasksAssumption, startMaxIterAssumption
   DEF maxBound, TaskIds, Calls!TaskIds, CallProofs!TaskIds

(* The two instances of TaskCalls, Calls! and CallProofs!, are the same. *)

LEMMA SameCalls ==
  ASSUME NEW t, NEW bound
  PROVE  /\ Calls!Init <=> CallProofs!Init
         /\ Calls!ReadUp(t) <=> CallProofs!ReadUp(t)
         /\ Calls!ReadDown(t) <=> CallProofs!ReadDown(t)
         /\ Calls!SetPostConds(t) <=> CallProofs!SetPostConds(t)
         /\ Calls!HasFinishedIters(t, bound) <=> CallProofs!HasFinishedIters(t, bound)
<1> USE DEF Calls!At, CallProofs!At, Calls!Step, CallProofs!Step,
            Calls!Diff, CallProofs!Diff
<1>1. Calls!Init <=> CallProofs!Init
  BY DEF Calls!Init, CallProofs!Init, Calls!TaskIds, CallProofs!TaskIds
<1>2. Calls!ReadUp(t) <=> CallProofs!ReadUp(t)
  BY DEF Calls!ReadUp, CallProofs!ReadUp, Calls!TopBound, CallProofs!TopBound
<1>3. Calls!ReadDown(t) <=> CallProofs!ReadDown(t)
  BY DEF Calls!ReadDown, CallProofs!ReadDown, Calls!BottomBound, CallProofs!BottomBound
<1>4. Calls!SetPostConds(t) <=> CallProofs!SetPostConds(t)
  BY DEF Calls!SetPostConds, CallProofs!SetPostConds
<1>5. Calls!HasFinishedIters(t, bound) <=> CallProofs!HasFinishedIters(t, bound)
  BY DEF Calls!HasFinishedIters, CallProofs!HasFinishedIters
<1> QED
  BY <1>1, <1>2, <1>3, <1>4, <1>5

LEMMA Parity ==
  ASSUME NEW n \in Nat
  PROVE  /\ SrcIsU1(n + 1) <=> ~SrcIsU1(n)
         /\ SrcIsU1(n + 2) <=> SrcIsU1(n)
         /\ getSrcVec(n + 1) = IF SrcIsU1(n) THEN u2 ELSE u1
         /\ getSrcVec(n + 2) = getSrcVec(n)
<1>1. SrcIsU1(n + 1) <=> ~SrcIsU1(n)
  BY DEF SrcIsU1
<1>2. SrcIsU1(n + 2) <=> SrcIsU1(n)
  BY DEF SrcIsU1
<1> QED
  BY <1>1, <1>2 DEF getSrcVec

LEMMA SerialStep ==
  ASSUME NEW n \in 0 .. maxBound - 1
  PROVE  /\ \A c \in Interior \cap Cells : Serial[n + 1][c] = Relaxed(Serial[n], c)
         /\ \A c \in Cells \ Interior : Serial[n + 1][c] = Serial[n][c]
<1>1. Serial[n + 1] = Sweep(Serial[n])
  BY SerialAssumption
<1> QED
  BY <1>1 DEF Sweep

LEMMA InitInv == Init => Inv
<1> SUFFICES ASSUME Init PROVE Inv
  OBVIOUS
<1>1. CallProofs!Order /\ CallProofs!Drift
  BY CallProofs!InitOrder, CallProofs!InitDrift, SameCalls, Constants DEF Init
<1>2. /\ iter_number = [t \in TaskIds |-> 0] /\ tpc = [t \in TaskIds |-> "up"]
      /\ u1 = u0 /\ u2 = u0
      /\ maxIter = startMaxIter /\ resTermFlagSet = FALSE
      /\ phase = [t \in TaskIds |-> "residual"]
      /\ todo = [t \in TaskIds |-> Strip(t)]
  BY Constants DEF Init, Calls!Init
<1>3. GridTypes
  <2>1. \A t \in TaskIds : Strip(t) \subseteq Cells
    BY StripInside
  <2>2. 0 \in 0 .. maxBound /\ startMaxIter \in 1 .. maxBound
    BY Constants
  <2> QED
    BY <1>2, <2>1, <2>2 DEF GridTypes, u0
<1>4. StopOK /\ LastOK
  BY <1>2, Constants DEF StopOK, LastOK
<1>5. TodoOK
  BY <1>2 DEF TodoOK
<1>6. Data
  <2>1. getSrcVec(0) = u0 /\ getSrcVec(0 + 1) = u0
    BY <1>2 DEF getSrcVec
  <2> QED
    BY <1>2, <2>1, SerialAssumption DEF Data, Previous
<1>7. Boundary
  BY <1>2, SerialAssumption DEF Boundary
<1> QED
  BY <1>1, <1>3, <1>4, <1>5, <1>6, <1>7 DEF Inv

LEMMA InvFacts ==
  ASSUME Inv, NEW t \in TaskIds
  PROVE  /\ iter_number[t] \in Nat /\ iter_number[t] <= maxIter
         /\ maxIter \in Nat /\ maxIter <= maxBound
         /\ tpc[t] \in {"up", "down", "work", "check", "finished"}
         /\ phase[t] \in {"residual", "changeMaxIter", "update"}
         /\ todo[t] \subseteq Strip(t)
         /\ tpc[t] = "work" => iter_number[t] < maxIter
BY Constants DEF Inv, GridTypes, LastOK, TodoOK, CallProofs!Order, CallProofs!CallTypes

\* A neighbour of a task at work is level with it, or ahead and not at work.
LEMMA AtWork ==
  ASSUME Inv, NEW t \in TaskIds, tpc[t] = "work",
         NEW v \in TaskIds, v \in {t - 1, t + 1}
  PROVE  \/ iter_number[v] = iter_number[t]
         \/ iter_number[v] = iter_number[t] + 1 /\ tpc[v] # "work"
<1>1. /\ iter_number[t] \in Nat /\ iter_number[v] \in Nat
      /\ t \in Int /\ v \in Int
  BY InvFacts, Constants
<1>2. iter_number[t] - iter_number[v] \in -1 .. 1
  BY CallProofs!Close, Constants DEF Inv, CallProofs!Diff
<1>3. iter_number[t] <= iter_number[v]
  BY Constants DEF Inv, CallProofs!Order, CallProofs!WorkOK
<1>4. tpc[v] = "work" => iter_number[v] <= iter_number[t]
  <2>1. t \in {v - 1, v + 1}
    BY <1>1
  <2> QED
    BY <2>1, Constants DEF Inv, CallProofs!Order, CallProofs!WorkOK
<1> QED
  BY <1>1, <1>2, <1>3, <1>4

\* What a task at work reads for a cell is the serial iterate.
LEMMA ReadsSerial ==
  ASSUME Inv, NEW t \in TaskIds, tpc[t] = "work", NEW c \in Strip(t), NEW d \in Around(c)
  PROVE  getSrcVec(iter_number[t])[d] = Serial[iter_number[t]][d]
<1> DEFINE n == iter_number[t]
<1>1. n \in Nat /\ n + 1 \in Nat
  BY InvFacts
<1>2. CASE d \notin Interior
  <2>1. d \in Cells \ Interior
    BY <1>2, AroundStrip
  <2> QED
    BY <2>1 DEF Inv, Boundary, getSrcVec
<1>3. CASE d \in Interior
  <2>1. PICK v \in TaskIds : v \in {t - 1, t, t + 1} /\ d \in Strip(v)
    BY <1>3, AroundStrip
  <2>2. CASE iter_number[v] = n
    BY <2>1, <2>2 DEF Inv, Data
  <2>3. CASE iter_number[v] = n + 1 /\ tpc[v] # "work"
    <3>1. d \in todo[v]
      BY <2>1, <2>3 DEF Inv, TodoOK
    <3>2. getSrcVec((n + 1) + 1)[d] = Previous(n + 1)[d]
      BY <2>1, <2>3, <3>1 DEF Inv, Data
    <3>3. Previous(n + 1) = Serial[n]
      BY <1>1 DEF Previous
    <3>4. (n + 1) + 1 = n + 2 /\ getSrcVec(n + 2) = getSrcVec(n)
      BY <1>1, Parity
    <3> QED
      BY <3>2, <3>3, <3>4
  <2>4. v = t \/ v \in {t - 1, t + 1}
    BY <2>1
  <2>5. iter_number[v] = n \/ (iter_number[v] = n + 1 /\ tpc[v] # "work")
    BY <2>4, AtWork
  <2> QED
    BY <2>2, <2>3, <2>5
<1> QED
  BY <1>2, <1>3

\* Steps that leave counters and buffers alone keep what is said about them.
LEMMA DataKept ==
  ASSUME Inv, UNCHANGED <<iter_number, u1, u2, todo>>
  PROVE  Data' /\ Boundary'
<1>1. ASSUME NEW n PROVE getSrcVec(n)' = getSrcVec(n)
  BY DEF getSrcVec, SrcIsU1
<1>2. Data'
  <2>1. SUFFICES ASSUME NEW t \in TaskIds, NEW c \in Strip(t)
                 PROVE  /\ getSrcVec(iter_number[t])'[c] = Serial[iter_number[t]][c]
                        /\ getSrcVec(iter_number[t] + 1)'[c] =
                             IF c \in todo[t] THEN Previous(iter_number[t])[c]
                                              ELSE Serial[iter_number[t] + 1][c]
    BY DEF Data, Strip, startRow, endRow, Calls!TopBound, Calls!BottomBound,
           Previous, u0, Cells
  <2> QED
    BY <1>1, <2>1 DEF Inv, Data
<1>3. Boundary'
  BY DEF Inv, Boundary, Interior, Cells, u0
<1> QED
  BY <1>2, <1>3

LEMMA TestInv == ASSUME Inv, NEW t \in TaskIds, Test(t) PROVE Inv'
<1>1. /\ UNCHANGED <<iter_number, maxIter, resTermFlagSet, u1, u2, phase, todo>>
      /\ tpc[t] # "work"
  BY DEF Test, Calls!ReadUp, Calls!ReadDown, Calls!HasFinishedIters, Calls!At, stopVars
<1>2. CallProofs!Order' /\ CallProofs!Drift'
  <2>0. /\ CallProofs!Order /\ numTasks \in Nat /\ t \in CallProofs!TaskIds
        /\ CallProofs!Drift'
    BY <1>1, Constants, CallProofs!StutterDrift DEF Inv
  <2>1. CASE Calls!ReadUp(t)
    BY <2>0, <2>1, SameCalls, CallProofs!ReadUpOrder
  <2>2. CASE Calls!ReadDown(t)
    BY <2>0, <2>2, SameCalls, CallProofs!ReadDownOrder
  <2>3. CASE Calls!HasFinishedIters(t, maxIter)
    <3>1. CallProofs!HasFinishedIters(t, maxIter)
      BY <2>3, SameCalls
    <3> QED
      BY <2>0, <3>1, CallProofs!HasFinishedItersOrder
  <2> QED
    BY <2>1, <2>2, <2>3 DEF Test
<1>3. GridTypes' /\ StopOK'
  BY <1>1 DEF Inv, GridTypes, StopOK
<1>4. \A v \in TaskIds \ {t} : tpc'[v] = tpc[v]
  BY Constants DEF Test, Calls!ReadUp, Calls!ReadDown, Calls!HasFinishedIters, Calls!Step,
       Inv, CallProofs!Order, CallProofs!CallTypes
<1>5. LastOK'
  <2>1. SUFFICES ASSUME NEW v \in TaskIds
                 PROVE  /\ tpc'[v] \in {"up", "down", "work"} => iter_number[v] < maxIter
                        /\ tpc'[v] = "finished" /\ maxIter <= startMaxIter =>
                             iter_number[v] = maxIter
    BY <1>1 DEF Inv, LastOK
  <2>2. CASE v # t
    BY <1>4, <2>2 DEF Inv, LastOK
  <2>3. CASE v = t /\ (Calls!ReadUp(t) \/ Calls!ReadDown(t))
    <3>1. tpc[t] \in {"up", "down"} /\ tpc'[t] \in {"down", "work", "check"}
      BY <2>3, Constants DEF Calls!ReadUp, Calls!ReadDown, Calls!At, Calls!Step,
         Inv, CallProofs!Order, CallProofs!CallTypes
    <3> QED
      BY <2>3, <3>1 DEF Inv, LastOK
  <2>4. CASE v = t /\ Calls!HasFinishedIters(t, maxIter)
    <3>1. tpc'[t] = IF iter_number[t] >= maxIter THEN "finished" ELSE "up"
      BY <2>4, Constants DEF Calls!HasFinishedIters, Calls!Step,
         Inv, CallProofs!Order, CallProofs!CallTypes
    <3>2. iter_number[t] \in Nat /\ iter_number[t] <= maxIter /\ maxIter \in Nat
      BY InvFacts
    <3> QED
      BY <2>4, <3>1, <3>2
  <2> QED
    BY <2>2, <2>3, <2>4 DEF Test
<1>6. TodoOK'
  <2>1. SUFFICES ASSUME NEW v \in TaskIds
                 PROVE  /\ todo[v] \subseteq Strip(v)
                        /\ tpc'[v] # "work" => phase[v] = "residual"
                        /\ phase[v] = "residual" => todo[v] = Strip(v)
    BY <1>1 DEF TodoOK, Strip, startRow, endRow, Calls!TopBound, Calls!BottomBound
  <2> QED
    BY <1>1, <1>4 DEF Inv, TodoOK
<1> QED
  BY <1>1, <1>2, <1>3, <1>5, <1>6, DataKept DEF Inv

LEMMA GetLocResidualInv == ASSUME Inv, NEW t \in TaskIds, GetLocResidual(t) PROVE Inv'
<1>1. /\ UNCHANGED <<iter_number, tpc, diff1, maxIter, u1, u2, todo>>
      /\ tpc[t] = "work" /\ phase[t] = "residual"
      /\ \/ phase' = [phase EXCEPT ![t] = "update"] /\ resTermFlagSet' = resTermFlagSet
         \/ /\ ~resTermFlagSet /\ resTermFlagSet' = TRUE
            /\ phase' = [phase EXCEPT ![t] = "changeMaxIter"]
  BY DEF GetLocResidual, IsResTerCriMet, Working, callVars
<1>2. CallProofs!Order' /\ CallProofs!Drift'
  BY <1>1, CallProofs!StutterOrder, CallProofs!StutterDrift DEF Inv, CallProofs!vars
<1>3. GridTypes'
  BY <1>1 DEF Inv, GridTypes
<1>4. StopOK'
  <2>1. phase \in [TaskIds -> {"residual", "changeMaxIter", "update"}]
    BY DEF Inv, GridTypes
  <2>2. CASE phase' = [phase EXCEPT ![t] = "update"] /\ resTermFlagSet' = resTermFlagSet
    <3>1. \A v \in TaskIds : phase'[v] = "changeMaxIter" => phase[v] = "changeMaxIter"
      BY <2>1, <2>2
    <3> QED
      BY <1>1, <2>2, <3>1 DEF Inv, StopOK
  <2>3. CASE /\ ~resTermFlagSet /\ resTermFlagSet' = TRUE
             /\ phase' = [phase EXCEPT ![t] = "changeMaxIter"]
    <3>1. \A v \in TaskIds : phase'[v] = "changeMaxIter" => v = t
      BY <2>1, <2>3 DEF Inv, StopOK
    <3> QED
      BY <1>1, <2>3, <3>1 DEF Inv, StopOK
  <2> QED
    BY <1>1, <2>2, <2>3
<1>5. LastOK'
  BY <1>1 DEF Inv, LastOK
<1>6. TodoOK'
  BY <1>1 DEF Inv, TodoOK, GridTypes, Strip, startRow, endRow, Calls!TopBound,
              Calls!BottomBound
<1> QED
  BY <1>1, <1>2, <1>3, <1>4, <1>5, <1>6, DataKept DEF Inv

\* The new bound is beyond all tasks: a task that has finished at the old one
\* would have done too much, had it been lowered.
LEMMA ChangeMaxIterInv == ASSUME Inv, NEW t \in TaskIds, ChangeMaxIter(t) PROVE Inv'
<1>1. /\ UNCHANGED <<iter_number, tpc, diff1, resTermFlagSet, u1, u2, todo>>
      /\ tpc[t] = "work" /\ phase[t] = "changeMaxIter"
      /\ phase' = [phase EXCEPT ![t] = "update"]
      /\ maxIter' = iter_number[t] + numTasks
  BY DEF ChangeMaxIter, Working, callVars
<1>2. CallProofs!Order' /\ CallProofs!Drift'
  BY <1>1, CallProofs!StutterOrder, CallProofs!StutterDrift DEF Inv, CallProofs!vars
<1>3. /\ maxIter = startMaxIter /\ resTermFlagSet
      /\ iter_number[t] \in Nat /\ iter_number[t] < startMaxIter
      /\ \A v \in TaskIds : iter_number[v] \in Nat /\ iter_number[v] < maxIter'
  <2>1. maxIter = startMaxIter /\ resTermFlagSet
    BY <1>1 DEF Inv, StopOK
  <2>2. iter_number[t] \in Nat /\ iter_number[t] < startMaxIter
    BY <1>1, <2>1, InvFacts
  <2>3. \A v \in TaskIds : iter_number[v] \in Nat /\ iter_number[v] < maxIter'
    BY <1>1, InvFacts, Constants, CallProofs!Window DEF Inv, CallProofs!Order
  <2> QED
    BY <2>1, <2>2, <2>3
<1>4. GridTypes'
  <2>1. maxIter' \in 1 .. maxBound
    BY <1>1, <1>3, Constants
  <2> QED
    BY <1>1, <2>1 DEF Inv, GridTypes
<1>5. \A v \in TaskIds : phase'[v] # "changeMaxIter"
  BY <1>1 DEF Inv, GridTypes, StopOK
<1>6. StopOK'
  BY <1>1, <1>3, <1>5 DEF StopOK
<1>7. LastOK'
  <2>1. ASSUME NEW v \in TaskIds, tpc[v] = "finished", maxIter' <= startMaxIter PROVE FALSE
    <3>1. iter_number[v] = startMaxIter
      BY <1>3, <2>1, Constants DEF Inv, LastOK
    <3> QED
      BY <1>1, <1>3, <2>1, <3>1, Constants
  <2>2. maxIter' \in Nat
    BY <1>1, <1>3, Constants
  <2> QED
    BY <1>1, <1>3, <2>1, <2>2 DEF LastOK
<1>8. TodoOK'
  BY <1>1 DEF Inv, TodoOK, GridTypes, Strip, startRow, endRow, Calls!TopBound,
              Calls!BottomBound
<1> QED
  BY <1>1, <1>2, <1>4, <1>6, <1>7, <1>8, DataKept DEF Inv

LEMMA UpdateCellInv == ASSUME Inv, NEW t \in TaskIds, UpdateCell(t) PROVE Inv'
<1> DEFINE n == iter_number[t]
<1>1. /\ UNCHANGED <<iter_number, tpc, diff1, maxIter, resTermFlagSet, phase>>
      /\ tpc[t] = "work" /\ phase[t] = "update"
  BY DEF UpdateCell, Working, callVars, stopVars
<1>2. n \in Nat /\ n \in 0 .. maxBound - 1 /\ todo[t] \subseteq Strip(t)
  BY <1>1, InvFacts, Constants
<1>3. PICK c \in First(todo[t]) :
        /\ todo' = [todo EXCEPT ![t] = @ \ {c}]
        /\ IF SrcIsU1(n)
             THEN u2' = [u2 EXCEPT ![c] = Relaxed(getSrcVec(n), c)] /\ u1' = u1
             ELSE u1' = [u1 EXCEPT ![c] = Relaxed(getSrcVec(n), c)] /\ u2' = u2
  BY DEF UpdateCell
<1>4. c \in todo[t] /\ c \in Strip(t) /\ c \in Interior /\ c \in Cells
  <2>1. c \in todo[t]
    BY DEF First
  <2> QED
    BY <2>1, <1>2, StripInside
<1>5. Relaxed(getSrcVec(n), c) = Serial[n + 1][c]
  <2>1. \A d \in Around(c) : getSrcVec(n)[d] = Serial[n][d]
    BY <1>1, <1>4, ReadsSerial
  <2>2. Relaxed(getSrcVec(n), c) = Relaxed(Serial[n], c)
    BY <2>1, RelaxedLocal
  <2> QED
    BY <2>2, <1>2, <1>4, SerialStep
<1>6. GridTypes'
  BY <1>1, <1>3 DEF Inv, GridTypes
<1>7. \A d \in Cells : d # c => u1'[d] = u1[d] /\ u2'[d] = u2[d]
  BY <1>3 DEF Inv, GridTypes
<1>8. /\ getSrcVec(n)'[c] = getSrcVec(n)[c]
      /\ getSrcVec(n + 1)'[c] = Serial[n + 1][c]
  <2>1. CASE SrcIsU1(n)
    <3>1. u1' = u1 /\ u2'[c] = Serial[n + 1][c]
      BY <2>1, <1>3, <1>4, <1>5 DEF Inv, GridTypes
    <3>2. ~SrcIsU1(n + 1)
      BY <2>1, <1>2, Parity
    <3> QED
      BY <2>1, <3>1, <3>2, <1>1 DEF getSrcVec, SrcIsU1
  <2>2. CASE ~SrcIsU1(n)
    <3>1. u2' = u2 /\ u1'[c] = Serial[n + 1][c]
      BY <2>2, <1>3, <1>4, <1>5 DEF Inv, GridTypes
    <3>2. SrcIsU1(n + 1)
      BY <2>2, <1>2, Parity
    <3> QED
      BY <2>2, <3>1, <3>2, <1>1 DEF getSrcVec, SrcIsU1
  <2> QED
    BY <2>1, <2>2
<1>9. todo \in [TaskIds -> SUBSET Cells]
  BY DEF Inv, GridTypes
<1>10. CallProofs!Order' /\ CallProofs!Drift'
  BY <1>1, CallProofs!StutterOrder, CallProofs!StutterDrift DEF Inv, CallProofs!vars
<1>11. StopOK' /\ LastOK'
  BY <1>1 DEF Inv, StopOK, LastOK
<1>12. TodoOK'
  <2>1. SUFFICES ASSUME NEW v \in TaskIds
                 PROVE  /\ todo'[v] \subseteq Strip(v)
                        /\ tpc[v] # "work" => phase[v] = "residual"
                        /\ phase[v] = "residual" => todo'[v] = Strip(v)
    BY <1>1 DEF TodoOK, Strip, startRow, endRow, Calls!TopBound, Calls!BottomBound
  <2>2. todo'[v] = IF v = t THEN todo[t] \ {c} ELSE todo[v]
    BY <1>3, <1>9
  <2> QED
    BY <2>2, <1>1 DEF Inv, TodoOK
<1>13. Data'
  <2>1. SUFFICES ASSUME NEW v \in TaskIds, NEW d \in Strip(v)
                 PROVE  /\ getSrcVec(iter_number[v])'[d] = Serial[iter_number[v]][d]
                        /\ getSrcVec(iter_number[v] + 1)'[d] =
                             IF d \in todo'[v] THEN Previous(iter_number[v])[d]
                                               ELSE Serial[iter_number[v] + 1][d]
    BY <1>1 DEF Data, Strip, startRow, endRow, Calls!TopBound, Calls!BottomBound,
                Previous, u0, Cells
  <2>2. CASE d = c
    <3>1. v = t
      BY <2>2, <1>4, StripsDisjoint
    <3>2. d \notin todo'[v]
      BY <2>2, <3>1, <1>3, <1>9
    <3>3. getSrcVec(n)[c] = Serial[n][c]
      BY <1>4 DEF Inv, Data
    <3> QED
      BY <2>2, <3>1, <3>2, <3>3, <1>8
  <2>3. CASE d # c
    <3>1. d \in todo'[v] <=> d \in todo[v]
      BY <2>3, <1>3, <1>9
    <3>2. /\ iter_number[v] \in Nat /\ iter_number[v] + 1 \in Nat
          /\ d \in Cells
      BY InvFacts, StripInside
    <3>3. /\ getSrcVec(iter_number[v])'[d] = getSrcVec(iter_number[v])[d]
          /\ getSrcVec(iter_number[v] + 1)'[d] = getSrcVec(iter_number[v] + 1)[d]
      BY <2>3, <3>2, <1>7, <1>1 DEF getSrcVec, SrcIsU1
    <3> QED
      BY <3>1, <3>3 DEF Inv, Data
  <2> QED
    BY <2>2, <2>3
<1>14. Boundary'
  <2>1. SUFFICES ASSUME NEW d \in Cells \ Interior
                 PROVE  /\ u1'[d] = u0[d] /\ u2'[d] = u0[d]
                        /\ \A v \in TaskIds : Serial[iter_number[v]][d] = u0[d]
    BY <1>1 DEF Boundary, Interior, Cells, u0
  <2>2. d # c
    BY <1>4
  <2> QED
    BY <2>2, <1>7 DEF Inv, Boundary
<1> QED
  BY <1>6, <1>10, <1>11, <1>12, <1>13, <1>14 DEF Inv

LEMMA SetPostCondsInv == ASSUME Inv, NEW t \in TaskIds, SetPostConds(t) PROVE Inv'
<1> DEFINE n == iter_number[t]
<1>1. /\ tpc[t] = "work" /\ todo[t] = {}
      /\ iter_number' = [iter_number EXCEPT ![t] = @ + 1]
      /\ tpc' = [tpc EXCEPT ![t] = "check"]
      /\ phase' = [phase EXCEPT ![t] = "residual"]
      /\ todo' = [todo EXCEPT ![t] = Strip(t)]
      /\ u1' = u1 /\ u2' = u2 /\ maxIter' = maxIter /\ resTermFlagSet' = resTermFlagSet
      /\ phase[t] = "update"
  BY DEF SetPostConds, Working, Calls!SetPostConds, Calls!At, Calls!Step, stopVars
<1>2. /\ n \in Nat /\ n < maxIter /\ n \in 0 .. maxBound - 1
      /\ maxIter \in Nat /\ maxIter <= maxBound
  BY <1>1, InvFacts, Constants
<1>3. /\ iter_number \in [TaskIds -> 0 .. maxBound]
      /\ tpc \in [TaskIds -> {"up", "down", "work", "check", "finished"}]
      /\ phase \in [TaskIds -> {"residual", "changeMaxIter", "update"}]
      /\ todo \in [TaskIds -> SUBSET Cells]
  BY Constants DEF Inv, GridTypes, CallProofs!Order, CallProofs!CallTypes
<1>4. \A v \in TaskIds :
        /\ iter_number'[v] = IF v = t THEN n + 1 ELSE iter_number[v]
        /\ tpc'[v] = IF v = t THEN "check" ELSE tpc[v]
        /\ phase'[v] = IF v = t THEN "residual" ELSE phase[v]
        /\ todo'[v] = IF v = t THEN Strip(t) ELSE todo[v]
  BY <1>1, <1>3
<1>5. CallProofs!Order' /\ CallProofs!Drift'
  <2>1. CallProofs!SetPostConds(t)
    BY SameCalls DEF SetPostConds
  <2> QED
    BY <2>1, Constants, CallProofs!SetPostCondsOrder, CallProofs!SetPostCondsDrift DEF Inv
<1>6. GridTypes'
  <2>1. Strip(t) \subseteq Cells
    BY StripInside
  <2>2. n + 1 \in 0 .. maxBound
    BY <1>2, Constants
  <2>3. u1' = [c \in Cells |-> u1'[c]] /\ u2' = [c \in Cells |-> u2'[c]]
    BY <1>1 DEF Inv, GridTypes
  <2> QED
    BY <1>1, <1>3, <2>1, <2>2, <2>3 DEF Inv, GridTypes
<1>7. StopOK' /\ LastOK'
  BY <1>1, <1>2, <1>4 DEF Inv, StopOK, LastOK
<1>8. TodoOK'
  <2>1. SUFFICES ASSUME NEW v \in TaskIds
                 PROVE  /\ todo'[v] \subseteq Strip(v)
                        /\ tpc'[v] # "work" => phase'[v] = "residual"
                        /\ phase'[v] = "residual" => todo'[v] = Strip(v)
    BY DEF TodoOK, Strip, startRow, endRow, Calls!TopBound, Calls!BottomBound
  <2> QED
    BY <1>4 DEF Inv, TodoOK
<1>9. Data'
  <2>1. SUFFICES ASSUME NEW v \in TaskIds, NEW d \in Strip(v)
                 PROVE  /\ getSrcVec(iter_number[v])'[d] = Serial[iter_number'[v]][d]
                        /\ getSrcVec(iter_number[v] + 1)'[d] =
                             IF d \in todo'[v] THEN Previous(iter_number'[v])[d]
                                               ELSE Serial[iter_number'[v] + 1][d]
    BY <1>1 DEF Data, Strip, startRow, endRow, Calls!TopBound, Calls!BottomBound,
                Previous, u0, Cells
  <2>2. /\ getSrcVec(iter_number[v])' = getSrcVec(iter_number'[v])
        /\ getSrcVec(iter_number[v] + 1)' = getSrcVec(iter_number'[v] + 1)
    BY <1>1 DEF getSrcVec, SrcIsU1
  <2>3. CASE v = t
    <3>1. /\ getSrcVec(n)[d] = Serial[n][d]
          /\ getSrcVec(n + 1)[d] = Serial[n + 1][d]
      BY <2>3, <1>1 DEF Inv, Data
    <3>2. (n + 1) + 1 = n + 2 /\ getSrcVec(n + 2) = getSrcVec(n)
      BY <1>2, Parity
    <3>3. Previous(n + 1) = Serial[n]
      BY <1>2 DEF Previous
    <3>4. iter_number'[v] = n + 1 /\ d \in todo'[v]
      BY <1>4, <2>3
    <3> QED
      BY <2>2, <3>1, <3>2, <3>3, <3>4
  <2>4. CASE v # t
    <3>1. iter_number'[v] = iter_number[v] /\ todo'[v] = todo[v]
      BY <1>4, <2>4
    <3> QED
      BY <2>2, <3>1 DEF Inv, Data
  <2> QED
    BY <2>3, <2>4
<1>10. Boundary'
  <2>1. SUFFICES ASSUME NEW d \in Cells \ Interior
                 PROVE  /\ u1[d] = u0[d] /\ u2[d] = u0[d]
                        /\ \A v \in TaskIds : Serial[iter_number'[v]][d] = u0[d]
    BY <1>1 DEF Boundary, Interior, Cells, u0
  <2>2. Serial[n + 1][d] = u0[d]
    <3>1. Serial[n + 1][d] = Serial[n][d]
      BY <1>2, SerialStep
    <3> QED
      BY <3>1 DEF Inv, Boundary
  <2> QED
    BY <2>2, <1>4 DEF Inv, Boundary
<1> QED
  BY <1>5, <1>6, <1>7, <1>8, <1>9, <1>10 DEF Inv

LEMMA NextInv == Inv /\ [Next]_vars => Inv'
<1> SUFFICES ASSUME Inv, [Next]_vars PROVE Inv'
  OBVIOUS
<1>1. ASSUME NEW t \in TaskIds, Task(t) PROVE Inv'
  BY <1>1, TestInv, GetLocResidualInv, ChangeMaxIterInv, UpdateCellInv, SetPostCondsInv DEF Task
<1>2. CASE UNCHANGED vars
  <2>1. UNCHANGED <<iter_number, tpc, diff1, maxIter, resTermFlagSet, u1, u2, phase, todo>>
    BY <1>2 DEF vars, callVars, stopVars
  <2>2. CallProofs!Order' /\ CallProofs!Drift'
    BY <2>1, CallProofs!StutterOrder, CallProofs!StutterDrift DEF Inv, CallProofs!vars
  <2>3. GridTypes' /\ StopOK' /\ LastOK'
    BY <2>1 DEF Inv, GridTypes, StopOK, LastOK
  <2>4. TodoOK'
    BY <2>1 DEF Inv, TodoOK, Strip, startRow, endRow, Calls!TopBound, Calls!BottomBound
  <2> QED
    BY <2>1, <2>2, <2>3, <2>4, DataKept DEF Inv
<1> QED
  BY <1>1, <1>2 DEF Next, Ended

LEMMA Invariance == Spec => []Inv
<1>1. Init => Inv
  BY InitInv
<1>2. Inv /\ [Next]_vars => Inv'
  BY NextInv
<1> QED
  BY <1>1, <1>2, PTL DEF Spec
-----------------------------------------------------------------------------
Stencil == INSTANCE StencilOrder WITH lastIter <- maxBound

(***************************************************************************)
(* The task that really relaxes its strip keeps the order of the strips,   *)
(* within the first maxBound iterations: residual, early stop and update,  *)
(* cell by cell, hide between the pre-condition and setPostConds.          *)
(***************************************************************************)
THEOREM ImplementsOrder == Spec => Stencil!Spec
<1>1. Init => Stencil!Init
  BY DEF Init, Calls!Init, Calls!TaskIds, Stencil!Init, Stencil!TaskIds
<1>2. Inv /\ [Next]_vars => [Stencil!Next]_iter_number
  <2> SUFFICES ASSUME Inv, [Next]_vars, iter_number' # iter_number
               PROVE  \E t \in TaskIds : Stencil!Iterate(t)
    BY DEF Stencil!Next, Stencil!TaskIds, TaskIds
  <2>1. PICK t \in TaskIds : SetPostConds(t)
    BY DEF Next, Task, Ended, Test, GetLocResidual, IsResTerCriMet, ChangeMaxIter, UpdateCell,
           Calls!ReadUp, Calls!ReadDown, Calls!HasFinishedIters, callVars, vars
  <2>2. /\ tpc[t] = "work"
        /\ iter_number' = [iter_number EXCEPT ![t] = @ + 1]
    BY <2>1 DEF SetPostConds, Calls!SetPostConds, Calls!At
  <2>3. iter_number[t] < maxBound
    BY <2>2, InvFacts, Constants
  <2>4. \A u \in {t - 1, t + 1} \cap TaskIds : iter_number[t] <= iter_number[u]
    BY <2>2, Constants DEF Inv, CallProofs!Order, CallProofs!WorkOK
  <2> QED
    BY <2>2, <2>3, <2>4 DEF Stencil!Iterate, Stencil!Nbrs, Stencil!TaskIds, TaskIds
<1> QED
  BY <1>1, <1>2, Invariance, PTL DEF Spec, Stencil!Spec

(***************************************************************************)
(* The counters stay between 0 and maxBound, the buffers keep their size,  *)
(* and updateGrid only ever writes inner cells.                            *)
(***************************************************************************)
THEOREM TypeCorrect == Spec => []TypeOK
<1>1. ASSUME Inv PROVE TypeOK
  <2>1. \A t \in TaskIds : todo[t] \subseteq Interior
    BY <1>1, StripInside DEF Inv, TodoOK
  <2> QED
    BY <1>1, <2>1, Constants
       DEF Inv, GridTypes, TypeOK, CallProofs!Order, CallProofs!CallTypes
<1> QED
  BY <1>1, Invariance, PTL

(***************************************************************************)
(* The claim of grid.cpp:111: two tasks at work never touch the same cell  *)
(* of the same buffer, one of them writing, however far the schedule lets  *)
(* neighbours drift apart.                                                 *)
(***************************************************************************)
THEOREM NoRace == Spec => []RaceFree
<1>1. ASSUME Inv PROVE RaceFree
  <2>1. SUFFICES ASSUME NEW t \in TaskIds, NEW v \in TaskIds, t # v,
                        NEW c, c \in Writes(t)
                 PROVE  /\ (SrcIsU1(iter_number[t]) <=> SrcIsU1(iter_number[v])) =>
                             c \notin Writes(v)
                        /\ ~(SrcIsU1(iter_number[t]) <=> SrcIsU1(iter_number[v])) =>
                             c \notin Reads(v)
    BY DEF RaceFree
  <2>2. tpc[t] = "work" /\ c \in Strip(t)
    BY <1>1, <2>1, InvFacts DEF Writes
  <2>3. c \notin Writes(v)
    <3>1. todo[v] \subseteq Strip(v)
      BY <1>1, InvFacts
    <3> QED
      BY <2>1, <2>2, <3>1, StripsDisjoint DEF Writes
  <2>4. ASSUME c \in Reads(v)
        PROVE  SrcIsU1(iter_number[t]) <=> SrcIsU1(iter_number[v])
    <3>1. PICK b \in todo[v] : c \in Around(b)
      BY <2>4 DEF Reads
    <3>2. tpc[v] = "work" /\ b \in Strip(v)
      BY <1>1, <2>4, <3>1, InvFacts DEF Reads
    <3>3. c \in Interior
      BY <2>2, StripInside
    <3>4. PICK w \in TaskIds : w \in {v - 1, v, v + 1} /\ c \in Strip(w)
      BY <3>1, <3>2, <3>3, AroundStrip
    <3>5. w = t
      BY <2>2, <3>4, StripsDisjoint
    <3>6. t \in {v - 1, v + 1}
      BY <2>1, <3>4, <3>5
    <3>7. iter_number[t] = iter_number[v]
      BY <1>1, <2>2, <3>2, <3>6, AtWork
    <3> QED
      BY <3>7
  <2> QED
    BY <2>3, <2>4
<1> QED
  BY <1>1, Invariance, PTL

(***************************************************************************)
(* The exchange of rows works without a lock: whatever a task at work has  *)
(* still to read, in its own strip or in a neighbour's, is the serial      *)
(* solver's iterate of the same number.                                    *)
(***************************************************************************)
THEOREM ReadsAreSerial == Spec => []ReadsSerialIterate
<1>1. ASSUME Inv PROVE ReadsSerialIterate
  <2>1. SUFFICES ASSUME NEW t \in TaskIds, NEW d \in Reads(t)
                 PROVE  getSrcVec(iter_number[t])[d] = Serial[iter_number[t]][d]
    BY DEF ReadsSerialIterate
  <2>2. tpc[t] = "work" /\ \E c \in todo[t] : d \in Around(c)
    BY <2>1 DEF Reads
  <2>3. todo[t] \subseteq Strip(t)
    BY <1>1, InvFacts
  <2> QED
    BY <1>1, <2>2, <2>3, ReadsSerial
<1> QED
  BY <1>1, Invariance, PTL

(* The iterates are functions on the cells. *)

LEMMA SerialFunction ==
  ASSUME NEW n \in 0 .. maxBound
  PROVE  Serial[n] = [c \in Cells |-> Serial[n][c]]
<1>1. CASE n = 0
  BY <1>1, SerialAssumption DEF u0
<1>2. CASE n # 0
  <2>1. n - 1 \in 0 .. maxBound - 1 /\ (n - 1) + 1 = n
    BY <1>2, Constants
  <2>2. Serial[n] = Sweep(Serial[n - 1])
    <3>1. Serial[(n - 1) + 1] = Sweep(Serial[n - 1])
      BY <2>1, SerialAssumption
    <3> QED
      BY <2>1, <3>1
  <2> QED
    BY <2>2 DEF Sweep
<1> QED
  BY <1>1, <1>2

LEMMA FinalData ==
  ASSUME Inv, Finished, maxIter <= startMaxIter, NEW c \in Cells
  PROVE  /\ getSrcVec(maxIter)[c] = Serial[maxIter][c]
         /\ getSrcVec(maxIter + 1)[c] = Serial[maxIter - 1][c]
<1>1. /\ maxIter \in Nat \ {0} /\ maxIter - 1 \in 0 .. maxBound - 1
      /\ (maxIter - 1) + 1 = maxIter /\ 0 \in TaskIds
  BY Constants DEF Inv, GridTypes, TaskIds
<1>2. \A t \in TaskIds : iter_number[t] = maxIter /\ todo[t] = Strip(t)
  BY DEF Inv, LastOK, TodoOK, Finished
<1>3. CASE c \in Interior
  <2>1. PICK t \in TaskIds : c \in Strip(t)
    BY <1>3, StripsCover
  <2>2. Previous(maxIter) = Serial[maxIter - 1]
    BY <1>1 DEF Previous
  <2> QED
    BY <1>2, <2>1, <2>2 DEF Inv, Data
<1>4. CASE c \notin Interior
  <2>1. u1[c] = u0[c] /\ u2[c] = u0[c] /\ Serial[maxIter][c] = u0[c]
    BY <1>1, <1>2, <1>4 DEF Inv, Boundary
  <2>2. Serial[(maxIter - 1) + 1][c] = Serial[maxIter - 1][c]
    BY <1>1, <1>4, SerialStep
  <2> QED
    BY <1>1, <2>1, <2>2 DEF getSrcVec
<1> QED
  BY <1>3, <1>4

(***************************************************************************)
(* Whichever task decides the early stop, in whichever iteration: unless   *)
(* that raises the bound, when all tasks have finished the two buffers     *)
(* hold the serial solver's iterate of that number and the one before,     *)
(* cell by cell and with nothing else.                                     *)
(***************************************************************************)
THEOREM EndsSerial == Spec => []FinalIsSerial
<1>1. ASSUME Inv PROVE FinalIsSerial
  <2>1. SUFFICES ASSUME Finished, maxIter <= startMaxIter
                 PROVE  /\ getSrcVec(maxIter) = Serial[maxIter]
                        /\ getSrcVec(maxIter - 1) = Serial[maxIter - 1]
    BY DEF FinalIsSerial
  <2>2. /\ maxIter \in 0 .. maxBound /\ maxIter - 1 \in 0 .. maxBound
        /\ maxIter - 1 \in Nat /\ (maxIter - 1) + 2 = maxIter + 1
    BY <1>1, Constants DEF Inv, GridTypes
  <2>3. getSrcVec(maxIter - 1) = getSrcVec(maxIter + 1)
    <3>1. getSrcVec((maxIter - 1) + 2) = getSrcVec(maxIter - 1)
      BY <2>2, Parity
    <3> QED
      BY <2>2, <3>1
  <2>4. \A c \in Cells : /\ getSrcVec(maxIter)[c] = Serial[maxIter][c]
                        /\ getSrcVec(maxIter - 1)[c] = Serial[maxIter - 1][c]
    BY <1>1, <2>1, <2>3, FinalData
  <2>5. ASSUME NEW m PROVE getSrcVec(m) = [c \in Cells |-> getSrcVec(m)[c]]
    BY <1>1 DEF Inv, GridTypes, getSrcVec
  <2>6. /\ Serial[maxIter] = [c \in Cells |-> Serial[maxIter][c]]
        /\ Serial[maxIter - 1] = [c \in Cells |-> Serial[maxIter - 1][c]]
    BY <2>2, SerialFunction
  <2>7. getSrcVec(maxIter) = Serial[maxIter]
    BY <2>4, <2>5, <2>6
  <2>8. getSrcVec(maxIter - 1) = Serial[maxIter - 1]
    BY <2>4, <2>5, <2>6
  <2> QED
    BY <2>7, <2>8
<1> QED
  BY <1>1, Invariance, PTL
-----------------------------------------------------------------------------
(* The serial solver of the script, and the comparison. *)

serialSrc(n) == IF SrcIsU1(n) THEN serial_u1 ELSE serial_u2

SerialTypes ==
  /\ serial_iter \in 0 .. startMaxIter
  /\ serial_todo \subseteq Interior
  /\ serial_iter = startMaxIter => serial_todo = Interior
  /\ serial_u1 = [c \in Cells |-> serial_u1[c]]
  /\ serial_u2 = [c \in Cells |-> serial_u2[c]]

SerialData ==
  \A c \in Interior :
    /\ serialSrc(serial_iter)[c] = Serial[serial_iter][c]
    /\ serialSrc(serial_iter + 1)[c] =
         IF c \in serial_todo THEN Previous(serial_iter)[c]
                              ELSE Serial[serial_iter + 1][c]

SerialBoundary ==
  \A c \in Cells \ Interior :
    /\ serial_u1[c] = u0[c] /\ serial_u2[c] = u0[c]
    /\ Serial[serial_iter][c] = u0[c]

\* The script starts the parallel solver when the serial one has returned.
OneAfterTheOther == serial_iter # startMaxIter => \A t \in TaskIds : tpc[t] = "up"

ScriptInv ==
  Inv /\ SerialTypes /\ SerialData /\ SerialBoundary /\ OneAfterTheOther

LEMMA SameGrid ==
  /\ Reference!Cells = Cells /\ Reference!Interior = Interior /\ Reference!u0 = u0
  /\ \A cells : Reference!First(cells) = First(cells)
  /\ \A src, c : Reference!Relaxed(src, c) = Relaxed(src, c)
  /\ \A n : Reference!SrcIsU1(n) <=> SrcIsU1(n)
  /\ \A n : Reference!getSrcVec(n) = serialSrc(n)
<1>1. Reference!Cells = Cells /\ Reference!Interior = Interior
  BY DEF Reference!Cells, Cells, Reference!Interior, Interior
<1>2. Reference!u0 = u0
  BY DEF Reference!u0, u0, Reference!Cells, Cells
<1>3. \A cells : Reference!First(cells) = First(cells)
  BY DEF Reference!First, First, Reference!Before, Before
<1>4. \A src, c : Reference!Relaxed(src, c) = Relaxed(src, c)
  BY DEF Reference!Relaxed, Relaxed, Reference!Up, Up, Reference!Left, Left,
         Reference!Right, Right, Reference!Down, Down
<1>5. \A n : Reference!SrcIsU1(n) <=> SrcIsU1(n)
  BY DEF Reference!SrcIsU1, SrcIsU1
<1>6. \A n : Reference!getSrcVec(n) = serialSrc(n)
  BY <1>5 DEF Reference!getSrcVec, serialSrc
<1> QED
  BY <1>1, <1>2, <1>3, <1>4, <1>5, <1>6

LEMMA InteriorInside == Interior \subseteq Cells
BY numRowsAssumption, numColsAssumption DEF Interior, Cells

LEMMA SerialParity ==
  ASSUME NEW n \in Nat
  PROVE  /\ serialSrc(n + 1) = IF SrcIsU1(n) THEN serial_u2 ELSE serial_u1
         /\ serialSrc(n + 2) = serialSrc(n)
BY Parity DEF serialSrc

\* What the serial solver reads for a cell is its last complete iterate.
LEMMA SerialReads ==
  ASSUME SerialTypes, SerialData, SerialBoundary, NEW c \in Interior, NEW d \in Around(c)
  PROVE  serialSrc(serial_iter)[d] = Serial[serial_iter][d]
<1>1. d \in Cells
  <2>1. PICK t \in TaskIds : c \in Strip(t)
    BY StripsCover
  <2> QED
    BY <2>1, AroundStrip
<1>2. CASE d \in Interior
  BY <1>2 DEF SerialData
<1>3. CASE d \notin Interior
  BY <1>1, <1>3 DEF SerialBoundary, serialSrc
<1> QED
  BY <1>2, <1>3

LEMMA TestInitInv == TestInit => ScriptInv
<1> SUFFICES ASSUME TestInit PROVE ScriptInv
  OBVIOUS
<1>1. Inv
  BY InitInv DEF TestInit
<1>2. serial_u1 = u0 /\ serial_u2 = u0 /\ serial_iter = 0 /\ serial_todo = Interior
  BY SameGrid DEF TestInit, Reference!Init
<1>3. SerialTypes
  BY <1>2, Constants DEF SerialTypes, u0
<1>4. SerialData
  <2>1. serialSrc(0) = u0 /\ serialSrc(0 + 1) = u0
    BY <1>2 DEF serialSrc
  <2> QED
    BY <1>2, <2>1, SerialAssumption DEF SerialData, Previous
<1>5. SerialBoundary
  BY <1>2, SerialAssumption DEF SerialBoundary
<1>6. OneAfterTheOther
  BY Constants DEF OneAfterTheOther, TestInit, Init, Calls!Init
<1> QED
  BY <1>1, <1>3, <1>4, <1>5, <1>6 DEF ScriptInv

LEMMA SerialUpdateInv ==
  ASSUME ScriptInv, Reference!UpdateCell
  PROVE  SerialTypes' /\ SerialData' /\ SerialBoundary'
<1> DEFINE n == serial_iter
<1>1. n \in Nat /\ n \in 0 .. startMaxIter - 1 /\ n \in 0 .. maxBound - 1 /\ serial_iter' = serial_iter
  BY Constants DEF ScriptInv, SerialTypes, Reference!UpdateCell
<1>2. PICK c \in First(serial_todo) :
        /\ serial_todo' = serial_todo \ {c}
        /\ IF SrcIsU1(n)
             THEN serial_u2' = [serial_u2 EXCEPT ![c] = Relaxed(serialSrc(n), c)]
                  /\ serial_u1' = serial_u1
             ELSE serial_u1' = [serial_u1 EXCEPT ![c] = Relaxed(serialSrc(n), c)]
                  /\ serial_u2' = serial_u2
  BY SameGrid DEF Reference!UpdateCell
<1>3. c \in serial_todo /\ c \in Interior /\ c \in Cells
  BY InteriorInside DEF First, ScriptInv, SerialTypes
<1>4. Relaxed(serialSrc(n), c) = Serial[n + 1][c]
  <2>1. \A d \in Around(c) : serialSrc(n)[d] = Serial[n][d]
    BY <1>3, SerialReads DEF ScriptInv
  <2>2. Relaxed(serialSrc(n), c) = Relaxed(Serial[n], c)
    BY <2>1, RelaxedLocal
  <2> QED
    BY <2>2, <1>1, <1>3, SerialStep
<1>5. SerialTypes'
  <2>1. /\ serial_u1' = [d \in Cells |-> serial_u1'[d]]
        /\ serial_u2' = [d \in Cells |-> serial_u2'[d]]
    BY <1>2 DEF ScriptInv, SerialTypes
  <2>2. serial_todo' \subseteq Interior
    BY <1>2 DEF ScriptInv, SerialTypes
  <2> QED
    BY <1>1, <2>1, <2>2, Constants DEF ScriptInv, SerialTypes, Interior, Cells
<1>6. \A d \in Cells : d # c => serial_u1'[d] = serial_u1[d] /\ serial_u2'[d] = serial_u2[d]
  BY <1>2 DEF ScriptInv, SerialTypes
<1>7. serialSrc(n)'[c] = serialSrc(n)[c] /\ serialSrc(n + 1)'[c] = Serial[n + 1][c]
  <2>1. CASE SrcIsU1(n)
    <3>1. serial_u1' = serial_u1 /\ serial_u2'[c] = Serial[n + 1][c]
      BY <2>1, <1>2, <1>3, <1>4 DEF ScriptInv, SerialTypes
    <3>2. ~SrcIsU1(n + 1)
      BY <2>1, <1>1, Parity
    <3> QED
      BY <2>1, <3>1, <3>2, <1>1 DEF serialSrc, SrcIsU1
  <2>2. CASE ~SrcIsU1(n)
    <3>1. serial_u2' = serial_u2 /\ serial_u1'[c] = Serial[n + 1][c]
      BY <2>2, <1>2, <1>3, <1>4 DEF ScriptInv, SerialTypes
    <3>2. SrcIsU1(n + 1)
      BY <2>2, <1>1, Parity
    <3> QED
      BY <2>2, <3>1, <3>2, <1>1 DEF serialSrc, SrcIsU1
  <2> QED
    BY <2>1, <2>2
<1>8. SerialData'
  <2>1. SUFFICES ASSUME NEW d \in Interior
                 PROVE  /\ serialSrc(serial_iter)'[d] = Serial[n][d]
                        /\ serialSrc(serial_iter + 1)'[d] =
                             IF d \in serial_todo' THEN Previous(n)[d]
                                                   ELSE Serial[n + 1][d]
    BY <1>1 DEF SerialData, Interior, Previous, u0, Cells
  <2>2. CASE d = c
    <3>1. serialSrc(n)[c] = Serial[n][c]
      BY <1>3 DEF ScriptInv, SerialData
    <3> QED
      BY <2>2, <3>1, <1>2, <1>7
  <2>3. CASE d # c
    <3>1. d \in Cells /\ (d \in serial_todo' <=> d \in serial_todo)
      BY <2>3, <1>2, InteriorInside
    <3>2. /\ serialSrc(serial_iter)'[d] = serialSrc(serial_iter)[d]
          /\ serialSrc(serial_iter + 1)'[d] = serialSrc(serial_iter + 1)[d]
      BY <2>3, <3>1, <1>6, <1>1 DEF serialSrc, SrcIsU1
    <3> QED
      BY <3>1, <3>2 DEF ScriptInv, SerialData
  <2> QED
    BY <2>2, <2>3
<1>9. SerialBoundary'
  <2>1. SUFFICES ASSUME NEW d \in Cells \ Interior
                 PROVE  /\ serial_u1'[d] = u0[d] /\ serial_u2'[d] = u0[d]
                        /\ Serial[serial_iter][d] = u0[d]
    BY <1>1 DEF SerialBoundary, Interior, Cells, u0
  <2>2. d # c
    BY <1>3
  <2> QED
    BY <2>2, <1>6 DEF ScriptInv, SerialBoundary
<1> QED
  BY <1>5, <1>8, <1>9

LEMMA NextSweepInv ==
  ASSUME ScriptInv, Reference!NextSweep
  PROVE  SerialTypes' /\ SerialData' /\ SerialBoundary'
<1> DEFINE n == serial_iter
<1>1. /\ n \in Nat /\ n \in 0 .. startMaxIter - 1 /\ n \in 0 .. maxBound - 1 /\ serial_todo = {}
      /\ serial_iter' = n + 1 /\ serial_todo' = Interior
      /\ serial_u1' = serial_u1 /\ serial_u2' = serial_u2
  BY Constants, SameGrid DEF ScriptInv, SerialTypes, Reference!NextSweep
<1>2. n + 1 \in 0 .. startMaxIter /\ (n + 1) + 1 = n + 2
  BY <1>1, Constants
<1>3. SerialTypes'
  <2>1. /\ serial_u1' = [d \in Cells |-> serial_u1'[d]]
        /\ serial_u2' = [d \in Cells |-> serial_u2'[d]]
    BY <1>1 DEF ScriptInv, SerialTypes
  <2> QED
    BY <1>1, <1>2, <2>1 DEF SerialTypes, Interior, Cells
<1>4. SerialData'
  <2>1. SUFFICES ASSUME NEW d \in Interior
                 PROVE  /\ serialSrc(serial_iter)'[d] = Serial[n + 1][d]
                        /\ serialSrc(serial_iter + 1)'[d] = Previous(n + 1)[d]
    BY <1>1 DEF SerialData, Interior, Previous, u0, Cells
  <2>2. /\ serialSrc(serial_iter)' = serialSrc(n + 1)
        /\ serialSrc(serial_iter + 1)' = serialSrc((n + 1) + 1)
    BY <1>1 DEF serialSrc, SrcIsU1
  <2>3. serialSrc(n)[d] = Serial[n][d] /\ serialSrc(n + 1)[d] = Serial[n + 1][d]
    BY <1>1 DEF ScriptInv, SerialData
  <2>4. serialSrc(n + 2) = serialSrc(n) /\ Previous(n + 1) = Serial[n]
    BY <1>1, SerialParity DEF Previous
  <2> QED
    BY <1>2, <2>2, <2>3, <2>4
<1>5. SerialBoundary'
  <2>1. SUFFICES ASSUME NEW d \in Cells \ Interior
                 PROVE  /\ serial_u1[d] = u0[d] /\ serial_u2[d] = u0[d]
                        /\ Serial[n + 1][d] = u0[d]
    BY <1>1 DEF SerialBoundary, Interior, Cells, u0
  <2>2. Serial[n + 1][d] = Serial[n][d]
    BY <1>1, SerialStep
  <2> QED
    BY <2>2 DEF ScriptInv, SerialBoundary
<1> QED
  BY <1>3, <1>4, <1>5

LEMMA TestNextInv == ScriptInv /\ [TestNext]_<<vars, serialVars>> => ScriptInv'
<1> SUFFICES ASSUME ScriptInv, [TestNext]_<<vars, serialVars>> PROVE ScriptInv'
  OBVIOUS
<1>1. CASE SerialSolver
  <2>1. SerialTypes' /\ SerialData' /\ SerialBoundary'
    BY <1>1, SerialUpdateInv, NextSweepInv DEF SerialSolver
  <2>2. Inv'
    BY <1>1, NextInv DEF SerialSolver, ScriptInv
  <2>3. OneAfterTheOther'
    <3>1. serial_iter # startMaxIter /\ tpc' = tpc
      BY <1>1, Constants DEF SerialSolver, Reference!UpdateCell, Reference!NextSweep,
         ScriptInv, SerialTypes, vars, callVars
    <3> QED
      BY <3>1 DEF ScriptInv, OneAfterTheOther
  <2> QED
    BY <2>1, <2>2, <2>3 DEF ScriptInv
<1>2. ASSUME UNCHANGED serialVars
      PROVE  SerialTypes' /\ SerialData' /\ SerialBoundary'
  <2>1. UNCHANGED <<serial_u1, serial_u2, serial_iter, serial_todo>>
    BY <1>2 DEF serialVars
  <2>2. SerialTypes'
    BY <2>1 DEF ScriptInv, SerialTypes, Interior, Cells
  <2>3. SerialBoundary'
    BY <2>1 DEF ScriptInv, SerialBoundary, Interior, Cells, u0
  <2>4. SerialData'
    <3>1. SUFFICES ASSUME NEW d \in Interior
                   PROVE  /\ serialSrc(serial_iter)'[d] = Serial[serial_iter][d]
                          /\ serialSrc(serial_iter + 1)'[d] =
                               IF d \in serial_todo THEN Previous(serial_iter)[d]
                                                    ELSE Serial[serial_iter + 1][d]
      BY <2>1 DEF SerialData, Interior, Previous, u0, Cells
    <3>2. /\ serialSrc(serial_iter)' = serialSrc(serial_iter)
          /\ serialSrc(serial_iter + 1)' = serialSrc(serial_iter + 1)
      BY <2>1 DEF serialSrc, SrcIsU1
    <3> QED
      BY <3>2 DEF ScriptInv, SerialData
  <2> QED
    BY <2>2, <2>3, <2>4
<1>3. CASE ParallelSolver
  <2>1. Inv'
    BY <1>3, NextInv DEF ParallelSolver, ScriptInv
  <2>2. OneAfterTheOther'
    BY <1>3 DEF ParallelSolver, serialVars, OneAfterTheOther
  <2> QED
    BY <1>2, <1>3, <2>1, <2>2 DEF ParallelSolver, ScriptInv
<1>4. CASE UNCHANGED <<vars, serialVars>>
  <2>1. Inv'
    BY <1>4, NextInv DEF ScriptInv
  <2>2. OneAfterTheOther'
    BY <1>4 DEF ScriptInv, OneAfterTheOther, vars, callVars, serialVars
  <2> QED
    BY <1>2, <1>4, <2>1, <2>2 DEF ScriptInv
<1> QED
  BY <1>1, <1>3, <1>4 DEF TestNext

LEMMA TestInvariance == TestSpec => []ScriptInv
<1>1. TestInit => ScriptInv
  BY TestInitInv
<1>2. ScriptInv /\ [TestNext]_<<vars, serialVars>> => ScriptInv'
  BY TestNextInv
<1> QED
  BY <1>1, <1>2, PTL DEF TestSpec
-----------------------------------------------------------------------------
(***************************************************************************)
(* Where no early stop has changed the number of iterations, both diffs of *)
(* the script are empty: the files the parallel program writes are equal   *)
(* to those of the serial one, in both buffers.                            *)
(***************************************************************************)
THEOREM DiffsAreEmpty == TestSpec => []NoDifference
<1>1. ASSUME ScriptInv PROVE NoDifference
  <2>1. SUFFICES ASSUME Finished, maxIter = startMaxIter PROVE u1 = serial_u1 /\ u2 = serial_u2
    BY DEF NoDifference
  <2>2. /\ maxIter \in Nat \ {0} /\ maxIter <= startMaxIter /\ 0 \in TaskIds
        /\ maxIter - 1 \in 0 .. maxBound - 1 /\ (maxIter - 1) + 1 = maxIter
    BY <2>1, Constants DEF TaskIds
  <2>3. serial_iter = maxIter /\ serial_todo = Interior
    <3>1. tpc[0] = "finished"
      BY <2>1, <2>2 DEF Finished
    <3> QED
      BY <1>1, <2>1, <2>2, <3>1 DEF ScriptInv, OneAfterTheOther, SerialTypes
  <2>4. ASSUME NEW c \in Cells
        PROVE  /\ serialSrc(maxIter)[c] = Serial[maxIter][c]
               /\ serialSrc(maxIter + 1)[c] = Serial[maxIter - 1][c]
    <3>1. CASE c \in Interior
      <4>1. Previous(maxIter) = Serial[maxIter - 1]
        BY <2>2 DEF Previous
      <4> QED
        BY <1>1, <2>3, <3>1, <4>1 DEF ScriptInv, SerialData
    <3>2. CASE c \notin Interior
      <4>1. /\ serial_u1[c] = u0[c] /\ serial_u2[c] = u0[c]
            /\ Serial[maxIter][c] = u0[c]
        BY <1>1, <2>3, <3>2 DEF ScriptInv, SerialBoundary
      <4>2. Serial[(maxIter - 1) + 1][c] = Serial[maxIter - 1][c]
        BY <2>2, <3>2, SerialStep
      <4> QED
        BY <2>2, <4>1, <4>2 DEF serialSrc
    <3> QED
      BY <3>1, <3>2
  <2>5. \A c \in Cells : u1[c] = serial_u1[c] /\ u2[c] = serial_u2[c]
    <3>1. SUFFICES ASSUME NEW c \in Cells
                   PROVE  u1[c] = serial_u1[c] /\ u2[c] = serial_u2[c]
      OBVIOUS
    <3>2. /\ getSrcVec(maxIter)[c] = serialSrc(maxIter)[c]
          /\ getSrcVec(maxIter + 1)[c] = serialSrc(maxIter + 1)[c]
      BY <1>1, <2>1, <2>2, <2>4, FinalData DEF ScriptInv
    <3>3. /\ getSrcVec(maxIter + 1) = IF SrcIsU1(maxIter) THEN u2 ELSE u1
          /\ serialSrc(maxIter + 1) = IF SrcIsU1(maxIter) THEN serial_u2 ELSE serial_u1
      BY <2>2, Parity, SerialParity
    <3>4. /\ getSrcVec(maxIter) = IF SrcIsU1(maxIter) THEN u1 ELSE u2
          /\ serialSrc(maxIter) = IF SrcIsU1(maxIter) THEN serial_u1 ELSE serial_u2
      BY DEF getSrcVec, serialSrc
    <3> QED
      BY <3>2, <3>3, <3>4
  <2>6. /\ u1 = [c \in Cells |-> u1[c]] /\ u2 = [c \in Cells |-> u2[c]]
        /\ serial_u1 = [c \in Cells |-> serial_u1[c]]
        /\ serial_u2 = [c \in Cells |-> serial_u2[c]]
    BY <1>1 DEF ScriptInv, Inv, GridTypes, SerialTypes
  <2>7. u1 = serial_u1
    BY <2>5, <2>6
  <2>8. u2 = serial_u2
    BY <2>5, <2>6
  <2> QED
    BY <2>7, <2>8
<1> QED
  BY <1>1, TestInvariance, PTL
=============================================================================

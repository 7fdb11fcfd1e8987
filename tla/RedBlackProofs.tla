--------------------------- MODULE RedBlackProofs ---------------------------
(***************************************************************************)
(* The red-black solver for grids of any size and any number of            *)
(* iterations.  The invariant follows calIndexes: the lists hold exactly   *)
(* the points of the columns passed so far, a point's colour is the parity *)
(* of its row plus its column, and toggle is the parity of the row.        *)
(***************************************************************************)
EXTENDS RedBlack, FiniteSetTheorems, SequenceTheorems, TLAPS

Rows == 1 .. numGridY - 2
Cols == 1 .. numGridX - 2
Point(r, c) == r * numGridX + c

\* The red points are the even ones.
Red == 0
Black == 1
Colour(r, c) == (r + c) % 2

Types ==
  /\ numGridX \in 2 .. maxPoints /\ numGridY \in 2 .. maxPoints
  /\ i \in Nat \ {0} /\ j \in Nat \ {0} /\ toggle \in BOOLEAN
  /\ redIndex \in Seq(Nat) /\ blackIndex \in Seq(Nat)
  /\ numiter_p \in Nat /\ pending \in SUBSET Nat /\ u \in [Points -> Nat]
  /\ pc \in {"row", "column", "red", "black", "done"}

\* Where the loops of calIndexes are.
Cursor ==
  /\ pc = "row" => (toggle <=> i % 2 = 0)
  /\ pc = "column" => (toggle <=> i % 2 = 1) /\ i < numGridY - 1 /\ j % 2 = 1
  /\ pc \notin {"row", "column"} => i >= numGridY - 1

Scanned(r, c) == r < i \/ (pc = "column" /\ r = i /\ c < j)

\* A list has the points of its colour that were scanned, and no others.
Listed(list, colour) ==
  /\ \A p \in Members(list) : \E r \in Rows, c \in Cols :
       Scanned(r, c) /\ Colour(r, c) = colour /\ p = Point(r, c)
  /\ \A r \in Rows, c \in Cols :
       Scanned(r, c) /\ Colour(r, c) = colour => Point(r, c) \in Members(list)

Both == Members(redIndex) \cup Members(blackIndex)

\* No point is in the lists twice.
Counted ==
  /\ IsFiniteSet(Both)
  /\ Cardinality(Both) = Len(redIndex) + Len(blackIndex)

ScanInv == Cursor /\ Listed(redIndex, Red) /\ Listed(blackIndex, Black) /\ Counted

\* All points of a colour have been relaxed n times, or once more if they are
\* no longer pending.
Relaxed(list, n) ==
  \A p \in Members(list) : u[p] = IF p \in pending THEN n ELSE n + 1

LoopInv ==
  /\ pc \in {"row", "column", "done"} => pending = {}
  /\ pc \in {"row", "column"} => numiter_p = 0 /\ \A p \in Points : u[p] = 0
  /\ pc = "red" =>
       /\ pending \subseteq Members(redIndex)
       /\ Relaxed(redIndex, numiter_p)
       /\ \A p \in Members(blackIndex) : u[p] = numiter_p
  /\ pc = "black" =>
       /\ pending \subseteq Members(blackIndex)
       /\ \A p \in Members(redIndex) : u[p] = numiter_p + 1
       /\ Relaxed(blackIndex, numiter_p)

Inv == Types /\ ScanInv /\ LoopInv

-----------------------------------------------------------------------------
(* The numbering of the points. *)

LEMMA SizeFacts ==
  ASSUME Types
  PROVE  /\ numGridX \in Nat /\ numGridX >= 2
         /\ numGridY \in Nat /\ numGridY >= 2
BY maxPointsAssumption DEF Types

\* A later row lies behind all of an earlier one.
LEMMA RowsApart ==
  ASSUME NEW X \in Nat, NEW r \in Nat, NEW s \in Nat, r < s
  PROVE  r * X + X <= s * X
<1>1. PICK d \in Nat : s = r + 1 + d
  <2>1. s - r - 1 \in Nat /\ s = r + 1 + (s - r - 1)
    OBVIOUS
  <2> QED
    BY <2>1
<1>2. s * X = r * X + X + d * X /\ d * X \in Nat /\ r * X \in Nat
  BY <1>1
<1> QED
  BY <1>2

\* The index tells row and column.
LEMMA PointInjective ==
  ASSUME Types, NEW r \in Nat, NEW s \in Nat,
         NEW c \in 0 .. numGridX - 1, NEW d \in 0 .. numGridX - 1,
         Point(r, c) = Point(s, d)
  PROVE  r = s /\ c = d
<1> DEFINE X == numGridX
           a == r * X
           b == s * X
<1>1. X \in Nat /\ c \in 0 .. X - 1 /\ d \in 0 .. X - 1
  BY SizeFacts
<1>2. a \in Nat /\ b \in Nat /\ a + c = b + d
  BY <1>1 DEF Point
<1>3. (r < s => a + X <= b) /\ (s < r => b + X <= a)
  BY <1>1, RowsApart
<1>4. r = s => a = b
  OBVIOUS
<1> HIDE DEF X, a, b
<1> QED
  BY <1>1, <1>2, <1>3, <1>4

\* Inner points are points of the grid.
LEMMA InnerPoints ==
  ASSUME Types, NEW r \in Rows, NEW c \in Cols
  PROVE  Point(r, c) \in Points /\ Point(r, c) \in Nat
<1> DEFINE X == numGridX
           a == r * X
           b == numGridY * X
<1>1. X \in Nat /\ numGridY \in Nat /\ r \in Nat /\ r < numGridY /\ c \in 0 .. X - 1
  BY SizeFacts DEF Rows, Cols
<1>2. a \in Nat /\ b \in Nat /\ a + X <= b
  BY <1>1, RowsApart
<1>3. Point(r, c) = a + c /\ Points = 0 .. X * numGridY - 1 /\ X * numGridY = b
  BY <1>1 DEF Point, Points
<1> HIDE DEF X, a, b
<1> QED
  BY <1>1, <1>2, <1>3

LEMMA InnerIs ==
  \A p : p \in Inner <=> \E r \in Rows, c \in Cols : p = Point(r, c)
BY DEF Inner, Rows, Cols, Point

\* Points next to each other have different colours.
LEMMA NeighbourColour ==
  ASSUME Types, NEW r \in Rows, NEW c \in Cols, NEW s \in Rows, NEW d \in Cols,
         Point(s, d) \in Neighbours(Point(r, c))
  PROVE  Colour(s, d) # Colour(r, c)
<1> DEFINE X == numGridX
<1>1. X \in Nat /\ r \in Nat \ {0} /\ s \in Nat \ {0}
      /\ c \in 1 .. X - 2 /\ d \in 1 .. X - 2
  BY SizeFacts DEF Rows, Cols
<1>2. /\ Point(r, c) - 1 = Point(r, c - 1) /\ Point(r, c) + 1 = Point(r, c + 1)
      /\ Point(r, c) - X = Point(r - 1, c) /\ Point(r, c) + X = Point(r + 1, c)
  <2>1. /\ r * X \in Nat
        /\ (r - 1) * X = r * X - X /\ (r + 1) * X = r * X + X
    BY <1>1
  <2> DEFINE a == r * X
  <2> HIDE DEF a, X
  <2>2. /\ (a + c) - 1 = a + (c - 1) /\ (a + c) + 1 = a + (c + 1)
        /\ (a + c) - X = (a - X) + c /\ (a + c) + X = (a + X) + c
    BY <1>1, <2>1 DEF a
  <2> QED
    BY <2>1, <2>2 DEF a, X, Point
<1>3. \/ Point(s, d) = Point(r, c - 1) \/ Point(s, d) = Point(r, c + 1)
      \/ Point(s, d) = Point(r - 1, c) \/ Point(s, d) = Point(r + 1, c)
  BY <1>2 DEF Neighbours
<1>4. /\ c - 1 \in 0 .. X - 1 /\ c + 1 \in 0 .. X - 1 /\ c \in 0 .. X - 1
      /\ d \in 0 .. X - 1 /\ r - 1 \in Nat /\ r + 1 \in Nat
  BY <1>1
<1>5. \/ s = r /\ d = c - 1
      \/ s = r /\ d = c + 1
      \/ s = r - 1 /\ d = c
      \/ s = r + 1 /\ d = c
  <2> HIDE DEF X
  <2>1. s \in Nat /\ r \in Nat /\ c - 1 \in 0 .. numGridX - 1 /\ c + 1 \in 0 .. numGridX - 1
        /\ c \in 0 .. numGridX - 1 /\ d \in 0 .. numGridX - 1
    BY <1>1, <1>4 DEF X
  <2>2. CASE Point(s, d) = Point(r, c - 1)
    BY <2>1, <2>2, PointInjective
  <2>3. CASE Point(s, d) = Point(r, c + 1)
    BY <2>1, <2>3, PointInjective
  <2>4. CASE Point(s, d) = Point(r - 1, c)
    BY <1>4, <2>1, <2>4, PointInjective
  <2>5. CASE Point(s, d) = Point(r + 1, c)
    BY <1>4, <2>1, <2>5, PointInjective
  <2> QED
    BY <1>3, <2>2, <2>3, <2>4, <2>5
<1> HIDE DEF X
<1> QED
  BY <1>1, <1>5 DEF Colour

-----------------------------------------------------------------------------
(* calIndexes. *)

LEMMA ModZero ==
  ASSUME NEW n \in Nat \ {0}, NEW a \in 1 .. n
  PROVE  a % n = 0 <=> a = n
<1> DEFINE q == a \div n
           m == a % n
<1>1. q \in Nat /\ m \in 0 .. n - 1 /\ a = n * q + m
  OBVIOUS
<1> HIDE DEF q, m
<1>2. CASE q = 0
  BY <1>1, <1>2
<1>3. CASE q = 1
  BY <1>1, <1>3
<1>4. CASE q >= 2
  <2>1. PICK d \in Nat : q = 2 + d
    <3>1. q - 2 \in Nat /\ q = 2 + (q - 2)
      BY <1>1, <1>4
    <3> QED
      BY <3>1
  <2>2. n * q = n + n + n * d /\ n * d \in Nat
    BY <2>1
  <2> QED
    BY <1>1, <2>2
<1>5. (m = 0 <=> a = n) => (a % n = 0 <=> a = n)
  BY DEF m
<1> QED
  BY <1>1, <1>2, <1>3, <1>4, <1>5

\* The special case of calIndexes is the column in front of the boundary.
LEMMA LastColumn ==
  ASSUME Types, Cursor, pc = "column", j < numGridX - 1
  PROVE  /\ i \in Rows /\ j \in Cols
         /\ (numGridX % 2 = 1 /\ (j + 2) % numGridX = 0) <=> j + 1 \notin Cols
<1>1. numGridX \in Nat \ {0} /\ numGridY \in Nat /\ i \in Nat \ {0} /\ j \in Nat \ {0}
  BY SizeFacts DEF Types
<1>2. i < numGridY - 1 /\ j % 2 = 1
  BY DEF Cursor
<1>3. (j + 2) % numGridX = 0 <=> j + 2 = numGridX
  BY <1>1, ModZero
<1>4. j + 2 = numGridX => numGridX % 2 = 1
  BY <1>1, <1>2
<1>5. j + 1 \notin Cols <=> j + 2 = numGridX
  BY <1>1 DEF Cols
<1> QED
  BY <1>1, <1>2, <1>3, <1>4, <1>5 DEF Rows, Cols

LEMMA AppendMembers ==
  ASSUME NEW list \in Seq(Nat), NEW e \in Nat
  PROVE  /\ list \o <<e>> \in Seq(Nat)
         /\ Len(list \o <<e>>) = Len(list) + 1
         /\ Members(list \o <<e>>) = Members(list) \cup {e}
<1>1. <<e>> \in Seq(Nat) /\ Len(<<e>>) = 1 /\ <<e>>[1] = e
  OBVIOUS
<1>2. /\ list \o <<e>> \in Seq(Nat)
      /\ Len(list \o <<e>>) = Len(list) + 1
      /\ \A k \in 1 .. Len(list) + 1 :
           (list \o <<e>>)[k] = IF k <= Len(list) THEN list[k] ELSE <<e>>[k - Len(list)]
  BY <1>1, ConcatProperties
<1>3. Len(list) \in Nat
  OBVIOUS
<1>4. \A k \in 1 .. Len(list) : (list \o <<e>>)[k] = list[k]
  BY <1>2, <1>3
<1>5. (list \o <<e>>)[Len(list) + 1] = e
  BY <1>1, <1>2, <1>3
<1>6. 1 .. Len(list) + 1 = (1 .. Len(list)) \cup {Len(list) + 1}
  BY <1>3
<1> QED
  BY <1>2, <1>4, <1>5, <1>6 DEF Members

LEMMA AppendNothing ==
  ASSUME NEW list \in Seq(Nat)
  PROVE  list \o <<>> = list
BY ConcatEmptySeq

\* What a step of calIndexes adds to the list of a colour.
Fresh(colour) == {c \in {j, j + 1} \cap Cols : Colour(i, c) = colour}

LEMMA ListedGrows ==
  ASSUME Types, Cursor, pc = "column", j < numGridX - 1,
         NEW list, NEW colour, Listed(list, colour),
         NEW more, more = Members(list) \cup {Point(i, c) : c \in Fresh(colour)}
  PROVE  /\ \A p \in more : \E r \in Rows, c \in Cols :
              /\ Scanned(r, c) \/ (r = i /\ c \in {j, j + 1})
              /\ Colour(r, c) = colour /\ p = Point(r, c)
         /\ \A r \in Rows, c \in Cols :
              (Scanned(r, c) \/ (r = i /\ c \in {j, j + 1})) /\ Colour(r, c) = colour
                => Point(r, c) \in more
<1>1. i \in Rows
  BY LastColumn
<1> QED
  BY <1>1 DEF Listed, Fresh

\* One step of the inner loop, in terms of sets.
LEMMA PushFacts ==
  ASSUME Types, Cursor, pc = "column", j < numGridX - 1, Push
  PROVE  /\ redIndex' \in Seq(Nat) /\ blackIndex' \in Seq(Nat)
         /\ Members(redIndex)' = Members(redIndex) \cup {Point(i, c) : c \in Fresh(Red)}
         /\ Members(blackIndex)' = Members(blackIndex) \cup {Point(i, c) : c \in Fresh(Black)}
         /\ Len(redIndex') + Len(blackIndex') =
              Len(redIndex) + Len(blackIndex) + (IF j + 1 \in Cols THEN 2 ELSE 1)
<1> DEFINE here == Point(i, j)
           ofFirst == <<here>>
           ofSecond == IF j + 1 \in Cols THEN <<here + 1>> ELSE <<>>
<1>1. /\ redIndex' = redIndex \o (IF toggle THEN ofFirst ELSE ofSecond)
      /\ blackIndex' = blackIndex \o (IF toggle THEN ofSecond ELSE ofFirst)
  BY LastColumn DEF Push, Point
<1>2. i \in Rows /\ j \in Cols /\ i \in Nat /\ j \in Nat
  BY LastColumn DEF Types
<1>3. here \in Nat /\ here + 1 = Point(i, j + 1)
  <2>1. here \in Nat
    BY <1>2, InnerPoints
  <2>2. i * numGridX \in Nat
    BY <1>2, SizeFacts
  <2> QED
    BY <1>2, <2>1, <2>2 DEF Point
<1>4. redIndex \in Seq(Nat) /\ blackIndex \in Seq(Nat)
  BY DEF Types
<1>5. Len(redIndex) \in Nat /\ Len(blackIndex) \in Nat
  BY <1>4
<1>6. /\ toggle => Colour(i, j) = Red /\ Colour(i, j + 1) = Black
      /\ ~toggle => Colour(i, j) = Black /\ Colour(i, j + 1) = Red
  <2>1. (toggle <=> i % 2 = 1) /\ j % 2 = 1
    BY DEF Cursor
  <2> QED
    BY <1>2, <2>1 DEF Colour, Red, Black
<1>7. Red # Black
  BY DEF Red, Black
<1>8. Members(redIndex)' = Members(redIndex') /\ Members(blackIndex)' = Members(blackIndex')
  BY DEF Members
<1> HIDE DEF here
<1>9. CASE toggle /\ j + 1 \in Cols
  <2>1. /\ {Point(i, c) : c \in Fresh(Red)} = {here}
        /\ {Point(i, c) : c \in Fresh(Black)} = {here + 1}
    BY <1>2, <1>3, <1>6, <1>7, <1>9 DEF Fresh, here
  <2>2. redIndex' = redIndex \o <<here>> /\ blackIndex' = blackIndex \o <<here + 1>>
    BY <1>1, <1>4, <1>9
  <2>3. /\ redIndex' \in Seq(Nat) /\ Len(redIndex') = Len(redIndex) + 1
        /\ Members(redIndex') = Members(redIndex) \cup {here}
    BY <1>3, <1>4, <2>2, AppendMembers
  <2>4. /\ blackIndex' \in Seq(Nat) /\ Len(blackIndex') = Len(blackIndex) + 1
        /\ Members(blackIndex') = Members(blackIndex) \cup {here + 1}
    BY <1>3, <1>4, <2>2, AppendMembers
  <2>5. Len(redIndex') + Len(blackIndex') = Len(redIndex) + Len(blackIndex) + 2
    BY <1>5, <2>3, <2>4
  <2> QED
    BY <1>8, <1>9, <2>1, <2>3, <2>4, <2>5
<1>10. CASE toggle /\ j + 1 \notin Cols
  <2>1. /\ {Point(i, c) : c \in Fresh(Red)} = {here}
        /\ {Point(i, c) : c \in Fresh(Black)} = {}
    BY <1>2, <1>3, <1>6, <1>7, <1>10 DEF Fresh, here
  <2>2. redIndex' = redIndex \o <<here>> /\ blackIndex' = blackIndex
    BY <1>1, <1>4, <1>10, AppendNothing
  <2>3. /\ redIndex' \in Seq(Nat) /\ Len(redIndex') = Len(redIndex) + 1
        /\ Members(redIndex') = Members(redIndex) \cup {here}
    BY <1>3, <1>4, <2>2, AppendMembers
  <2>4. /\ blackIndex' \in Seq(Nat) /\ Len(blackIndex') = Len(blackIndex)
        /\ Members(blackIndex') = Members(blackIndex) \cup {}
    BY <1>4, <2>2
  <2>5. Len(redIndex') + Len(blackIndex') = Len(redIndex) + Len(blackIndex) + 1
    BY <1>5, <2>3, <2>4
  <2> QED
    BY <1>8, <1>10, <2>1, <2>3, <2>4, <2>5
<1>11. CASE ~toggle /\ j + 1 \in Cols
  <2>1. /\ {Point(i, c) : c \in Fresh(Red)} = {here + 1}
        /\ {Point(i, c) : c \in Fresh(Black)} = {here}
    BY <1>2, <1>3, <1>6, <1>7, <1>11 DEF Fresh, here
  <2>2. redIndex' = redIndex \o <<here + 1>> /\ blackIndex' = blackIndex \o <<here>>
    BY <1>1, <1>4, <1>11
  <2>3. /\ redIndex' \in Seq(Nat) /\ Len(redIndex') = Len(redIndex) + 1
        /\ Members(redIndex') = Members(redIndex) \cup {here + 1}
    BY <1>3, <1>4, <2>2, AppendMembers
  <2>4. /\ blackIndex' \in Seq(Nat) /\ Len(blackIndex') = Len(blackIndex) + 1
        /\ Members(blackIndex') = Members(blackIndex) \cup {here}
    BY <1>3, <1>4, <2>2, AppendMembers
  <2>5. Len(redIndex') + Len(blackIndex') = Len(redIndex) + Len(blackIndex) + 2
    BY <1>5, <2>3, <2>4
  <2> QED
    BY <1>8, <1>11, <2>1, <2>3, <2>4, <2>5
<1>12. CASE ~toggle /\ j + 1 \notin Cols
  <2>1. /\ {Point(i, c) : c \in Fresh(Red)} = {}
        /\ {Point(i, c) : c \in Fresh(Black)} = {here}
    BY <1>2, <1>3, <1>6, <1>7, <1>12 DEF Fresh, here
  <2>2. redIndex' = redIndex /\ blackIndex' = blackIndex \o <<here>>
    BY <1>1, <1>4, <1>12, AppendNothing
  <2>3. /\ redIndex' \in Seq(Nat) /\ Len(redIndex') = Len(redIndex)
        /\ Members(redIndex') = Members(redIndex) \cup {}
    BY <1>4, <2>2
  <2>4. /\ blackIndex' \in Seq(Nat) /\ Len(blackIndex') = Len(blackIndex) + 1
        /\ Members(blackIndex') = Members(blackIndex) \cup {here}
    BY <1>3, <1>4, <2>2, AppendMembers
  <2>5. Len(redIndex') + Len(blackIndex') = Len(redIndex) + Len(blackIndex) + 1
    BY <1>5, <2>3, <2>4
  <2> QED
    BY <1>8, <1>12, <2>1, <2>3, <2>4, <2>5
<1> QED
  BY <1>9, <1>10, <1>11, <1>12

\* None of the points of this step is in a list yet.
LEMMA NotYet ==
  ASSUME Types, ScanInv, pc = "column", NEW c \in Cols, c >= j, i \in Rows
  PROVE  Point(i, c) \notin Both
<1> SUFFICES ASSUME Point(i, c) \in Both PROVE FALSE
  OBVIOUS
<1>1. PICK r \in Rows, d \in Cols : Scanned(r, d) /\ Point(i, c) = Point(r, d)
  BY DEF Both, ScanInv, Listed
<1>2. /\ r \in Nat /\ i \in Nat /\ numGridX \in Nat
      /\ c \in 0 .. numGridX - 1 /\ d \in 0 .. numGridX - 1
  BY SizeFacts DEF Types, Rows, Cols
<1>3. i = r /\ c = d
  BY <1>1, <1>2, PointInjective
<1> QED
  BY <1>1, <1>2, <1>3 DEF Scanned, Types

LEMMA CountGrows ==
  ASSUME Types, ScanInv, pc = "column", j < numGridX - 1, Push
  PROVE  Counted'
<1>1. /\ i \in Rows /\ j \in Cols /\ i \in Nat /\ j \in Nat
      /\ redIndex \in Seq(Nat) /\ blackIndex \in Seq(Nat)
  BY LastColumn DEF Types, ScanInv
<1>2. /\ Members(redIndex)' = Members(redIndex) \cup {Point(i, c) : c \in Fresh(Red)}
      /\ Members(blackIndex)' = Members(blackIndex) \cup {Point(i, c) : c \in Fresh(Black)}
      /\ Len(redIndex') + Len(blackIndex') =
           Len(redIndex) + Len(blackIndex) + (IF j + 1 \in Cols THEN 2 ELSE 1)
  BY PushFacts DEF ScanInv
<1>3. \A c : c \in Fresh(Red) \/ c \in Fresh(Black) <=> c \in {j, j + 1} \cap Cols
  <2>1. \A c \in {j, j + 1} : Colour(i, c) = 0 \/ Colour(i, c) = 1
    BY <1>1 DEF Colour
  <2> QED
    BY <2>1 DEF Fresh, Red, Black
<1>4. Both' = Both \cup {Point(i, c) : c \in {j, j + 1} \cap Cols}
  BY <1>2, <1>3 DEF Both
<1>5. IsFiniteSet(Both) /\ Cardinality(Both) = Len(redIndex) + Len(blackIndex)
  BY DEF ScanInv, Counted
<1>6. Len(redIndex) \in Nat /\ Len(blackIndex) \in Nat
  BY <1>1
<1>7. Point(i, j) \notin Both
  BY <1>1, NotYet
<1> DEFINE one == Both \cup {Point(i, j)}
<1>8. IsFiniteSet(one) /\ Cardinality(one) = Len(redIndex) + Len(blackIndex) + 1
  BY <1>5, <1>7, FS_AddElement
<1>9. CASE j + 1 \notin Cols
  <2>1. Both' = one
    BY <1>1, <1>4, <1>9
  <2> QED
    BY <1>2, <1>8, <1>9, <2>1 DEF Counted
<1>10. CASE j + 1 \in Cols
  <2>1. Both' = one \cup {Point(i, j + 1)}
    BY <1>1, <1>4, <1>10
  <2>2. Point(i, j + 1) \notin Both
    BY <1>1, <1>10, NotYet
  <2>3. Point(i, j + 1) # Point(i, j)
    <3>1. i * numGridX \in Nat
      BY <1>1, SizeFacts
    <3> QED
      BY <1>1, <3>1 DEF Point
  <2>4. Point(i, j + 1) \notin one
    BY <2>2, <2>3
  <2> HIDE DEF one
  <2>5. /\ IsFiniteSet(Both')
        /\ Cardinality(Both') = Len(redIndex) + Len(blackIndex) + 1 + 1
    BY <1>8, <2>1, <2>4, FS_AddElement
  <2> QED
    BY <1>2, <1>6, <1>10, <2>5 DEF Counted
<1> QED
  BY <1>9, <1>10

LEMMA NextPairScan ==
  ASSUME Types, ScanInv, NextPair
  PROVE  Types' /\ ScanInv'
<1>1. /\ pc = "column" /\ j < numGridX - 1 /\ Push /\ j' = j + 2
      /\ UNCHANGED <<numGridX, numGridY, i, toggle, numiter_p, pending, u, pc>>
  BY DEF NextPair, size
<1>2. /\ redIndex' \in Seq(Nat) /\ blackIndex' \in Seq(Nat)
      /\ Members(redIndex)' = Members(redIndex) \cup {Point(i, c) : c \in Fresh(Red)}
      /\ Members(blackIndex)' = Members(blackIndex) \cup {Point(i, c) : c \in Fresh(Black)}
  BY <1>1, PushFacts DEF ScanInv
<1>3. Types'
  BY <1>1, <1>2 DEF Types, Points
<1>4. Cursor'
  BY <1>1 DEF ScanInv, Cursor, Types
<1>5. i \in Nat /\ j \in Nat /\ Rows \subseteq Int /\ Cols \subseteq Int
  BY DEF Types, Rows, Cols
<1>6. \A r \in Rows, c \in Cols :
        Scanned(r, c)' <=> Scanned(r, c) \/ (r = i /\ c \in {j, j + 1})
  BY <1>1, <1>5 DEF Scanned
<1>7. Rows' = Rows /\ Cols' = Cols /\ \A r, c : Point(r, c)' = Point(r, c)
  BY <1>1 DEF Rows, Cols, Point
<1>8. Listed(redIndex, Red)'
  <2>1. Listed(redIndex, Red) /\ Cursor
    BY DEF ScanInv
  <2>2. /\ \A p \in Members(redIndex)' : \E r \in Rows, c \in Cols :
              /\ Scanned(r, c) \/ (r = i /\ c \in {j, j + 1})
              /\ Colour(r, c) = Red /\ p = Point(r, c)
        /\ \A r \in Rows, c \in Cols :
              (Scanned(r, c) \/ (r = i /\ c \in {j, j + 1})) /\ Colour(r, c) = Red
                => Point(r, c) \in Members(redIndex)'
    BY <1>1, <1>2, <2>1, ListedGrows
  <2> QED
    BY <1>6, <1>7, <2>2 DEF Listed, Colour, Red
<1>9. Listed(blackIndex, Black)'
  <2>1. Listed(blackIndex, Black) /\ Cursor
    BY DEF ScanInv
  <2>2. /\ \A p \in Members(blackIndex)' : \E r \in Rows, c \in Cols :
              /\ Scanned(r, c) \/ (r = i /\ c \in {j, j + 1})
              /\ Colour(r, c) = Black /\ p = Point(r, c)
        /\ \A r \in Rows, c \in Cols :
              (Scanned(r, c) \/ (r = i /\ c \in {j, j + 1})) /\ Colour(r, c) = Black
                => Point(r, c) \in Members(blackIndex)'
    BY <1>1, <1>2, <2>1, ListedGrows
  <2> QED
    BY <1>6, <1>7, <2>2 DEF Listed, Colour, Black
<1>10. Counted'
  BY <1>1, CountGrows
<1> QED
  BY <1>3, <1>4, <1>8, <1>9, <1>10 DEF ScanInv

\* The lists only change together with what was scanned.
LEMMA SameScan ==
  ASSUME Types, ScanInv, Cursor', UNCHANGED <<numGridX, numGridY, redIndex, blackIndex>>,
         \A r \in Rows, c \in Cols : Scanned(r, c)' <=> Scanned(r, c)
  PROVE  ScanInv'
<1>1. Rows' = Rows /\ Cols' = Cols /\ \A r, c : Point(r, c)' = Point(r, c)
  BY DEF Rows, Cols, Point
<1>2. Members(redIndex)' = Members(redIndex) /\ Members(blackIndex)' = Members(blackIndex)
  BY DEF Members
<1>3. Listed(redIndex, Red)'
  <2>1. Listed(redIndex, Red)
    BY DEF ScanInv
  <2> QED
    BY <1>1, <1>2, <2>1 DEF Listed, Colour, Red
<1>4. Listed(blackIndex, Black)'
  <2>1. Listed(blackIndex, Black)
    BY DEF ScanInv
  <2> QED
    BY <1>1, <1>2, <2>1 DEF Listed, Colour, Black
<1>5. Counted'
  BY <1>2 DEF ScanInv, Counted, Both
<1> QED
  BY <1>3, <1>4, <1>5 DEF ScanInv

LEMMA NextRowScan ==
  ASSUME Types, ScanInv, NextRow
  PROVE  Types' /\ ScanInv'
<1>1. /\ pc = "row" /\ i < numGridY - 1 /\ toggle' = ~toggle /\ j' = 1 /\ pc' = "column"
      /\ UNCHANGED <<numGridX, numGridY, i, redIndex, blackIndex, numiter_p, pending, u>>
  BY DEF NextRow, size
<1>2. Types'
  BY <1>1 DEF Types, Points
<1>3. Cursor'
  <2>1. (toggle <=> i % 2 = 0) /\ i \in Nat
    BY <1>1 DEF ScanInv, Cursor, Types
  <2>2. (~toggle <=> i % 2 = 1) /\ 1 % 2 = 1
    BY <2>1
  <2> QED
    BY <1>1, <2>2 DEF Cursor
<1>4. \A r \in Rows, c \in Cols : Scanned(r, c)' <=> Scanned(r, c)
  BY <1>1 DEF Scanned, Rows, Cols
<1> QED
  BY <1>1, <1>2, <1>3, <1>4, SameScan

LEMMA EndRowScan ==
  ASSUME Types, ScanInv, EndRow
  PROVE  Types' /\ ScanInv'
<1>1. /\ pc = "column" /\ ~(j < numGridX - 1) /\ i' = i + 1 /\ pc' = "row"
      /\ UNCHANGED <<numGridX, numGridY, j, toggle, redIndex, blackIndex, numiter_p, pending, u>>
  BY DEF EndRow, size
<1>2. Types'
  BY <1>1 DEF Types, Points
<1>3. Cursor'
  <2>1. (toggle <=> i % 2 = 1) /\ i \in Nat
    BY <1>1 DEF ScanInv, Cursor, Types
  <2>2. toggle <=> (i + 1) % 2 = 0
    BY <2>1
  <2> QED
    BY <1>1, <2>2 DEF Cursor
<1>4. \A r \in Rows, c \in Cols : Scanned(r, c)' <=> Scanned(r, c)
  <2>1. j \in Nat /\ i \in Nat /\ numGridX \in Nat /\ numGridY \in Nat
    BY SizeFacts DEF Types
  <2> QED
    BY <1>1, <2>1 DEF Scanned, Rows, Cols
<1> QED
  BY <1>1, <1>2, <1>3, <1>4, SameScan

-----------------------------------------------------------------------------
(* Solve_parallel. *)

LEMMA MemberFacts ==
  ASSUME Types, ScanInv
  PROVE  /\ Members(redIndex) \subseteq Points /\ Members(redIndex) \subseteq Nat
         /\ Members(blackIndex) \subseteq Points /\ Members(blackIndex) \subseteq Nat
         /\ Members(redIndex) \cap Members(blackIndex) = {}
<1>1. \A p \in Members(redIndex) : \E r \in Rows, c \in Cols :
        Colour(r, c) = Red /\ p = Point(r, c)
  BY DEF ScanInv, Listed
<1>2. \A p \in Members(blackIndex) : \E r \in Rows, c \in Cols :
        Colour(r, c) = Black /\ p = Point(r, c)
  BY DEF ScanInv, Listed
<1>3. ASSUME NEW p \in Members(redIndex), p \in Members(blackIndex) PROVE FALSE
  <2>1. PICK r \in Rows, c \in Cols : Colour(r, c) = Red /\ p = Point(r, c)
    BY <1>1
  <2>2. PICK s \in Rows, d \in Cols : Colour(s, d) = Black /\ p = Point(s, d)
    BY <1>2, <1>3
  <2>3. r \in Nat /\ s \in Nat /\ c \in 0 .. numGridX - 1 /\ d \in 0 .. numGridX - 1
    BY SizeFacts DEF Rows, Cols
  <2>4. Point(r, c) = Point(s, d)
    BY <2>1, <2>2
  <2>5. r = s /\ c = d
    BY <2>3, <2>4, PointInjective
  <2> QED
    BY <2>1, <2>2, <2>5 DEF Red, Black
<1> QED
  BY <1>1, <1>2, <1>3, InnerPoints

\* The lists are complete when the solver starts, and not touched by it.
LEMMA SolverScan ==
  ASSUME Types, ScanInv, i >= numGridY - 1, pc # "column", pc' \notin {"row", "column"},
         UNCHANGED <<size, lists>>
  PROVE  ScanInv'
<1>1. Cursor'
  BY DEF Cursor, size, lists
<1>2. \A r \in Rows, c \in Cols : Scanned(r, c)' <=> Scanned(r, c)
  BY DEF Scanned, lists
<1> QED
  BY <1>1, <1>2, SameScan DEF size, lists

LEMMA RelaxPointLoop ==
  ASSUME Inv, RelaxPoint
  PROVE  Types' /\ LoopInv'
<1>1. PICK p \in pending :
        /\ u' = [u EXCEPT ![p] = @ + 1] /\ pending' = pending \ {p}
        /\ pc \in {"red", "black"}
        /\ UNCHANGED <<numGridX, numGridY, i, j, toggle, redIndex, blackIndex, numiter_p, pc>>
  BY DEF RelaxPoint, size, lists
<1>2. /\ Members(redIndex)' = Members(redIndex) /\ Members(blackIndex)' = Members(blackIndex)
      /\ Points' = Points
  BY <1>1 DEF Members, Points
<1>3. /\ Members(redIndex) \subseteq Points /\ Members(blackIndex) \subseteq Points
      /\ Members(redIndex) \cap Members(blackIndex) = {}
  BY MemberFacts DEF Inv
<1>4. u \in [Points -> Nat] /\ numiter_p \in Nat
  BY DEF Inv, Types
<1>5. u' \in [Points -> Nat] /\ pending' \in SUBSET Nat
  <2>1. u' \in [Points -> Nat]
    <3>1. p \in Points /\ u[p] + 1 \in Nat
      BY <1>1, <1>3, <1>4 DEF Inv, LoopInv
    <3> QED
      BY <1>1, <1>4, <3>1
  <2>2. pending \in SUBSET Nat
    BY DEF Inv, Types
  <2> QED
    BY <1>1, <2>1, <2>2
<1>6. Types'
  BY <1>1, <1>2, <1>5 DEF Inv, Types
<1>7. CASE pc = "red"
  <2>1. /\ pending \subseteq Members(redIndex)
        /\ \A q \in Members(redIndex) :
             u[q] = IF q \in pending THEN numiter_p ELSE numiter_p + 1
        /\ \A q \in Members(blackIndex) : u[q] = numiter_p
    BY <1>7 DEF Inv, LoopInv, Relaxed
  <2>2. \A q \in Members(redIndex) :
          u'[q] = IF q \in pending' THEN numiter_p ELSE numiter_p + 1
    BY <1>1, <1>3, <1>4, <2>1
  <2>3. \A q \in Members(blackIndex) : u'[q] = numiter_p
    BY <1>1, <1>3, <1>4, <2>1
  <2> QED
    BY <1>1, <1>2, <1>6, <1>7, <2>1, <2>2, <2>3 DEF LoopInv, Relaxed
<1>8. CASE pc = "black"
  <2>1. /\ pending \subseteq Members(blackIndex)
        /\ \A q \in Members(blackIndex) :
             u[q] = IF q \in pending THEN numiter_p ELSE numiter_p + 1
        /\ \A q \in Members(redIndex) : u[q] = numiter_p + 1
    BY <1>8 DEF Inv, LoopInv, Relaxed
  <2>2. \A q \in Members(blackIndex) :
          u'[q] = IF q \in pending' THEN numiter_p ELSE numiter_p + 1
    BY <1>1, <1>3, <1>4, <2>1
  <2>3. \A q \in Members(redIndex) : u'[q] = numiter_p + 1
    BY <1>1, <1>3, <1>4, <2>1
  <2> QED
    BY <1>1, <1>2, <1>6, <1>8, <2>1, <2>2, <2>3 DEF LoopInv, Relaxed
<1> QED
  BY <1>1, <1>7, <1>8

LEMMA StartSolverLoop ==
  ASSUME Inv, StartSolver
  PROVE  Types' /\ LoopInv'
<1>1. /\ pc = "row" /\ pc' = "red" /\ pending' = Members(redIndex)
      /\ UNCHANGED <<numGridX, numGridY, i, j, toggle, redIndex, blackIndex, numiter_p, u>>
  BY DEF StartSolver, size, lists
<1>2. /\ Members(redIndex)' = Members(redIndex) /\ Members(blackIndex)' = Members(blackIndex)
      /\ Points' = Points
  BY <1>1 DEF Members, Points
<1>3. /\ Members(redIndex) \subseteq Points /\ Members(blackIndex) \subseteq Points
      /\ Members(redIndex) \subseteq Nat
  BY MemberFacts DEF Inv
<1>4. numiter_p = 0 /\ \A p \in Points : u[p] = 0
  BY <1>1 DEF Inv, LoopInv
<1> QED
  BY <1>1, <1>2, <1>3, <1>4 DEF Inv, Types, LoopInv, Relaxed

LEMMA StartBlackLoop ==
  ASSUME Inv, StartBlack
  PROVE  Types' /\ LoopInv'
<1>1. /\ pc = "red" /\ pc' = "black" /\ pending = {} /\ pending' = Members(blackIndex)
      /\ UNCHANGED <<numGridX, numGridY, i, j, toggle, redIndex, blackIndex, numiter_p, u>>
  BY DEF StartBlack, size, lists
<1>2. /\ Members(redIndex)' = Members(redIndex) /\ Members(blackIndex)' = Members(blackIndex)
      /\ Points' = Points
  BY <1>1 DEF Members, Points
<1>3. Members(blackIndex) \subseteq Nat
  BY MemberFacts DEF Inv
<1>4. /\ \A p \in Members(redIndex) : u[p] = numiter_p + 1
      /\ \A p \in Members(blackIndex) : u[p] = numiter_p
  BY <1>1 DEF Inv, LoopInv, Relaxed
<1> QED
  BY <1>1, <1>2, <1>3, <1>4 DEF Inv, Types, LoopInv, Relaxed

LEMMA NextIterationLoop ==
  ASSUME Inv, NextIteration
  PROVE  Types' /\ LoopInv'
<1>1. /\ pc = "black" /\ pending = {} /\ numiter_p' = numiter_p + 1
      /\ \/ pc' = "red" /\ pending' = Members(redIndex)
         \/ pc' = "done" /\ pending' = {}
      /\ UNCHANGED <<numGridX, numGridY, i, j, toggle, redIndex, blackIndex, u>>
  BY DEF NextIteration, size, lists
<1>2. /\ Members(redIndex)' = Members(redIndex) /\ Members(blackIndex)' = Members(blackIndex)
      /\ Points' = Points
  BY <1>1 DEF Members, Points
<1>3. Members(redIndex) \subseteq Nat
  BY MemberFacts DEF Inv
<1>4. /\ \A p \in Members(redIndex) : u[p] = numiter_p + 1
      /\ \A p \in Members(blackIndex) : u[p] = numiter_p + 1
  BY <1>1 DEF Inv, LoopInv, Relaxed
<1>5. Types'
  BY <1>1, <1>2, <1>3 DEF Inv, Types
<1>6. LoopInv'
  BY <1>1, <1>2, <1>4 DEF LoopInv, Relaxed
<1> QED
  BY <1>5, <1>6

-----------------------------------------------------------------------------
LEMMA InitInv == Init => Inv
<1> SUFFICES ASSUME Init PROVE Inv
  OBVIOUS
<1>1. Types
  <2>1. u \in [Points -> Nat]
    BY DEF Init
  <2>2. redIndex \in Seq(Nat) /\ blackIndex \in Seq(Nat)
    BY DEF Init
  <2> QED
    <3>1. /\ numGridX \in 2 .. maxPoints /\ numGridY \in 2 .. maxPoints
          /\ i = 1 /\ j = 1 /\ toggle = FALSE
          /\ numiter_p = 0 /\ pending = {} /\ pc = "row"
      BY DEF Init
    <3>2. i \in Nat \ {0} /\ j \in Nat \ {0} /\ numiter_p \in Nat /\ pending \in SUBSET Nat
      BY <3>1
    <3>3. toggle \in BOOLEAN
      BY <3>1, Zenon
    <3> QED
      BY <2>1, <2>2, <3>1, <3>2, <3>3, Zenon DEF Types
<1>2. /\ Members(redIndex) = {} /\ Members(blackIndex) = {}
      /\ Len(redIndex) = 0 /\ Len(blackIndex) = 0
  BY DEF Init, Members
<1>3. \A r \in Rows, c \in Cols : ~Scanned(r, c)
  BY SizeFacts, <1>1 DEF Init, Scanned, Rows
<1>4. Cursor
  BY DEF Init, Cursor
<1>5. Counted
  BY <1>2, FS_EmptySet DEF Counted, Both
<1>6. LoopInv
  BY DEF Init, LoopInv
<1> QED
  BY <1>1, <1>2, <1>3, <1>4, <1>5, <1>6 DEF Inv, ScanInv, Listed

LEMMA NextInv == Inv /\ [Next]_vars => Inv'
<1> SUFFICES ASSUME Inv, [Next]_vars PROVE Inv'
  OBVIOUS
<1>0. Types /\ ScanInv /\ LoopInv /\ Cursor
  BY DEF Inv, ScanInv
<1>1. CASE NextRow
  <2>1. pc = "row" /\ pc' = "column" /\ UNCHANGED <<numGridX, numGridY, numiter_p, pending, u>>
    BY <1>1 DEF NextRow, size
  <2>2. LoopInv'
    BY <1>0, <2>1 DEF LoopInv, Points
  <2> QED
    BY <1>0, <1>1, <2>2, NextRowScan DEF Inv
<1>2. CASE NextPair
  <2>1. pc = "column" /\ UNCHANGED <<numGridX, numGridY, numiter_p, pending, u, pc>>
    BY <1>2 DEF NextPair, size
  <2>2. LoopInv'
    BY <1>0, <2>1 DEF LoopInv, Points
  <2> QED
    BY <1>0, <1>2, <2>2, NextPairScan DEF Inv
<1>3. CASE EndRow
  <2>1. pc = "column" /\ pc' = "row" /\ UNCHANGED <<numGridX, numGridY, numiter_p, pending, u>>
    BY <1>3 DEF EndRow, size
  <2>2. LoopInv'
    BY <1>0, <2>1 DEF LoopInv, Points
  <2> QED
    BY <1>0, <1>3, <2>2, EndRowScan DEF Inv
<1>4. CASE StartSolver
  <2>1. ScanInv'
    <3>1. pc = "row" /\ pc' = "red" /\ ~(i < numGridY - 1) /\ UNCHANGED <<size, lists>>
      BY <1>4 DEF StartSolver
    <3>2. i >= numGridY - 1
      BY <1>0, <3>1, SizeFacts DEF Types
    <3> QED
      BY <1>0, <3>1, <3>2, SolverScan
  <2> QED
    BY <1>4, <2>1, StartSolverLoop DEF Inv
<1>5. CASE RelaxPoint
  <2>1. ScanInv'
    BY <1>0, <1>5, SolverScan DEF RelaxPoint, Cursor
  <2> QED
    BY <1>5, <2>1, RelaxPointLoop DEF Inv
<1>6. CASE StartBlack
  <2>1. ScanInv'
    BY <1>0, <1>6, SolverScan DEF StartBlack, Cursor
  <2> QED
    BY <1>6, <2>1, StartBlackLoop DEF Inv
<1>7. CASE NextIteration
  <2>1. ScanInv'
    BY <1>0, <1>7, SolverScan DEF NextIteration, Cursor
  <2> QED
    BY <1>7, <2>1, NextIterationLoop DEF Inv
<1>8. CASE UNCHANGED vars
  <2>1. UNCHANGED <<numGridX, numGridY, i, j, toggle, redIndex, blackIndex, numiter_p,
                    pending, u, pc>>
    BY <1>8 DEF vars, size, lists
  <2>2. Types'
    BY <1>0, <2>1 DEF Types, Points
  <2>3. ScanInv'
    BY <1>0, <2>1, SameScan DEF Cursor, Scanned
  <2>4. LoopInv'
    BY <1>0, <2>1 DEF LoopInv, Relaxed, Members, Points
  <2> QED
    BY <2>2, <2>3, <2>4 DEF Inv
<1> QED
  BY <1>1, <1>2, <1>3, <1>4, <1>5, <1>6, <1>7, <1>8 DEF Next, Ended

LEMMA Invariance == Spec => []Inv
BY InitInv, NextInv, PTL DEF Spec

\* When the solver runs, the two lists are all of the inner points.
LEMMA Complete ==
  ASSUME Inv, pc \notin {"row", "column"}
  PROVE  /\ \A r \in Rows, c \in Cols :
              Point(r, c) \in Members(IF Colour(r, c) = Red THEN redIndex ELSE blackIndex)
         /\ Members(redIndex) \cup Members(blackIndex) = Inner
<1>1. Types /\ Listed(redIndex, Red) /\ Listed(blackIndex, Black) /\ i >= numGridY - 1
  BY DEF Inv, ScanInv, Cursor
<1>2. \A r \in Rows, c \in Cols : Scanned(r, c)
  BY <1>1, SizeFacts DEF Scanned, Rows, Types
<1>3. \A r \in Rows, c \in Cols : Colour(r, c) = Red \/ Colour(r, c) = Black
  BY <1>1, SizeFacts DEF Rows, Cols, Colour, Red, Black
<1>4. \A r \in Rows, c \in Cols :
        Point(r, c) \in Members(IF Colour(r, c) = Red THEN redIndex ELSE blackIndex)
  BY <1>1, <1>2, <1>3 DEF Listed
<1>5. \A p \in Members(redIndex) \cup Members(blackIndex) : p \in Inner
  BY <1>1, InnerIs DEF Listed
<1>6. \A p \in Inner : p \in Members(redIndex) \cup Members(blackIndex)
  BY <1>4, InnerIs
<1> QED
  BY <1>4, <1>5, <1>6

(***************************************************************************)
(* calIndexes partitions the inner points of any grid, of even or odd      *)
(* width: every one is in exactly one of the lists, and once.              *)
(***************************************************************************)
THEOREM Partition == Spec => []ColoursPartition
<1>1. Inv => ColoursPartition
  <2> SUFFICES ASSUME Inv, pc \in {"red", "black"} PROVE
         /\ Members(redIndex) \cup Members(blackIndex) = Inner
         /\ Len(redIndex) + Len(blackIndex) = Cardinality(Inner)
    BY DEF ColoursPartition
  <2>1. Both = Inner
    BY Complete DEF Both
  <2> QED
    BY <2>1 DEF Both, Inv, ScanInv, Counted
<1> QED
  BY <1>1, Invariance, PTL

\* All that a parallel loop goes through has one colour.
LEMMA PendingColour ==
  ASSUME Inv, NEW p \in pending
  PROVE  /\ pc \in {"red", "black"}
         /\ \E r \in Rows, c \in Cols :
              p = Point(r, c) /\ Colour(r, c) = IF pc = "red" THEN Red ELSE Black
<1>1. pc \in {"red", "black"}
  BY DEF Inv, Types, LoopInv
<1>2. CASE pc = "red"
  <2>1. p \in Members(redIndex)
    BY <1>2 DEF Inv, LoopInv
  <2> QED
    BY <1>2, <2>1 DEF Inv, ScanInv, Listed
<1>3. CASE pc = "black"
  <2>1. p \in Members(blackIndex)
    BY <1>3 DEF Inv, LoopInv
  <2> QED
    BY <1>3, <2>1 DEF Inv, ScanInv, Listed
<1> QED
  BY <1>1, <1>2, <1>3

(***************************************************************************)
(* Neither parallel loop has a data race: neighbours differ in colour, as  *)
(* their rows plus columns differ by one.                                  *)
(***************************************************************************)
THEOREM NoRace == Spec => []LoopsRaceFree
<1>1. Inv => LoopsRaceFree
  <2> SUFFICES ASSUME Inv, NEW p \in pending, NEW q \in pending, q \in Neighbours(p)
               PROVE  FALSE
    BY DEF LoopsRaceFree
  <2>1. PICK r \in Rows, c \in Cols :
          p = Point(r, c) /\ Colour(r, c) = IF pc = "red" THEN Red ELSE Black
    BY PendingColour
  <2>2. PICK s \in Rows, d \in Cols :
          q = Point(s, d) /\ Colour(s, d) = IF pc = "red" THEN Red ELSE Black
    BY PendingColour
  <2>3. Types
    BY DEF Inv
  <2> QED
    BY <2>1, <2>2, <2>3, NeighbourColour
<1> QED
  BY <1>1, Invariance, PTL

(***************************************************************************)
(* The order of Gauss-Seidel holds in every iteration, whatever order the  *)
(* threads take the points in.                                             *)
(***************************************************************************)
THEOREM RelaxesInOrder == Spec => GaussSeidelOrder
<1>1. Inv /\ [Next]_vars =>
        [\A ind \in Points :
           u'[ind] # u[ind] =>
             /\ u[ind] = numiter_p
             /\ \A n \in Neighbours(ind) \cap Inner :
                  u[n] = IF ind \in Members(redIndex) THEN numiter_p ELSE numiter_p + 1]_vars
  <2> SUFFICES ASSUME Inv, [Next]_vars, NEW p \in Points, u'[p] # u[p]
               PROVE  /\ u[p] = numiter_p
                      /\ \A n \in Neighbours(p) \cap Inner :
                           u[n] = IF p \in Members(redIndex) THEN numiter_p ELSE numiter_p + 1
    OBVIOUS
  <2>1. RelaxPoint
    BY DEF Next, NextRow, NextPair, EndRow, StartSolver, StartBlack, NextIteration, Ended, vars
  <2>2. p \in pending
    BY <2>1 DEF RelaxPoint, Inv, Types
  <2>3. Types /\ ScanInv
    BY DEF Inv
  <2>4. PICK r \in Rows, c \in Cols :
          p = Point(r, c) /\ Colour(r, c) = IF pc = "red" THEN Red ELSE Black
    BY <2>2, PendingColour
  <2>5. pc \in {"red", "black"}
    BY <2>2, PendingColour
  <2>6. \A n \in Neighbours(p) \cap Inner :
          n \in IF pc = "red" THEN Members(blackIndex) ELSE Members(redIndex)
    <3> SUFFICES ASSUME NEW n \in Neighbours(p), n \in Inner
                 PROVE  n \in IF pc = "red" THEN Members(blackIndex) ELSE Members(redIndex)
      OBVIOUS
    <3>1. PICK s \in Rows, d \in Cols : n = Point(s, d)
      BY InnerIs
    <3>2. Colour(s, d) # Colour(r, c)
      BY <2>3, <2>4, <3>1, NeighbourColour
    <3>3. Colour(s, d) = Red \/ Colour(s, d) = Black
      BY <2>3, SizeFacts DEF Rows, Cols, Colour, Red, Black
    <3>4. Point(s, d) \in Members(IF Colour(s, d) = Red THEN redIndex ELSE blackIndex)
      BY <2>5, Complete
    <3>5. Red # Black
      BY DEF Red, Black
    <3> QED
      BY <2>4, <2>5, <3>1, <3>2, <3>3, <3>4, <3>5
  <2>7. CASE pc = "red"
    <3>1. p \in Members(redIndex) /\ u[p] = numiter_p
      BY <2>2, <2>7 DEF Inv, LoopInv, Relaxed
    <3>2. \A q \in Members(blackIndex) : u[q] = numiter_p
      BY <2>7 DEF Inv, LoopInv
    <3> QED
      BY <2>6, <2>7, <3>1, <3>2
  <2>8. CASE pc = "black"
    <3>1. p \in Members(blackIndex) /\ u[p] = numiter_p
      BY <2>2, <2>8 DEF Inv, LoopInv, Relaxed
    <3>2. p \notin Members(redIndex)
      BY <2>3, <3>1, MemberFacts
    <3>3. \A q \in Members(redIndex) : u[q] = numiter_p + 1
      BY <2>8 DEF Inv, LoopInv
    <3> QED
      BY <2>6, <2>8, <3>1, <3>2, <3>3
  <2> QED
    BY <2>5, <2>7, <2>8
<1> QED
  BY <1>1, Invariance, PTL DEF Spec, GaussSeidelOrder
=============================================================================

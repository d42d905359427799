--------------------------- MODULE GridSpotProofs ---------------------------
(***************************************************************************)
(* Theorems about GridSpot for every screen, margin, step of the grid,     *)
(* window, canvas and size of the text.                                    *)
(***************************************************************************)
EXTENDS GridSpot, TLAPS

(***************************************************************************)
(* The grid's positions                                                    *)
(***************************************************************************)
LEMMA Division ==
  ASSUME NEW v \in Nat, NEW n \in Nat \ {0}
  PROVE  /\ v \div n \in Nat
         /\ v - (v \div n) * n = v % n
         /\ v % n \in 0 .. n - 1
OBVIOUS

\* What is left of -v is what v is short of the next multiple of n.
LEMMA NegativeResidue ==
  ASSUME NEW n \in Nat \ {0}, NEW q \in Nat, NEW r \in 0 .. n - 1, NEW v \in Int,
         v = -(n * q + r)
  PROVE  v % n = IF r = 0 THEN 0 ELSE n - r
<1>1. CASE r = 0
  <2>1. v = n * (-q) /\ -q \in Int
    BY <1>1
  <2>2. \A m \in Int : (n * m) % n = 0
    OBVIOUS
  <2>3. v % n = 0
    BY <2>1, <2>2
  <2> QED BY <1>1, <2>3
<1>2. CASE r # 0
  <2>1. v = n * (-q - 1) + (n - r) /\ -q - 1 \in Int /\ n - r \in 0 .. n - 1
    BY <1>2
  <2>2. \A m \in Int, d \in 0 .. n - 1 : (n * m + d) % n = d
    OBVIOUS
  <2>3. v % n = n - r
    BY <2>1, <2>2
  <2> QED BY <1>2, <2>3
<1> QED BY <1>1, <1>2

\* wrapPercent is the residue of the position modulo 100 %, for positions on both sides
\* of 0.  So it is never 100 %: the arrow keys do not reach the pinned right and lower
\* edge (wrapPercent of tracker_teleprompter_grid_position.go).
THEOREM WrapIsModulo ==
  ASSUME NEW v \in Int
  PROVE  /\ WrapPercent(v) = v % GridUnits
         /\ WrapPercent(v) \in 0 .. GridUnits - 1
<1> USE GridAssumption
<1>1. CASE v >= 0
  <2>1. v \in Nat
    BY <1>1
  <2>2. v - WholePart(v) * GridUnits = v % GridUnits
    BY <1>1, <2>1, Division DEF WholePart
  <2>3. v % GridUnits \in 0 .. GridUnits - 1
    BY <2>1, Division
  <2> QED BY <2>2, <2>3 DEF WrapPercent
<1>2. CASE v < 0
  <2> DEFINE u == -v
  <2>1. u \in Nat /\ v = -u
    BY <1>2
  <2>2. WholePart(v) = -(u \div GridUnits)
    BY <1>2 DEF WholePart
  <2> HIDE DEF u
  <2> DEFINE q == u \div GridUnits
             r == u % GridUnits
  <2>3. q \in Nat /\ r \in 0 .. GridUnits - 1 /\ u - q * GridUnits = r
    BY <2>1, Division
  <2> HIDE DEF q, r
  <2>4. q \in Nat /\ r \in 0 .. GridUnits - 1 /\ u = GridUnits * q + r
    <3>1. q * GridUnits = GridUnits * q /\ GridUnits * q \in Nat
      BY <2>3
    <3> QED BY <2>1, <2>3, <3>1
  <2>5. v - WholePart(v) * GridUnits = -r
    <3>1. ASSUME NEW n \in Nat, u = n * q + r
          PROVE  v - (-q) * n = -r
      <4>1. (-q) * n = -(n * q) /\ n * q \in Nat
        BY <2>4
      <4> QED BY <2>1, <2>4, <3>1, <4>1
    <3>2. WholePart(v) = -q
      BY <2>2 DEF q
    <3> QED BY <2>4, <3>1, <3>2
  <2>6. v % GridUnits = IF r = 0 THEN 0 ELSE GridUnits - r
    BY <2>1, <2>4, NegativeResidue
  <2>7. WrapPercent(v) = IF -r < 0 THEN -r + GridUnits ELSE -r
    BY <2>5 DEF WrapPercent
  <2> QED BY <2>4, <2>6, <2>7
<1> QED BY <1>1, <1>2

(***************************************************************************)
(* The area and its margin                                                 *)
(***************************************************************************)
LEMMA ScreenIsRectangle == Screen \in Rectangles
BY CaptureAreaAssumption DEF Screen, Rect, Rectangles, Lesser, Greater

LEMMA OuterIsRectangle ==
  ASSUME NEW window \in Rectangles \union {Nil}, NEW canvas \in Rectangles \union {Nil}
  PROVE  Outer(window, canvas) \in Rectangles
BY ScreenIsRectangle DEF Outer

LEMMA InnerFields ==
  ASSUME NEW area \in Rectangles, NEW outer \in Rectangles
  PROVE  LET inner == Inner(area, outer)
         IN  /\ inner \in Rectangles
             /\ inner.minX = Greater(area.minX, outer.minX + gMargin)
             /\ inner.minY = Greater(area.minY, outer.minY + gMargin)
             /\ inner.maxX = Lesser(area.maxX, outer.maxX - gMargin)
             /\ inner.maxY = Lesser(area.maxY, outer.maxY - gMargin)
BY GridAssumption DEF Inner, Intersect, Rectangles, Greater, Lesser

\* What an inset leaves of a side: the area, or the margin if that is further in.
LEMMA InsetSide ==
  ASSUME NEW a \in Int, NEW o \in Int
  PROVE  /\ a + Inset(a - o) = Greater(a, o + gMargin)
         /\ a - Inset(o - a) = Lesser(a, o - gMargin)
         /\ Inset(a - o) \in Nat
BY GridAssumption DEF Inset, Greater, Lesser

\* The insets, computed side by side, leave the part of the area that keeps the margin
\* from the outer edge, if there is one (gridSpotFrame of window.go).
THEOREM EffectiveIsInner ==
  ASSUME NEW area \in Rectangles, NEW outer \in Rectangles, ~Empty(Inner(area, outer))
  PROVE  LET inner == Inner(area, outer)
         IN  Effective(area, outer) = [x |-> inner.minX, y |-> inner.minY,
                                       width |-> Dx(inner), height |-> Dy(inner)]
<1> DEFINE inner == Inner(area, outer)
           left == Inset(area.minX - outer.minX)
           top == Inset(area.minY - outer.minY)
           right == Inset(outer.maxX - area.maxX)
           bottom == Inset(outer.maxY - area.maxY)
<1>1. /\ area.minX \in Int /\ area.minY \in Int /\ area.maxX \in Int /\ area.maxY \in Int
      /\ outer.minX \in Int /\ outer.minY \in Int /\ outer.maxX \in Int /\ outer.maxY \in Int
  BY DEF Rectangles
<1>2. /\ left \in Nat /\ top \in Nat /\ right \in Nat /\ bottom \in Nat
      /\ area.minX + left = inner.minX /\ area.minY + top = inner.minY
      /\ area.maxX - right = inner.maxX /\ area.maxY - bottom = inner.maxY
  <2>1. /\ inner.minX = Greater(area.minX, outer.minX + gMargin)
        /\ inner.minY = Greater(area.minY, outer.minY + gMargin)
        /\ inner.maxX = Lesser(area.maxX, outer.maxX - gMargin)
        /\ inner.maxY = Lesser(area.maxY, outer.maxY - gMargin)
    BY InnerFields
  <2>2. left \in Nat /\ area.minX + left = Greater(area.minX, outer.minX + gMargin)
    BY <1>1, InsetSide
  <2>3. top \in Nat /\ area.minY + top = Greater(area.minY, outer.minY + gMargin)
    BY <1>1, InsetSide
  <2>4. right \in Nat /\ area.maxX - right = Lesser(area.maxX, outer.maxX - gMargin)
    BY <1>1, InsetSide
  <2>5. bottom \in Nat /\ area.maxY - bottom = Lesser(area.maxY, outer.maxY - gMargin)
    BY <1>1, InsetSide
  <2> HIDE DEF inner, left, top, right, bottom
  <2> QED BY <2>1, <2>2, <2>3, <2>4, <2>5
<1>3. Effective(area, outer) = [x |-> area.minX + left, y |-> area.minY + top,
                                width |-> Greater(1, Dx(area) - left - right),
                                height |-> Greater(1, Dy(area) - top - bottom)]
  BY DEF Effective
<1>4. inner.minX < inner.maxX /\ inner.minY < inner.maxY
  <2>1. inner.minX \in Int /\ inner.maxX \in Int /\ inner.minY \in Int /\ inner.maxY \in Int
    BY InnerFields DEF Rectangles
  <2> QED BY <2>1 DEF Empty
<1> HIDE DEF inner, left, top, right, bottom
<1>5. /\ Greater(1, Dx(area) - left - right) = Dx(inner)
      /\ Greater(1, Dy(area) - top - bottom) = Dy(inner)
  BY <1>1, <1>2, <1>4 DEF Greater, Dx, Dy
<1> QED BY <1>2, <1>3, <1>5 DEF inner

(***************************************************************************)
(* The frame                                                               *)
(***************************************************************************)
LEMMA FineType == Fine \in Nat \ {0} /\ Fine = GridUnits + GridUnits
BY GridAssumption DEF Fine

LEMMA AlignedType ==
  ASSUME NEW width \in Nat \ {0}
  PROVE  AlignedAt(width) \in Int
<1>1. GridUnits * width \in Int /\ Fine * width \in Int
  BY GridAssumption, FineType
<1> QED BY <1>1 DEF AlignedAt

\* Between the ends, the point held on the spot lies within the line.
LEMMA SpotOnLine ==
  ASSUME NEW p \in 1 .. GridUnits - 1, NEW from \in Int, NEW length \in Nat,
         NEW size \in Nat, NEW held \in Int
  PROVE  /\ Origin(p, from, length, size, held) \in Int
         /\ Between(from, Origin(p, from, length, size, held) + held, from + length)
<1>1. p \in Nat /\ p # 0 /\ p # GridUnits /\ p <= GridUnits
  BY GridAssumption
<1>2. Origin(p, from, length, size, held) = Fine * from + 2 * p * length - held
  BY <1>1 DEF Origin
<1>3. p * length \in Nat /\ p * length <= GridUnits * length /\ GridUnits * length \in Nat
  <2>1. \E d \in Nat : GridUnits = p + d
    <3>1. GridUnits - p \in Nat /\ GridUnits = p + (GridUnits - p)
      BY <1>1, GridAssumption
    <3> QED BY <3>1
  <2>2. PICK d \in Nat : GridUnits = p + d
    BY <2>1
  <2>3. (p + d) * length = p * length + d * length /\ d * length \in Nat /\ p * length \in Nat
    BY <1>1
  <2> QED BY <2>2, <2>3
<1>4. 2 * p * length = 2 * (p * length)
  BY <1>1
<1>5. /\ Fine * from \in Int /\ Fine * (from + length) \in Int
      /\ Fine * (from + length) = Fine * from + 2 * (GridUnits * length)
  BY GridAssumption DEF Fine
<1>6. ASSUME NEW a \in Int, NEW b \in Nat, NEW c \in Nat, b <= c
      PROVE  a + 2 * b - held \in Int /\ a <= (a + 2 * b - held) + held
             /\ (a + 2 * b - held) + held <= a + 2 * c
  BY <1>6
<1> HIDE DEF Fine
<1> QED BY <1>2, <1>3, <1>4, <1>5, <1>6 DEF Between

\* At the ends, a stretch that fits the line lies within it.
LEMMA PinnedOnLine ==
  ASSUME NEW p \in {0, GridUnits}, NEW from \in Int, NEW length \in Nat,
         NEW size \in Nat, size <= length, NEW held \in Int
  PROVE  LET o == Origin(p, from, length, size, held)
         IN  o \in Int /\ Between(from, o, from + length) /\ Between(from, o + Fine * size, from + length)
<1>1. ASSUME NEW a \in Int, NEW b \in Int, a <= b
      PROVE  Fine * a <= Fine * b
  <2>1. PICK d \in Nat : b = a + d
    <3>1. b - a \in Nat /\ b = a + (b - a)
      BY <1>1
    <3> QED BY <3>1
  <2>2. Fine * (a + d) = Fine * a + Fine * d /\ Fine * d \in Nat /\ Fine * a \in Int
    BY FineType
  <2> QED BY <2>1, <2>2
<1>2. PICK first \in Int : /\ Origin(p, from, length, size, held) = Fine * first
                           /\ from <= first /\ first + size <= from + length
  <2>1. CASE p = 0
    BY <2>1 DEF Origin
  <2>2. CASE p = GridUnits
    <3>1. Origin(p, from, length, size, held) = Fine * (from + length - size)
      BY <2>2, GridAssumption DEF Origin
    <3> QED BY <3>1
  <2> QED BY <2>1, <2>2
<1>3. Fine * first \in Int /\ Fine * first + Fine * size = Fine * (first + size)
  BY FineType
<1> HIDE DEF Fine
<1>4. first <= from + length /\ from <= first + size /\ first + size \in Int /\ from + length \in Int
  BY <1>2
<1> QED BY <1>1, <1>2, <1>3, <1>4 DEF Between

\* Wherever the window, its canvas and the screen lie, and whatever the size of the text:
\* if the area has room that keeps the margin, the text's spot is there, and a text that
\* fits is there as a whole at the corners (gridSpotFrame of window.go).
THEOREM MarginIsKept ==
  ASSUME NEW window \in Rectangles \union {Nil}, NEW canvas \in Rectangles \union {Nil},
         Area(window, canvas) # Nil, NEW spot \in Spots, NEW size \in Sizes
  PROVE  KeepsMargin(window, canvas, spot, size)
<1> DEFINE area == Area(window, canvas)
           outer == Outer(window, canvas)
           inner == Inner(area, outer)
           f == SpotFrame(window, canvas, spot, size)
           across == Origin(spot[1], inner.minX, Dx(inner), size.width, AlignedAt(size.width))
           down == Origin(spot[2], inner.minY, Dy(inner), size.height, GridUnits * size.height)
<1>1. SUFFICES ASSUME ~Empty(inner)
               PROVE  /\ spot[1] \in 1 .. GridUnits - 1 =>
                           Between(inner.minX, Left(f) + AlignedAt(size.width), inner.maxX)
                      /\ spot[2] \in 1 .. GridUnits - 1 =>
                           Between(inner.minY, Top(f) + GridUnits * size.height, inner.maxY)
                      /\ (/\ spot[1] \in {0, GridUnits} /\ spot[2] \in {0, GridUnits}
                          /\ size.width <= Dx(inner) /\ size.height <= Dy(inner)) =>
                           /\ Between(inner.minX, Left(f), inner.maxX)
                           /\ Between(inner.minX, Right(f), inner.maxX)
                           /\ Between(inner.minY, Top(f), inner.maxY)
                           /\ Between(inner.minY, Bottom(f), inner.maxY)
  BY DEF KeepsMargin
<1>2. area \in Rectangles /\ outer \in Rectangles
  BY OuterIsRectangle DEF Area
<1>3. /\ spot[1] \in 0 .. GridUnits /\ spot[2] \in 0 .. GridUnits
      /\ size.width \in Nat \ {0} /\ size.height \in Nat \ {0}
  BY DEF Spots, Percentages, Sizes
<1>4. /\ inner.minX \in Int /\ inner.minY \in Int /\ inner.maxX \in Int /\ inner.maxY \in Int
      /\ Dx(inner) \in Nat /\ Dy(inner) \in Nat
      /\ inner.maxX = inner.minX + Dx(inner) /\ inner.maxY = inner.minY + Dy(inner)
  <2>1. inner \in Rectangles
    BY <1>2, InnerFields
  <2> HIDE DEF inner
  <2> QED BY <1>1, <2>1 DEF Rectangles, Dx, Dy, Empty
<1>5. f = [x |-> across, y |-> Fine * (ScreenHeight - size.height) - down,
           width |-> size.width, height |-> size.height]
  <2>1. Effective(area, outer) = [x |-> inner.minX, y |-> inner.minY,
                                  width |-> Dx(inner), height |-> Dy(inner)]
    BY <1>1, <1>2, EffectiveIsInner
  <2> QED BY <2>1 DEF SpotFrame
<1>6. AlignedAt(size.width) \in Int /\ GridUnits * size.height \in Int
  BY <1>3, AlignedType, GridAssumption
<1>7. across \in Int /\ down \in Int
  <2>1. ASSUME NEW p \in 0 .. GridUnits, NEW from \in Int, NEW length \in Nat,
               NEW extent \in Nat, NEW held \in Int
        PROVE  Origin(p, from, length, extent, held) \in Int
    <3>1. /\ Fine * from \in Int /\ Fine * (from + length - extent) \in Int
          /\ 2 * p * length \in Int
      BY FineType
    <3> QED BY <3>1 DEF Origin
  <2> QED BY <1>3, <1>4, <1>6, <2>1
<1> HIDE DEF area, outer, inner, across, down
<1>8. Left(f) = across /\ Right(f) = across + Fine * size.width
  BY <1>5 DEF Left, Right
<1>9. Top(f) = down /\ Bottom(f) = down + Fine * size.height
  <2>1. /\ Fine * (ScreenHeight - size.height) \in Int /\ Fine * size.height \in Int
        /\ Fine * ScreenHeight = Fine * (ScreenHeight - size.height) + Fine * size.height
    BY <1>3, FineType, CaptureAreaAssumption
  <2> HIDE DEF f
  <2> QED BY <1>5, <1>7, <2>1 DEF Top, Bottom
<1> HIDE DEF f
<1>10. ASSUME spot[1] \in 1 .. GridUnits - 1
       PROVE  Between(inner.minX, Left(f) + AlignedAt(size.width), inner.maxX)
  <2>1. Between(inner.minX, across + AlignedAt(size.width), inner.minX + Dx(inner))
    BY <1>3, <1>4, <1>6, <1>10, SpotOnLine DEF across
  <2> QED BY <1>4, <1>8, <2>1
<1>11. ASSUME spot[2] \in 1 .. GridUnits - 1
       PROVE  Between(inner.minY, Top(f) + GridUnits * size.height, inner.maxY)
  <2>1. Between(inner.minY, down + GridUnits * size.height, inner.minY + Dy(inner))
    BY <1>3, <1>4, <1>6, <1>11, SpotOnLine DEF down
  <2> QED BY <1>4, <1>9, <2>1
<1>12. ASSUME spot[1] \in {0, GridUnits}, size.width <= Dx(inner)
       PROVE  /\ Between(inner.minX, Left(f), inner.maxX)
              /\ Between(inner.minX, Right(f), inner.maxX)
  <2>1. /\ Between(inner.minX, across, inner.minX + Dx(inner))
        /\ Between(inner.minX, across + Fine * size.width, inner.minX + Dx(inner))
    BY <1>3, <1>4, <1>6, <1>12, PinnedOnLine DEF across
  <2> QED BY <1>4, <1>8, <2>1
<1>13. ASSUME spot[2] \in {0, GridUnits}, size.height <= Dy(inner)
       PROVE  /\ Between(inner.minY, Top(f), inner.maxY)
              /\ Between(inner.minY, Bottom(f), inner.maxY)
  <2>1. /\ Between(inner.minY, down, inner.minY + Dy(inner))
        /\ Between(inner.minY, down + Fine * size.height, inner.minY + Dy(inner))
    BY <1>3, <1>4, <1>6, <1>13, PinnedOnLine DEF down
  <2> QED BY <1>4, <1>9, <2>1
<1> QED BY <1>10, <1>11, <1>12, <1>13
=============================================================================

------------------------------ MODULE GridSpot ------------------------------
(***************************************************************************)
(* Where the overlay is put: gridSpotFrame of bridges/appkit/window.go and *)
(* the grid's positions, which are percentages, as operators.              *)
(*                                                                         *)
(* A percentage is a whole number of GridUnits-ths, of which a press of an *)
(* arrow key adds or subtracts some.  Rectangles are in pixels from the    *)
(* screen's upper left corner, as in CaptureArea.  Frames are measured     *)
(* from its lower left corner, as Cocoa does, in parts of a pixel: Fine of *)
(* them make one, so that halves and percentages of pixels are whole.      *)
(***************************************************************************)
EXTENDS CaptureArea

CONSTANTS gMargin,    \* clearance from the edges that the overlay is to keep
          GridUnits,  \* what makes 100 %
          gAlignment  \* TELEPROMPTER_ALIGNMENT

ASSUME GridAssumption ==
  /\ gMargin \in Nat /\ GridUnits \in Nat \ {0}
  /\ gAlignment \in {"left", "center", "right", "dynamic"}

Percentages == 0 .. GridUnits
Spots == Percentages \X Percentages \* (column, row)
Sizes == [width : Nat \ {0}, height : Nat \ {0}]
Fine  == 2 * GridUnits

\* int() of a float64 drops the fraction.
WholePart(v) == IF v >= 0 THEN v \div GridUnits ELSE -((-v) \div GridUnits)

\* Slip: a negative rest is not turned round.
WrapPercentSlip(v) == v - WholePart(v) * GridUnits

WrapPercent(v) ==
  LET rest == v - WholePart(v) * GridUnits
  IN  IF rest < 0 THEN rest + GridUnits ELSE rest

\* The grid covers the browser's canvas, or the window if there is none.
Area(window, canvas) == IF canvas # Nil THEN canvas ELSE window

\* What the area has to keep clear of.
Outer(window, canvas) == IF canvas # Nil /\ window # Nil THEN window ELSE Screen

Inset(clearance) == Greater(0, gMargin - clearance)

\* Slip: the right and the lower edge keep no margin.
EffectiveSlip(area, outer) ==
  LET left == Inset(area.minX - outer.minX)
      top  == Inset(area.minY - outer.minY)
  IN  [x |-> area.minX + left, y |-> area.minY + top,
       width |-> Greater(1, Dx(area) - left), height |-> Greater(1, Dy(area) - top)]

\* The area less, at each side, what it lacks to keep clear of the outer edge.
Effective(area, outer) ==
  LET left   == Inset(area.minX - outer.minX)
      top    == Inset(area.minY - outer.minY)
      right  == Inset(outer.maxX - area.maxX)
      bottom == Inset(outer.maxY - area.maxY)
  IN  [x |-> area.minX + left, y |-> area.minY + top,
       width  |-> Greater(1, Dx(area) - left - right),
       height |-> Greater(1, Dy(area) - top - bottom)]

\* How far to the right of a frame's left edge is the point that is put on the spot?
AlignedAt(width) == CASE gAlignment = "left"  -> 0
                      [] gAlignment = "right" -> Fine * width
                      [] OTHER                -> GridUnits * width

\* Where a stretch of `size` pixels begins on a line from `from` of `length` pixels:
\* pinned at the ends, with its point `held` on the spot in between.
Origin(percentage, from, length, size, held) ==
  IF percentage = 0 THEN Fine * from
  ELSE IF percentage = GridUnits THEN Fine * (from + length - size)
  ELSE Fine * from + 2 * percentage * length - held

\* gridSpotFrame; nil stands for NSZeroRect.
SpotFrame(window, canvas, spot, size) ==
  LET e    == Effective(Area(window, canvas), Outer(window, canvas))
      down == Origin(spot[2], e.y, e.height, size.height, GridUnits * size.height)
  IN  IF Area(window, canvas) = Nil THEN Nil
      ELSE [x |-> Origin(spot[1], e.x, e.width, size.width, AlignedAt(size.width)),
            y |-> Fine * (ScreenHeight - size.height) - down,
            width |-> size.width, height |-> size.height]

\* _applyText's place for a text when no window is known: at the edge of the screen.
EdgeFrame(size) ==
  [x |-> CASE gAlignment = "left"  -> Fine * gMargin
           [] gAlignment = "right" -> Fine * (ScreenWidth - size.width - gMargin)
           [] OTHER                -> GridUnits * (ScreenWidth - size.width),
   y |-> Fine * gMargin, width |-> size.width, height |-> size.height]

(***************************************************************************)
(* What it should be                                                       *)
(***************************************************************************)
\* The part of the area that keeps the margin.
Inner(area, outer) ==
  Intersect(area, [minX |-> outer.minX + gMargin, minY |-> outer.minY + gMargin,
                   maxX |-> outer.maxX - gMargin, maxY |-> outer.maxY - gMargin])

\* Fine coordinates of a frame, from the upper left corner.
Left(f)   == f.x
Right(f)  == f.x + Fine * f.width
Top(f)    == Fine * (ScreenHeight - f.height) - f.y
Bottom(f) == Fine * ScreenHeight - f.y

Between(low, v, high) == Fine * low <= v /\ v <= Fine * high

\* If a part of the area keeps the margin, the point of the frame that is put on the
\* spot is in this part, and of a frame that is pinned to a corner and fits all is.
KeepsMargin(window, canvas, spot, size) ==
  LET inner == Inner(Area(window, canvas), Outer(window, canvas))
      f     == SpotFrame(window, canvas, spot, size)
      fits  == size.width <= Dx(inner) /\ size.height <= Dy(inner)
  IN  ~Empty(inner) =>
        /\ spot[1] \in 1 .. GridUnits - 1 =>
             Between(inner.minX, Left(f) + AlignedAt(size.width), inner.maxX)
        /\ spot[2] \in 1 .. GridUnits - 1 =>
             Between(inner.minY, Top(f) + GridUnits * size.height, inner.maxY)
        /\ spot[1] \in {0, GridUnits} /\ spot[2] \in {0, GridUnits} /\ fits =>
             /\ Between(inner.minX, Left(f), inner.maxX) /\ Between(inner.minX, Right(f), inner.maxX)
             /\ Between(inner.minY, Top(f), inner.maxY) /\ Between(inner.minY, Bottom(f), inner.maxY)
=============================================================================

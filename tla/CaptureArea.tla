---------------------------- MODULE CaptureArea ----------------------------
(***************************************************************************)
(* What a capture takes of the screen and what part of the picture the     *)
(* OCR is given: the geometry of modules/capturer/capturer.go,             *)
(* bridges/browser/browser.go and pipeline/process.go as operators.        *)
(*                                                                         *)
(* Lengths are logical pixels; a picture has Scale physical pixels for     *)
(* each (2 on a Retina display).                                           *)
(***************************************************************************)
EXTENDS Integers

CONSTANTS ScreenWidth, ScreenHeight, Scale,
          Toolbar,  \* application -> height of its toolbar, 0 if it is no known browser
          Nil       \* the nil rectangle

ASSUME CaptureAreaAssumption == {ScreenWidth, ScreenHeight, Scale} \subseteq Nat \ {0}
ASSUME ToolbarAssumption == Toolbar \in [DOMAIN Toolbar -> Nat]

Rectangles == [minX : Int, minY : Int, maxX : Int, maxY : Int]
ASSUME NilAssumption == Nil \notin Rectangles

Windows == [app : DOMAIN Toolbar, x : Int, y : Int, width : Nat \ {0}, height : Nat \ {0}]

Lesser(a, b)  == IF a < b THEN a ELSE b
Greater(a, b) == IF a > b THEN a ELSE b

\* image.Rect swaps coordinates that are the wrong way round.
Rect(x0, y0, x1, y1) == [minX |-> Lesser(x0, x1), minY |-> Lesser(y0, y1),
                         maxX |-> Greater(x0, x1), maxY |-> Greater(y0, y1)]
Empty(r)  == r.minX >= r.maxX \/ r.minY >= r.maxY
Dx(r) == r.maxX - r.minX
Dy(r) == r.maxY - r.minY
Intersect(r, s) == [minX |-> Greater(r.minX, s.minX), minY |-> Greater(r.minY, s.minY),
                    maxX |-> Lesser(r.maxX, s.maxX), maxY |-> Lesser(r.maxY, s.maxY)]

Screen == Rect(0, 0, ScreenWidth, ScreenHeight)
WindowRect(w) == Rect(w.x, w.y, w.x + w.width, w.y + w.height)

\* The content of a browser's window, without the toolbar; nil for other windows and
\* for those that are no higher than the toolbar.
CanvasBounds(w) ==
  IF Toolbar[w.app] = 0 \/ w.height <= Toolbar[w.app] THEN Nil
  ELSE Rect(w.x, w.y + Toolbar[w.app], w.x + w.width, w.y + w.height)

Fullscreen(w) == w.width >= ScreenWidth /\ w.height >= ScreenHeight

\* The user's bounds, or the screen for a fullscreen window, or the window.
Requested(w, bounds) ==
  IF bounds # Nil THEN bounds ELSE IF Fullscreen(w) THEN Screen ELSE WindowRect(w)

\* Slip: the left and upper edges are not clamped.
ClampedSlip(r) == [r EXCEPT !.maxX = Lesser(@, ScreenWidth), !.maxY = Lesser(@, ScreenHeight)]

Clamped(r) == [minX |-> IF r.minX < 0 THEN 0 ELSE r.minX,
               minY |-> IF r.minY < 0 THEN 0 ELSE r.minY,
               maxX |-> IF r.maxX > ScreenWidth THEN ScreenWidth ELSE r.maxX,
               maxY |-> IF r.maxY > ScreenHeight THEN ScreenHeight ELSE r.maxY]

\* computeCaptureRect: nil stands for ErrCapturerInvalidCaptureRect.
ComputeCaptureRect(w, bounds) ==
  LET rect == Requested(w, bounds)
  IN  IF Empty(rect) \/ Empty(Clamped(rect)) THEN Nil ELSE Clamped(rect)

\* The size of the picture that CoreGraphics returns for a part of the screen.
Picture(area) == Rect(0, 0, Dx(area) * Scale, Dy(area) * Scale)

\* Slip: the position of the window is not subtracted.
CropRectSlip(picture, w, canvas) ==
  Intersect(picture, Rect((canvas.minX * Dx(picture)) \div w.width,
                          (canvas.minY * Dy(picture)) \div w.height,
                          (canvas.maxX * Dx(picture)) \div w.width,
                          (canvas.maxY * Dy(picture)) \div w.height))

\* cropToCanvas's rectangle: the canvas relative to the window, scaled by what the
\* picture is to the window.
CropRect(picture, w, canvas) ==
  Intersect(picture, Rect(((canvas.minX - w.x) * Dx(picture)) \div w.width,
                          ((canvas.minY - w.y) * Dy(picture)) \div w.height,
                          ((canvas.maxX - w.x) * Dx(picture)) \div w.width,
                          ((canvas.maxY - w.y) * Dy(picture)) \div w.height))

\* The part of the picture of `area` that captureScreenshot returns.
Screenshot(area, w, bounds) ==
  LET canvas == CanvasBounds(w)
      crop   == CropRect(Picture(area), w, canvas)
  IN  IF bounds # Nil \/ canvas = Nil THEN Picture(area)
      ELSE IF Empty(crop) THEN Picture(area) ELSE crop

(***************************************************************************)
(* What it should be                                                       *)
(***************************************************************************)
Covers(r, x, y) == r # Nil /\ r.minX <= x /\ x < r.maxX /\ r.minY <= y /\ y < r.maxY
Inside(r, s) == s.minX <= r.minX /\ r.maxX <= s.maxX /\ s.minY <= r.minY /\ r.maxY <= s.maxY

\* The part of the screen that part `r` of the picture of `area` shows is `s`.
Shows(r, area, s) ==
  /\ r.minX = (s.minX - area.minX) * Scale /\ r.maxX = (s.maxX - area.minX) * Scale
  /\ r.minY = (s.minY - area.minY) * Scale /\ r.maxY = (s.maxY - area.minY) * Scale

\* A pixel is captured if and only if it is on the screen and asked for, and the
\* capture is an error only when no pixel is both.
TakesVisiblePart(w, bounds, x, y) ==
  Covers(ComputeCaptureRect(w, bounds), x, y)
    <=> Covers(Requested(w, bounds), x, y) /\ Covers(Screen, x, y)

\* The OCR gets a part of the picture that is not empty and, of a browser's window
\* that is on the screen, the canvas to the pixel.
ReadsCanvas(w, bounds) ==
  LET area == ComputeCaptureRect(w, bounds)
      shot == Screenshot(area, w, bounds)
  IN  area # Nil =>
        /\ ~Empty(shot) /\ Inside(shot, Picture(area))
        /\ bounds = Nil /\ CanvasBounds(w) # Nil /\ Inside(WindowRect(w), Screen) =>
             Shows(shot, area, CanvasBounds(w))
=============================================================================

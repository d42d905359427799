---------------------------- MODULE HotkeyProofs ----------------------------
(***************************************************************************)
(* Theorems about HotkeyListener and CaptureArea, checked by TLAPS.  Those *)
(* about the keys are for hotkeys of the default kinds: with others the    *)
(* callback asks for the wrong modifiers (see hotkeys_configured.cfg).     *)
(***************************************************************************)
EXTENDS HotkeyListener, TLAPS

\* Option, shift and command, on either side of the keyboard.
DefaultKinds ==
  Kind[BoundsKey] = "option" /\ Kind[TriggerKey] = "shift" /\ Kind[ToggleKey] = "command"

(***************************************************************************)
(* The area of a capture                                                   *)
(***************************************************************************)
LEMMA ScreenType == Screen \in Rectangles /\ Screen.minX = 0 /\ Screen.minY = 0
                    /\ Screen.maxX = ScreenWidth /\ Screen.maxY = ScreenHeight
BY CaptureAreaAssumption DEF Screen, Rect, Rectangles, Lesser, Greater

LEMMA WindowRectType ==
  ASSUME NEW w \in Windows
  PROVE  /\ WindowRect(w) \in Rectangles
         /\ WindowRect(w).minX = w.x /\ WindowRect(w).minY = w.y
         /\ WindowRect(w).maxX = w.x + w.width /\ WindowRect(w).maxY = w.y + w.height
BY DEF WindowRect, Windows, Rect, Rectangles, Lesser, Greater

LEMMA RectType ==
  ASSUME NEW a \in Int, NEW b \in Int, NEW c \in Int, NEW d \in Int
  PROVE  Rect(a, b, c, d) \in Rectangles
BY DEF Rect, Rectangles, Lesser, Greater

LEMMA RequestedType ==
  ASSUME NEW w \in Windows, NEW bounds \in Rectangles \union {Nil}
  PROVE  Requested(w, bounds) \in Rectangles
BY ScreenType, WindowRectType DEF Requested

\* A capture takes exactly the part of what the user asked for that is on the screen,
\* for every window, every bounds and every size of the screen (computeCaptureRect).
THEOREM CaptureIsVisiblePart ==
  ASSUME NEW w \in Windows, NEW bounds \in Rectangles \union {Nil}, NEW x \in Int, NEW y \in Int
  PROVE  TakesVisiblePart(w, bounds, x, y)
<1> DEFINE r == Requested(w, bounds)
<1>1. r \in Rectangles
  BY RequestedType
<1>2. r # Nil /\ Screen # Nil /\ Clamped(r) # Nil /\ Clamped(r) \in Rectangles
  BY <1>1, ScreenType, NilAssumption, CaptureAreaAssumption DEF Clamped, Rectangles
<1> HIDE DEF r
<1>3. ASSUME NEW s \in Rectangles
      PROVE  /\ s.minX \in Int /\ s.minY \in Int /\ s.maxX \in Int /\ s.maxY \in Int
             /\ Clamped(s).minX = (IF s.minX < 0 THEN 0 ELSE s.minX)
             /\ Clamped(s).minY = (IF s.minY < 0 THEN 0 ELSE s.minY)
             /\ Clamped(s).maxX = (IF s.maxX > ScreenWidth THEN ScreenWidth ELSE s.maxX)
             /\ Clamped(s).maxY = (IF s.maxY > ScreenHeight THEN ScreenHeight ELSE s.maxY)
  BY DEF Rectangles, Clamped
<1>4. (~Empty(r) /\ ~Empty(Clamped(r)) /\ Covers(Clamped(r), x, y))
        <=> Covers(r, x, y) /\ Covers(Screen, x, y)
  BY <1>1, <1>2, <1>3, ScreenType, CaptureAreaAssumption DEF Covers, Empty
<1>5. Covers(ComputeCaptureRect(w, bounds), x, y)
        <=> ~Empty(r) /\ ~Empty(Clamped(r)) /\ Covers(Clamped(r), x, y)
  BY <1>2 DEF ComputeCaptureRect, Covers, r
<1> QED BY <1>4, <1>5 DEF TakesVisiblePart, r

(***************************************************************************)
(* The part of the picture that the OCR reads                              *)
(***************************************************************************)
LEMMA ScaledExactly ==
  ASSUME NEW a \in Nat, NEW n \in Nat \ {0}, NEW s \in Nat \ {0}
  PROVE  (a * (n * s)) \div n = a * s
<1>1. a * (n * s) = n * (a * s)
  OBVIOUS
<1>2. a * s \in Nat
  OBVIOUS
<1>3. \A m \in Nat : (n * m) \div n = m
  OBVIOUS
<1> QED BY <1>1, <1>2, <1>3

LEMMA PictureSize ==
  ASSUME NEW area \in Rectangles, ~Empty(area)
  PROVE  /\ Picture(area) \in Rectangles /\ ~Empty(Picture(area))
         /\ Picture(area).minX = 0 /\ Picture(area).minY = 0
         /\ Picture(area).maxX = Dx(area) * Scale /\ Picture(area).maxY = Dy(area) * Scale
<1>1. Dx(area) \in Nat \ {0} /\ Dy(area) \in Nat \ {0}
  BY DEF Dx, Dy, Empty, Rectangles
<1>2. \A n, s \in Nat \ {0} : n * s \in Nat \ {0}
  OBVIOUS
<1>3. Dx(area) * Scale \in Nat \ {0} /\ Dy(area) * Scale \in Nat \ {0}
  BY <1>1, <1>2, CaptureAreaAssumption
<1> HIDE DEF Dx, Dy
<1> QED BY <1>3 DEF Picture, Rect, Rectangles, Empty, Lesser, Greater

LEMMA IntersectInside ==
  ASSUME NEW r \in Rectangles, NEW a \in Int, NEW b \in Int, NEW c \in Int, NEW d \in Int
  PROVE  Inside(Intersect(r, Rect(a, b, c, d)), r)
<1>1. Rect(a, b, c, d) \in Rectangles
  BY RectType
<1>2. ASSUME NEW t \in Rectangles PROVE Inside(Intersect(r, t), r)
  BY DEF Inside, Intersect, Rectangles, Lesser, Greater
<1> QED BY <1>1, <1>2

\* A window on the screen is captured whole.
LEMMA WindowTaken ==
  ASSUME NEW w \in Windows, Inside(WindowRect(w), Screen)
  PROVE  ComputeCaptureRect(w, Nil) = WindowRect(w) /\ ~Empty(WindowRect(w))
<1> DEFINE r == WindowRect(w)
<1>1. w.x \in Int /\ w.y \in Int /\ w.width \in Nat \ {0} /\ w.height \in Nat \ {0}
  BY DEF Windows
<1>2. 0 <= r.minX /\ r.maxX <= ScreenWidth /\ 0 <= r.minY /\ r.maxY <= ScreenHeight
  BY ScreenType DEF Inside
<1>3. r = [minX |-> w.x, minY |-> w.y, maxX |-> w.x + w.width, maxY |-> w.y + w.height]
  BY <1>1 DEF WindowRect, Rect, Lesser, Greater
<1>4. Screen = [minX |-> 0, minY |-> 0, maxX |-> ScreenWidth, maxY |-> ScreenHeight]
  BY CaptureAreaAssumption DEF Screen, Rect, Lesser, Greater
<1>5. Requested(w, Nil) = r
  BY <1>1, <1>2, <1>3, <1>4, CaptureAreaAssumption DEF Requested, Fullscreen
<1>6. Clamped(r) = r /\ ~Empty(r)
  BY <1>1, <1>2, <1>3, CaptureAreaAssumption DEF Clamped, Empty
<1> QED BY <1>5, <1>6 DEF ComputeCaptureRect

LEMMA CropRectType ==
  ASSUME NEW w \in Windows, NEW picture \in Rectangles, NEW canvas \in Rectangles
  PROVE  Inside(CropRect(picture, w, canvas), picture)
<1>1. w.x \in Int /\ w.y \in Int /\ w.width \in Nat \ {0} /\ w.height \in Nat \ {0}
  BY DEF Windows
<1>2. \A m \in Int, n \in Nat \ {0} : m \div n \in Int
  OBVIOUS
<1>3. \A m, n \in Int : m * n \in Int /\ m - n \in Int
  OBVIOUS
<1>4. /\ canvas.minX \in Int /\ canvas.minY \in Int /\ canvas.maxX \in Int /\ canvas.maxY \in Int
      /\ Dx(picture) \in Int /\ Dy(picture) \in Int
  BY DEF Dx, Dy, Rectangles
<1> HIDE DEF Dx, Dy
<1>5. ASSUME NEW c \in Int PROVE /\ ((c - w.x) * Dx(picture)) \div w.width \in Int
                                 /\ ((c - w.y) * Dy(picture)) \div w.height \in Int
  BY <1>1, <1>2, <1>3, <1>4
<1> QED BY <1>4, <1>5, IntersectInside DEF CropRect

LEMMA CanvasType ==
  ASSUME NEW w \in Windows, CanvasBounds(w) # Nil
  PROVE  /\ CanvasBounds(w) \in Rectangles
         /\ CanvasBounds(w).minX = w.x /\ CanvasBounds(w).maxX = w.x + w.width
         /\ w.y <= CanvasBounds(w).minY /\ CanvasBounds(w).minY < w.y + w.height
         /\ CanvasBounds(w).maxY = w.y + w.height
<1>1. w.x \in Int /\ w.y \in Int /\ w.width \in Nat \ {0} /\ w.height \in Nat \ {0}
  BY DEF Windows
<1>2. Toolbar[w.app] \in Nat /\ w.height > Toolbar[w.app]
  BY <1>1, ToolbarAssumption DEF CanvasBounds, Windows
<1> QED BY <1>1, <1>2 DEF CanvasBounds, Rect, Rectangles, Lesser, Greater

\* The crop of a browser's window on the screen is its canvas, at the picture's scale.
LEMMA CropIsCanvas ==
  ASSUME NEW w \in Windows, CanvasBounds(w) # Nil, ~Empty(WindowRect(w))
  PROVE  LET crop == CropRect(Picture(WindowRect(w)), w, CanvasBounds(w))
         IN  ~Empty(crop) /\ Shows(crop, WindowRect(w), CanvasBounds(w))
<1> DEFINE picture == Picture(WindowRect(w))
           canvas == CanvasBounds(w)
           top == canvas.minY - w.y
<1>1. /\ w.x \in Int /\ w.y \in Int /\ w.width \in Nat \ {0} /\ w.height \in Nat \ {0}
      /\ Scale \in Nat \ {0}
  BY CaptureAreaAssumption DEF Windows
<1>2. /\ canvas.minX - w.x = 0 /\ canvas.maxX - w.x = w.width
      /\ top \in Nat /\ top < w.height /\ canvas.maxY - w.y = w.height
  BY <1>1, CanvasType DEF Rectangles
<1>3. /\ picture.minX = 0 /\ picture.minY = 0
      /\ picture.maxX = w.width * Scale /\ picture.maxY = w.height * Scale
      /\ Dx(picture) = w.width * Scale /\ Dy(picture) = w.height * Scale
  <2>1. Dx(WindowRect(w)) = w.width /\ Dy(WindowRect(w)) = w.height
    BY <1>1, WindowRectType DEF Dx, Dy
  <2>2. /\ picture.minX = 0 /\ picture.minY = 0
        /\ picture.maxX = w.width * Scale /\ picture.maxY = w.height * Scale
    BY <2>1, WindowRectType, PictureSize
  <2>3. w.width * Scale \in Int /\ w.height * Scale \in Int
    BY <1>1
  <2> QED BY <2>2, <2>3 DEF Dx, Dy
<1>4. \A n \in Nat \ {0} : (0 * (n * Scale)) \div n = 0 /\ (n * (n * Scale)) \div n = n * Scale
  BY <1>1, ScaledExactly
<1>5. (top * (w.height * Scale)) \div w.height = top * Scale
  BY <1>1, <1>2, ScaledExactly
<1>6. /\ w.width * Scale \in Nat \ {0} /\ top * Scale \in Nat
      /\ w.height * Scale \in Nat /\ top * Scale < w.height * Scale
  <2>1. \A m \in Nat, n, s \in Nat \ {0} : m * s \in Nat /\ n * s \in Nat \ {0}
    OBVIOUS
  <2>2. \A m \in Nat, n, s \in Nat \ {0} : m < n => m * s < n * s
    OBVIOUS
  <2> QED BY <1>1, <1>2, <2>1, <2>2
<1>7. CropRect(picture, w, canvas) = Intersect(picture, Rect(0, top * Scale, w.width * Scale, w.height * Scale))
  BY <1>1, <1>2, <1>3, <1>4, <1>5 DEF CropRect
<1>8. CropRect(picture, w, canvas)
        = [minX |-> 0, minY |-> top * Scale, maxX |-> w.width * Scale, maxY |-> w.height * Scale]
  BY <1>3, <1>6, <1>7 DEF Rect, Intersect, Lesser, Greater
<1>9. ~Empty(CropRect(picture, w, canvas))
  BY <1>6, <1>8 DEF Empty
<1>10. Shows(CropRect(picture, w, canvas), WindowRect(w), canvas)
  BY <1>1, <1>2, <1>8, WindowRectType DEF Shows
<1> QED BY <1>9, <1>10

\* The OCR is given a part of the picture that is not empty and, of a browser's window
\* on the screen, exactly the canvas, for every window, toolbar and scale (cropToCanvas).
THEOREM OCRIsGivenCanvas ==
  ASSUME NEW w \in Windows, NEW bounds \in Rectangles \union {Nil}
  PROVE  ReadsCanvas(w, bounds)
<1> DEFINE area == ComputeCaptureRect(w, bounds)
           shot == Screenshot(area, w, bounds)
<1> SUFFICES ASSUME area # Nil
             PROVE  /\ ~Empty(shot) /\ Inside(shot, Picture(area))
                    /\ bounds = Nil /\ CanvasBounds(w) # Nil /\ Inside(WindowRect(w), Screen) =>
                         Shows(shot, area, CanvasBounds(w))
  BY DEF ReadsCanvas
<1>1. area \in Rectangles /\ ~Empty(area)
  BY RequestedType, CaptureAreaAssumption DEF ComputeCaptureRect, Clamped, Rectangles
<1>2. Picture(area) \in Rectangles /\ ~Empty(Picture(area))
  BY <1>1, PictureSize
<1>3. Inside(Picture(area), Picture(area))
  BY <1>2 DEF Inside, Rectangles
<1>4. CanvasBounds(w) # Nil => Inside(CropRect(Picture(area), w, CanvasBounds(w)), Picture(area))
  BY <1>2, CanvasType, CropRectType
<1>5. ~Empty(shot) /\ Inside(shot, Picture(area))
  BY <1>2, <1>3, <1>4 DEF Screenshot
<1>6. ASSUME bounds = Nil, CanvasBounds(w) # Nil, Inside(WindowRect(w), Screen)
      PROVE  Shows(shot, area, CanvasBounds(w))
  <2>1. area = WindowRect(w) /\ ~Empty(WindowRect(w))
    BY <1>6, WindowTaken
  <2>2. shot = CropRect(Picture(area), w, CanvasBounds(w))
    BY <1>6, <2>1, CropIsCanvas DEF Screenshot
  <2> QED BY <1>6, <2>1, <2>2, CropIsCanvas
<1> QED BY <1>5, <1>6

(***************************************************************************)
(* Rectangles and trails                                                   *)
(***************************************************************************)
LEMMA TruncatedType == \A a \in Int : Truncated(a) \in Int
BY DEF Truncated

LEMMA TruncatedMonotone ==
  ASSUME NEW a \in Int, NEW b \in Int, a <= b
  PROVE  Truncated(a) <= Truncated(b)
BY DEF Truncated

LEMMA RecordedType == \A b \in Rectangles : Recorded(b) \in Rectangles
<1> TAKE b \in Rectangles
<1>1. b.minX \in Int /\ b.minY \in Int /\ b.maxX \in Int /\ b.maxY \in Int
  BY DEF Rectangles
<1> QED BY <1>1, TruncatedType, RectType DEF Recorded

\* A box around a trail, without its fractions, is the bounds of the trail.
LEMMA RecordedBounds ==
  ASSUME NEW b \in Rectangles, NEW S \in SUBSET Points, Encloses(b, S)
  PROVE  Bounds(Recorded(b), S)
<1>1. b.minX \in Int /\ b.minY \in Int /\ b.maxX \in Int /\ b.maxY \in Int
  BY DEF Rectangles
<1>2. \A p \in S : p.x \in Int /\ p.y \in Int
  BY KeysAssumption
<1>3. \A p \in S : b.minX <= p.x /\ p.x <= b.maxX /\ b.minY <= p.y /\ p.y <= b.maxY
  BY DEF Encloses
<1>4. /\ \E p \in S : b.minX = p.x
      /\ \E p \in S : b.maxX = p.x
      /\ \E p \in S : b.minY = p.y
      /\ \E p \in S : b.maxY = p.y
  BY DEF Encloses
<1>5. b.minX <= b.maxX /\ b.minY <= b.maxY
  BY <1>1, <1>2, <1>3, <1>4
<1>6. Truncated(b.minX) <= Truncated(b.maxX) /\ Truncated(b.minY) <= Truncated(b.maxY)
  BY <1>1, <1>5, TruncatedMonotone
<1>7. /\ Truncated(b.minX) \in Int /\ Truncated(b.maxX) \in Int
      /\ Truncated(b.minY) \in Int /\ Truncated(b.maxY) \in Int
  BY <1>1, TruncatedType
<1>8. /\ Recorded(b).minX = Truncated(b.minX) /\ Recorded(b).maxX = Truncated(b.maxX)
      /\ Recorded(b).minY = Truncated(b.minY) /\ Recorded(b).maxY = Truncated(b.maxY)
  BY <1>6, <1>7 DEF Recorded, Rect, Lesser, Greater
<1>9. \A p \in S : /\ Truncated(b.minX) <= Truncated(p.x) /\ Truncated(p.x) <= Truncated(b.maxX)
                   /\ Truncated(b.minY) <= Truncated(p.y) /\ Truncated(p.y) <= Truncated(b.maxY)
  BY <1>1, <1>2, <1>3, TruncatedMonotone
<1> QED BY <1>4, <1>8, <1>9 DEF Bounds

LEMMA ExtendedEncloses ==
  ASSUME NEW b \in Rectangles, NEW S \in SUBSET Points, NEW p \in Points, Encloses(b, S)
  PROVE  Extended(b, p) \in Rectangles /\ Encloses(Extended(b, p), S \union {p})
<1>1. b.minX \in Int /\ b.minY \in Int /\ b.maxX \in Int /\ b.maxY \in Int
  BY DEF Rectangles
<1>2. \A q \in S \union {p} : q.x \in Int /\ q.y \in Int
  BY KeysAssumption
<1>3. /\ Extended(b, p).minX = (IF b.minX < p.x THEN b.minX ELSE p.x)
      /\ Extended(b, p).minY = (IF b.minY < p.y THEN b.minY ELSE p.y)
      /\ Extended(b, p).maxX = (IF b.maxX > p.x THEN b.maxX ELSE p.x)
      /\ Extended(b, p).maxY = (IF b.maxY > p.y THEN b.maxY ELSE p.y)
  BY DEF Extended, Lesser, Greater
<1>4. Extended(b, p) \in Rectangles
  BY <1>1, <1>2, <1>3 DEF Extended, Rectangles, Lesser, Greater
<1>5. Encloses(Extended(b, p), S \union {p})
  BY <1>1, <1>2, <1>3 DEF Encloses
<1> QED BY <1>4, <1>5

LEMMA AtEncloses ==
  ASSUME NEW p \in Points
  PROVE  At(p) \in Rectangles /\ Encloses(At(p), {p})
BY KeysAssumption DEF At, Encloses, Rectangles

(***************************************************************************)
(* The keys                                                                *)
(***************************************************************************)
After(k) == IF k \in down THEN down \ {k} ELSE down \union {k}

\* What the callback is told of a key that changes is right if the key's twin is up,
\* and of a key that is pressed anyhow.
LEMMA FlagIsKey ==
  ASSUME NEW k \in Keys
  PROVE  /\ k \in After(k) <=> k \notin down
         /\ k \in After(k) => IsDown(Kind[k], After(k))
         /\ Seen(k) /\ down \subseteq Keys => (IsDown(Kind[k], After(k)) <=> k \in After(k))
BY DEF After, IsDown, Seen, Twins

LEMMA InitHolds == Init => HotkeyInv
<1> SUFFICES ASSUME Init PROVE HotkeyInv
  OBVIOUS
<1>1. TypeOK
  <2>1. {tap, optionHeld, mouseMoved, controlUsed, commandHeld} \subseteq BOOLEAN
    BY DEF Init
  <2>2. box \in Rectangles
    BY DEF Init, Rectangles
  <2>3. boundsCh \in Seq(Rectangles) /\ Len(boundsCh) <= 1
    BY DEF Init
  <2>4. /\ triggers \in 0 .. Buffer /\ toggles \in 0 .. Buffer
        /\ owed \in [{"trigger", "toggle"} -> Int]
    BY KeysAssumption DEF Init
  <2>5. Len(gridCh) <= 1 /\ Len(opacityCh) <= 1 /\ Len(fontCh) <= 1
    BY DEF Init
  <2>6. /\ user \in Users /\ down \subseteq Keys /\ mouse \in Points /\ captureBounds = Nil
        /\ strayed \subseteq Keys /\ hold = "none" /\ trail \subseteq Points /\ lastTrail \subseteq Points
    BY DEF Init
  <2> QED BY <2>1, <2>2, <2>3, <2>4, <2>5, <2>6 DEF TypeOK
<1>2. OneTokenPerPress
  BY DEF Init, OneTokenPerPress
<1>3. HeldInStep
  BY DEF Init, HeldInStep
<1>4. HoldInStep /\ LatestHoldWins
  BY DEF Init, HoldInStep, LatestHoldWins
<1> QED BY <1>1, <1>2, <1>3, <1>4 DEF HotkeyInv

\* The types after a modifier key changes.
LEMMA KeyKeepsTypes ==
  ASSUME HotkeyInv, NEW k \in Keys, KeyChanges(k)
  PROVE  TypeOK'
<1> USE DEF HotkeyInv
<1>1. user' \in Users /\ down' \subseteq Keys /\ mouse' \in Points /\ tap' \in BOOLEAN
  BY DEF KeyChanges, TypeOK
<1>2. /\ triggers' \in 0 .. Buffer /\ toggles' \in 0 .. Buffer
  BY KeysAssumption DEF KeyChanges, TypeOK, FlagsChanged, ToggleKeyChanged, SendToken, Lesser,
                        tapVars, channels
<1>3. box' \in Rectangles
  BY AtEncloses DEF KeyChanges, TypeOK, FlagsChanged, BoundsKeyChanged, tapVars
<1>4. {optionHeld, mouseMoved, controlUsed, commandHeld}' \subseteq BOOLEAN
  <2>1. IsDown("option", After(k)) \in BOOLEAN /\ IsDown("command", After(k)) \in BOOLEAN
    BY DEF IsDown
  <2> QED BY <2>1 DEF KeyChanges, TypeOK, FlagsChanged, BoundsKeyChanged, ToggleKeyChanged,
                      After, tapVars
<1>5. boundsCh' \in Seq(Rectangles) /\ Len(boundsCh') <= 1
  <2>1. Recorded(box) \in Rectangles
    BY RecordedType DEF TypeOK
  <2>2. boundsCh' = boundsCh \/ boundsCh' = <<Recorded(box)>>
    BY DEF KeyChanges, FlagsChanged, BoundsKeyChanged, Replace, channels
  <2>3. boundsCh \in Seq(Rectangles) /\ Len(boundsCh) <= 1
    BY DEF TypeOK
  <2>4. ASSUME boundsCh' = <<Recorded(box)>>
        PROVE  boundsCh' \in Seq(Rectangles) /\ Len(boundsCh') <= 1
    BY <2>1, <2>4
  <2> QED BY <2>2, <2>3, <2>4
<1>6. Len(gridCh') <= 1 /\ Len(opacityCh') <= 1 /\ Len(fontCh') <= 1
  BY DEF KeyChanges, TypeOK, FlagsChanged, channels
<1>7. captureBounds' = Nil \/ captureBounds' \in Rectangles
  BY DEF KeyChanges, TypeOK
<1>8. strayed' \subseteq Keys
  BY DEF KeyChanges, TypeOK, NotesKey
<1>9. /\ hold' \in {"none", "still", "moved", "steered"}
      /\ trail' \subseteq Points /\ lastTrail' \subseteq Points
  BY DEF KeyChanges, TypeOK, NotesKey, NotesHold
<1>10. owed' \in [{"trigger", "toggle"} -> Int]
  BY DEF KeyChanges, TypeOK, NotesKey, Note
<1> QED BY <1>1, <1>2, <1>3, <1>4, <1>5, <1>6, <1>7, <1>8, <1>9, <1>10 DEF TypeOK

\* The hotkeys are different keys: their kinds are.
LEMMA HotkeysDiffer ==
  ASSUME DefaultKinds
  PROVE  /\ BoundsKey # TriggerKey /\ BoundsKey # ToggleKey /\ TriggerKey # ToggleKey
         /\ BoundsKey \in Keys /\ TriggerKey \in Keys /\ ToggleKey \in Keys
BY KeysAssumption DEF DefaultKinds

\* What a key that is seen to change does to the callback's flags.
LEMMA KeyKeepsHeld ==
  ASSUME DefaultKinds, HotkeyInv, NEW k \in Keys, KeyChanges(k)
  PROVE  HeldInStep'
<1>1. down' = After(k) /\ down \subseteq Keys
  BY DEF KeyChanges, After, HotkeyInv, TypeOK
<1>2. BoundsKey \notin strayed' => (optionHeld' <=> BoundsKey \in down')
  <2>1. CASE k = BoundsKey
    <3> SUFFICES ASSUME BoundsKey \notin strayed' PROVE optionHeld' <=> BoundsKey \in down'
      OBVIOUS
    <3>1. Seen(k)
      BY <2>1 DEF KeyChanges, NotesKey
    <3>2. optionHeld' = IsDown("option", After(k))
      BY <2>1, <3>1 DEF KeyChanges, FlagsChanged, BoundsKeyChanged, Seen, After
    <3>3. IsDown("option", After(k)) <=> k \in After(k)
      BY <2>1, <3>1, <1>1, FlagIsKey DEF DefaultKinds
    <3> QED BY <1>1, <2>1, <3>2, <3>3
  <2>2. CASE k # BoundsKey
    <3>1. optionHeld' = optionHeld
      BY <2>2 DEF KeyChanges, FlagsChanged, tapVars
    <3>2. (BoundsKey \in down') <=> (BoundsKey \in down)
      BY <1>1, <2>2 DEF After
    <3>3. BoundsKey \notin strayed' => BoundsKey \notin strayed
      BY <2>2 DEF KeyChanges, NotesKey
    <3> QED BY <3>1, <3>2, <3>3 DEF HotkeyInv, HeldInStep
  <2> QED BY <2>1, <2>2
<1>3. ToggleKey \notin strayed' => (commandHeld' <=> ToggleKey \in down')
  <2>1. CASE k = ToggleKey
    <3> SUFFICES ASSUME ToggleKey \notin strayed' PROVE commandHeld' <=> ToggleKey \in down'
      OBVIOUS
    <3>1. Seen(k)
      BY <2>1 DEF KeyChanges, NotesKey
    <3>2. commandHeld' = IsDown("command", After(k))
      BY <2>1, <3>1 DEF KeyChanges, FlagsChanged, ToggleKeyChanged, Seen, After
    <3>3. IsDown("command", After(k)) <=> k \in After(k)
      BY <2>1, <3>1, <1>1, FlagIsKey DEF DefaultKinds
    <3> QED BY <1>1, <2>1, <3>2, <3>3
  <2>2. CASE k # ToggleKey
    <3>1. commandHeld' = commandHeld
      BY <2>2 DEF KeyChanges, FlagsChanged, tapVars
    <3>2. (ToggleKey \in down') <=> (ToggleKey \in down)
      BY <1>1, <2>2 DEF After
    <3>3. ToggleKey \notin strayed' => ToggleKey \notin strayed
      BY <2>2 DEF KeyChanges, NotesKey
    <3> QED BY <3>1, <3>2, <3>3 DEF HotkeyInv, HeldInStep
  <2> QED BY <2>1, <2>2
<1> QED BY <1>2, <1>3 DEF HeldInStep

\* A key that is seen sends a token exactly when it is pressed.
LEMMA KeySendsToken ==
  ASSUME DefaultKinds, HotkeyInv, NEW k \in Keys, Seen(k), k \notin strayed
  PROVE  /\ k = TriggerKey => ((tap /\ Fires(k, After(k))) <=> Pressed(k))
         /\ k = ToggleKey => ((tap /\ TogglesNow(k, After(k))) <=> Pressed(k))
<1>1. down \subseteq Keys /\ tap
  BY DEF HotkeyInv, TypeOK, Seen
<1>2. IsDown(Kind[k], After(k)) <=> Pressed(k)
  BY <1>1, FlagIsKey DEF Pressed
<1>3. k = TriggerKey => (Fires(k, After(k)) <=> Pressed(k))
  BY <1>2 DEF Fires, DefaultKinds
<1>4. ASSUME k = ToggleKey PROVE TogglesNow(k, After(k)) <=> Pressed(k)
  <2>1. commandHeld <=> k \in down
    BY <1>4 DEF HotkeyInv, HeldInStep
  <2> QED BY <1>2, <1>4, <2>1 DEF TogglesNow, DefaultKinds, Pressed
<1> QED BY <1>1, <1>3, <1>4

LEMMA KeyKeepsTokens ==
  ASSUME DefaultKinds, HotkeyInv, NEW k \in Keys, KeyChanges(k)
  PROVE  OneTokenPerPress'
<1>1. owed["trigger"] = 0 /\ owed["toggle"] = 0
  BY DEF HotkeyInv, OneTokenPerPress
<1>2. owed' = [trigger |-> Note("trigger", TriggerKey, k, tap /\ Fires(k, After(k))),
               toggle  |-> Note("toggle", ToggleKey, k, tap /\ TogglesNow(k, After(k)))]
  BY DEF KeyChanges, NotesKey, After
<1>3. Note("trigger", TriggerKey, k, tap /\ Fires(k, After(k))) = 0
  BY <1>1, KeySendsToken DEF Note
<1>4. Note("toggle", ToggleKey, k, tap /\ TogglesNow(k, After(k))) = 0
  BY <1>1, KeySendsToken DEF Note
<1> QED BY <1>2, <1>3, <1>4 DEF OneTokenPerPress

\* The callback takes the bounds key for held exactly when its change looks like a press.
LEMMA HeldLooksPressed ==
  ASSUME DefaultKinds, down \subseteq Keys
  PROVE  IsDown("option", After(BoundsKey)) <=> LooksPressed(BoundsKey)
BY KeysAssumption DEF DefaultKinds, IsDown, After, LooksPressed, Pressed, Twins

\* What a change of the bounds key does if the tap sees it.
LEMMA BoundsKeySeen ==
  ASSUME DefaultKinds, HotkeyInv, KeyChanges(BoundsKey), tap
  PROVE  BoundsKeyChanged(LooksPressed(BoundsKey)) /\ NotesHold(BoundsKey)
<1>1. down \subseteq Keys
  BY DEF HotkeyInv, TypeOK
<1>2. BoundsKeyChanged(IsDown("option", After(BoundsKey))) /\ NotesHold(BoundsKey)
  BY DEF KeyChanges, FlagsChanged, NotesKey, After
<1>3. IsDown("option", After(BoundsKey)) = LooksPressed(BoundsKey)
  BY <1>1, HeldLooksPressed DEF IsDown, LooksPressed, Pressed
<1> QED BY <1>2, <1>3

\* What any other key does, or the bounds key if the tap misses it.
LEMMA BoundsKeyMissed ==
  ASSUME NEW k \in Keys, KeyChanges(k), ~(tap /\ k = BoundsKey)
  PROVE  UNCHANGED <<optionHeld, controlUsed, mouseMoved, box, boundsCh, captureBounds,
                     hold, trail, lastTrail>>
BY DEF KeyChanges, FlagsChanged, NotesKey, tapVars, channels

\* The bounds key begins a hold, goes on with it, or ends it.
LEMMA KeyKeepsHold ==
  ASSUME DefaultKinds, HotkeyInv, NEW k \in Keys, KeyChanges(k)
  PROVE  HoldInStep'
<1>1. mouse \in Points /\ hold \in {"none", "still", "moved", "steered"}
  BY DEF HotkeyInv, TypeOK
<1>2. CASE ~(tap /\ k = BoundsKey)
  BY <1>2, BoundsKeyMissed DEF HotkeyInv, HoldInStep, Encloses
<1>3. CASE tap /\ k = BoundsKey
  <2>1. BoundsKeyChanged(LooksPressed(k)) /\ NotesHold(k)
    BY <1>3, BoundsKeySeen
  <2>2. CASE ~LooksPressed(k)
    BY <2>1, <2>2 DEF NotesHold, BoundsKeyChanged, HoldInStep
  <2>3. CASE LooksPressed(k) /\ hold = "none"
    <3>1. ~optionHeld
      BY <2>3 DEF HotkeyInv, HoldInStep
    <3>2. /\ optionHeld' /\ mouseMoved' = FALSE /\ controlUsed' = FALSE
          /\ box' = At(mouse) /\ hold' = "still" /\ trail' = {mouse}
      BY <2>1, <2>3, <3>1 DEF NotesHold, BoundsKeyChanged
    <3> QED BY <1>1, <3>2, AtEncloses DEF HoldInStep, Encloses
  <2>4. CASE LooksPressed(k) /\ hold # "none"
    <3>1. optionHeld
      BY <2>4 DEF HotkeyInv, HoldInStep
    <3>2. optionHeld' /\ UNCHANGED <<mouseMoved, controlUsed, box, hold, trail>>
      BY <2>1, <2>4, <3>1 DEF NotesHold, BoundsKeyChanged
    <3> QED BY <2>4, <3>2 DEF HotkeyInv, HoldInStep, Encloses
  <2> QED BY <2>2, <2>3, <2>4
<1> QED BY <1>2, <1>3

\* What trackBounds has, or is about to get.
InForce == IF boundsCh # <<>> THEN boundsCh[1] ELSE captureBounds

LEMMA KeyKeepsLatest ==
  ASSUME DefaultKinds, HotkeyInv, NEW k \in Keys, KeyChanges(k)
  PROVE  LatestHoldWins'
<1>1. /\ box \in Rectangles /\ trail \in SUBSET Points
      /\ hold \in {"none", "still", "moved", "steered"}
  BY DEF HotkeyInv, TypeOK
<1>2. captureBounds' = captureBounds
  BY DEF KeyChanges
<1>3. CASE UNCHANGED <<boundsCh, lastTrail>>
  BY <1>2, <1>3 DEF HotkeyInv, LatestHoldWins, Bounds
<1>4. CASE ~(tap /\ k = BoundsKey)
  BY <1>3, <1>4, BoundsKeyMissed
<1>5. CASE tap /\ k = BoundsKey
  <2>1. BoundsKeyChanged(LooksPressed(k)) /\ NotesHold(k)
    BY <1>5, BoundsKeySeen
  <2>2. CASE LooksPressed(k)
    BY <1>3, <2>1, <2>2 DEF BoundsKeyChanged, NotesHold
  <2>3. CASE ~LooksPressed(k) /\ hold # "moved"
    <3>1. ~(optionHeld /\ mouseMoved /\ ~controlUsed)
      BY <1>1, <2>3 DEF HotkeyInv, HoldInStep
    <3>2. UNCHANGED <<boundsCh, lastTrail>>
      BY <2>1, <2>3, <3>1 DEF BoundsKeyChanged, NotesHold
    <3> QED BY <1>3, <3>2
  <2>4. CASE ~LooksPressed(k) /\ hold = "moved"
    <3>1. optionHeld /\ mouseMoved /\ ~controlUsed /\ Encloses(box, trail)
      BY <2>4 DEF HotkeyInv, HoldInStep
    <3>2. Bounds(Recorded(box), trail)
      BY <1>1, <3>1, RecordedBounds
    <3>3. boundsCh' = <<Recorded(box)>> /\ lastTrail' = trail
      BY <2>1, <2>4, <3>1 DEF BoundsKeyChanged, NotesHold, Replace
    <3>4. boundsCh' # <<>> /\ boundsCh'[1] = Recorded(box)
      BY <3>3
    <3> QED BY <3>2, <3>3, <3>4 DEF LatestHoldWins, Bounds
  <2> QED BY <2>2, <2>3, <2>4
<1> QED BY <1>4, <1>5

(***************************************************************************)
(* The other steps                                                         *)
(***************************************************************************)
LEMMA MouseKeepsInv ==
  ASSUME HotkeyInv, NEW p \in Points, MouseMoves(p)
  PROVE  HotkeyInv'
<1>1. box \in Rectangles /\ trail \in SUBSET Points
  BY DEF HotkeyInv, TypeOK
<1>2. box' = box \/ box' = Extended(box, p)
  BY DEF MouseMoves
<1>3. box' \in Rectangles
  <2>1. Extended(box, p) \in Rectangles
    BY <1>1, KeysAssumption DEF Extended, Rectangles, Lesser, Greater
  <2> QED BY <1>1, <1>2, <2>1
<1>4. TypeOK'
  <2>1. {tap, optionHeld, mouseMoved, controlUsed, commandHeld}' \subseteq BOOLEAN
    BY DEF MouseMoves, HotkeyInv, TypeOK
  <2>2. mouse' \in Points /\ trail' \subseteq Points /\ hold' \in {"none", "still", "moved", "steered"}
    BY DEF MouseMoves, HotkeyInv, TypeOK
  <2> QED BY <1>3, <2>1, <2>2 DEF MouseMoves, HotkeyInv, TypeOK, channels
<1>5. HeldInStep' /\ OneTokenPerPress'
  BY DEF MouseMoves, HotkeyInv, HeldInStep, OneTokenPerPress
<1>6. LatestHoldWins'
  BY DEF MouseMoves, HotkeyInv, LatestHoldWins, Bounds, channels
<1>7. HoldInStep'
  <2>1. hold \in {"none", "still", "moved", "steered"} /\ (hold = "none" <=> ~optionHeld)
    BY DEF HotkeyInv, TypeOK, HoldInStep
  <2>2. CASE ~(tap /\ optionHeld)
    <3>1. UNCHANGED <<optionHeld, mouseMoved, controlUsed, box, hold, trail>>
      BY <2>1, <2>2 DEF MouseMoves
    <3> QED BY <3>1 DEF HotkeyInv, HoldInStep, Encloses
  <2>3. CASE tap /\ optionHeld
    <3>1. Encloses(box, trail) /\ (controlUsed <=> hold = "steered")
      BY <2>1, <2>3 DEF HotkeyInv, HoldInStep
    <3>2. /\ box' = Extended(box, p) /\ trail' = trail \union {p} /\ mouseMoved' = TRUE
          /\ UNCHANGED <<optionHeld, controlUsed>>
          /\ hold' = IF hold = "still" THEN "moved" ELSE hold
      BY <2>1, <2>3 DEF MouseMoves
    <3>3. Encloses(Extended(box, p), trail \union {p})
      BY <1>1, <3>1, ExtendedEncloses
    <3> QED BY <2>1, <2>3, <3>1, <3>2, <3>3 DEF HoldInStep, Encloses
  <2> QED BY <2>2, <2>3
<1> QED BY <1>4, <1>5, <1>6, <1>7 DEF HotkeyInv

LEMMA ControlKeepsInv ==
  ASSUME HotkeyInv, NEW key, ControlKeyPressed(key)
  PROVE  HotkeyInv'
<1>1. Len(gridCh') <= 1 /\ Len(opacityCh') <= 1 /\ Len(fontCh') <= 1
  <2>1. ASSUME NEW v PROVE Len(<<v>>) <= 1
    OBVIOUS
  <2>2. \/ gridCh' = gridCh
        \/ gridCh' = <<Direction(key)>>
    BY DEF ControlKeyPressed, KeyDown, Replace
  <2>3. /\ opacityCh' = opacityCh \/ opacityCh' = <<key>>
        /\ fontCh' = fontCh \/ fontCh' = <<key>>
    BY DEF ControlKeyPressed, KeyDown, SendIfRoom
  <2>4. Len(gridCh) <= 1 /\ Len(opacityCh) <= 1 /\ Len(fontCh) <= 1
    BY DEF HotkeyInv, TypeOK
  <2> QED BY <2>1, <2>2, <2>3, <2>4
<1>2. {tap, optionHeld, mouseMoved, controlUsed, commandHeld}' \subseteq BOOLEAN
  BY DEF ControlKeyPressed, KeyDown, HotkeyInv, TypeOK
<1>3. TypeOK'
  BY <1>1, <1>2 DEF ControlKeyPressed, HotkeyInv, TypeOK
<1>4. HeldInStep' /\ OneTokenPerPress' /\ LatestHoldWins'
  BY DEF ControlKeyPressed, HotkeyInv, HeldInStep, OneTokenPerPress, LatestHoldWins, Bounds
<1>5. HoldInStep'
  <2>1. UNCHANGED <<optionHeld, mouseMoved, box, trail>>
    BY DEF ControlKeyPressed
  <2>2. CASE hold = "none"
    <3>1. UNCHANGED <<controlUsed, hold>>
      BY <2>2 DEF ControlKeyPressed, HotkeyInv, HoldInStep
    <3> QED BY <2>1, <3>1 DEF HotkeyInv, HoldInStep, Encloses
  <2>3. CASE hold # "none"
    <3>1. controlUsed' = TRUE /\ hold' = "steered"
      BY <2>3 DEF ControlKeyPressed, KeyDown, HotkeyInv, HoldInStep
    <3> QED BY <2>1, <2>3, <3>1 DEF HotkeyInv, HoldInStep, Encloses
  <2> QED BY <2>2, <2>3
<1> QED BY <1>3, <1>4, <1>5 DEF HotkeyInv

LEMMA DraggingKeepsInv ==
  ASSUME HotkeyInv, NEW p \in Points, OtherButtonDrags(p)
  PROVE  HotkeyInv'
<1>1. mouse' \in Points /\ UNCHANGED <<user, down, tap, tapVars, channels, captureBounds, historyVars>>
  BY DEF OtherButtonDrags
<1>2. {tap, optionHeld, mouseMoved, controlUsed, commandHeld}' \subseteq BOOLEAN
  BY <1>1 DEF HotkeyInv, TypeOK, tapVars
<1>3. TypeOK'
  BY <1>1, <1>2 DEF HotkeyInv, TypeOK, tapVars, channels, historyVars
<1>4. HeldInStep' /\ OneTokenPerPress' /\ HoldInStep' /\ LatestHoldWins'
  BY <1>1 DEF HotkeyInv, HeldInStep, OneTokenPerPress, HoldInStep, LatestHoldWins, Encloses, Bounds,
              tapVars, channels, historyVars
<1> QED BY <1>3, <1>4 DEF HotkeyInv

LEMMA ReceivingKeepsInv ==
  ASSUME HotkeyInv, TapDisabled \/ TapEnabled \/ TracksBounds \/ Receives \/ UNCHANGED vars
  PROVE  HotkeyInv'
<1>1. UNCHANGED <<user, down, mouse, tapVars, historyVars>>
  BY DEF TapDisabled, TapEnabled, TracksBounds, Receives, vars
<1>2. tap' \in BOOLEAN
  BY DEF TapDisabled, TapEnabled, TracksBounds, Receives, vars, HotkeyInv, TypeOK
<1>3. /\ triggers' \in 0 .. Buffer /\ toggles' \in 0 .. Buffer
      /\ Len(gridCh') <= 1 /\ Len(opacityCh') <= 1 /\ Len(fontCh') <= 1
  <2>1. /\ triggers \in 0 .. Buffer /\ toggles \in 0 .. Buffer
        /\ Len(gridCh) <= 1 /\ Len(opacityCh) <= 1 /\ Len(fontCh) <= 1
    BY DEF HotkeyInv, TypeOK
  <2>2. /\ triggers' = triggers \/ (triggers > 0 /\ triggers' = triggers - 1)
        /\ toggles' = toggles \/ (toggles > 0 /\ toggles' = toggles - 1)
        /\ gridCh' = gridCh \/ gridCh' = <<>>
        /\ opacityCh' = opacityCh \/ opacityCh' = <<>>
        /\ fontCh' = fontCh \/ fontCh' = <<>>
    BY DEF TapDisabled, TapEnabled, TracksBounds, Receives, vars, channels
  <2>3. triggers' \in 0 .. Buffer /\ toggles' \in 0 .. Buffer
    BY KeysAssumption, <2>1, <2>2
  <2>4. Len(gridCh') <= 1 /\ Len(opacityCh') <= 1 /\ Len(fontCh') <= 1
    BY <2>1, <2>2
  <2> QED
    BY <2>3, <2>4
<1>4. \/ boundsCh' = boundsCh /\ captureBounds' = captureBounds
      \/ boundsCh # <<>> /\ captureBounds' = Head(boundsCh) /\ boundsCh' = Tail(boundsCh)
  BY DEF TapDisabled, TapEnabled, TracksBounds, Receives, vars, channels
<1>5. ASSUME boundsCh # <<>>
      PROVE  /\ Head(boundsCh) = boundsCh[1] /\ boundsCh[1] \in Rectangles
             /\ Tail(boundsCh) = <<>>
  BY <1>5 DEF HotkeyInv, TypeOK
<1>6. /\ boundsCh' \in Seq(Rectangles) /\ Len(boundsCh') <= 1
      /\ captureBounds' = Nil \/ captureBounds' \in Rectangles
  <2>1. /\ boundsCh \in Seq(Rectangles) /\ Len(boundsCh) <= 1
        /\ captureBounds = Nil \/ captureBounds \in Rectangles
    BY DEF HotkeyInv, TypeOK
  <2>2. <<>> \in Seq(Rectangles) /\ Len(<<>>) <= 1
    OBVIOUS
  <2> QED BY <1>4, <1>5, <2>1, <2>2
<1>7. TypeOK'
  <2>1. {tap, optionHeld, mouseMoved, controlUsed, commandHeld}' \subseteq BOOLEAN
    BY <1>1, <1>2 DEF HotkeyInv, TypeOK, tapVars
  <2> QED BY <1>1, <1>3, <1>6, <2>1 DEF HotkeyInv, TypeOK, tapVars, historyVars
<1>8. HeldInStep' /\ OneTokenPerPress'
  BY <1>1 DEF HotkeyInv, HeldInStep, OneTokenPerPress, tapVars, historyVars
<1>9. HoldInStep'
  BY <1>1 DEF HotkeyInv, HoldInStep, Encloses, tapVars, historyVars
<1>10. LatestHoldWins'
  <2>1. InForce' = InForce
    BY <1>4, <1>5 DEF InForce
  <2>2. lastTrail' = lastTrail
    BY <1>1 DEF historyVars
  <2> QED BY <2>1, <2>2 DEF HotkeyInv, LatestHoldWins, InForce, Bounds
<1> QED BY <1>7, <1>8, <1>9, <1>10 DEF HotkeyInv

LEMMA StepKeepsInv ==
  ASSUME DefaultKinds, HotkeyInv, [Next]_vars
  PROVE  HotkeyInv'
<1>1. ASSUME NEW k \in user \cap Keys, KeyChanges(k) PROVE HotkeyInv'
  BY <1>1, KeyKeepsTypes, KeyKeepsHeld, KeyKeepsTokens, KeyKeepsHold, KeyKeepsLatest DEF HotkeyInv
<1>2. ASSUME NEW p \in Points, MouseMoves(p) \/ OtherButtonDrags(p) PROVE HotkeyInv'
  BY <1>2, MouseKeepsInv, DraggingKeepsInv
<1>3. ASSUME NEW key \in user \ Keys, ControlKeyPressed(key) PROVE HotkeyInv'
  BY <1>3, ControlKeepsInv
<1>4. CASE TapDisabled \/ TapEnabled \/ TracksBounds \/ Receives \/ UNCHANGED vars
  BY <1>4, ReceivingKeepsInv
<1> QED BY <1>1, <1>2, <1>3, <1>4 DEF Next

(***************************************************************************)
(* The theorems                                                            *)
(***************************************************************************)
\* The inductive invariant.
THEOREM HotkeyInvariant == ASSUME DefaultKinds PROVE Spec => []HotkeyInv
<1>1. Init => HotkeyInv
  BY InitHolds
<1>2. HotkeyInv /\ [Next]_vars => HotkeyInv'
  BY StepKeepsInv
<1> QED BY <1>1, <1>2, PTL DEF Spec

\* Missed and hidden key events mislead the callback only until the next event.
THEOREM HeldAlwaysInStep == ASSUME DefaultKinds PROVE Spec => []HeldInStep
<1>1. HotkeyInv => HeldInStep
  BY DEF HotkeyInv
<1> QED BY <1>1, HotkeyInvariant, PTL

\* A press of the trigger or of the toggle key is one token.
THEOREM AlwaysOneTokenPerPress == ASSUME DefaultKinds PROVE Spec => []OneTokenPerPress
<1>1. HotkeyInv => OneTokenPerPress
  BY DEF HotkeyInv
<1> QED BY <1>1, HotkeyInvariant, PTL

\* The bounds in force are those of the last hold in which the mouse moved and no key was
\* pressed, a hold being what the tap sees of it; holds between which a release was missed
\* are one.
THEOREM LatestHoldAlwaysWins == ASSUME DefaultKinds PROVE Spec => []LatestHoldWins
<1>1. HotkeyInv => LatestHoldWins
  BY DEF HotkeyInv
<1> QED BY <1>1, HotkeyInvariant, PTL

LEMMA AreasFollow == ASSUME HotkeyInv PROVE CapturesVisiblePart /\ OCRReadsCanvas
<1>1. captureBounds \in Rectangles \union {Nil}
  BY DEF HotkeyInv, TypeOK
<1>2. \A w \in TestWindows : w \in Windows
  BY KeysAssumption
<1>3. \A p \in NearScreen : p.x \in Int /\ p.y \in Int
  BY CaptureAreaAssumption DEF NearScreen
<1>4. \A w \in TestWindows, p \in NearScreen : TakesVisiblePart(w, captureBounds, p.x, p.y)
  BY <1>1, <1>2, <1>3, CaptureIsVisiblePart
<1>5. \A w \in TestWindows : ReadsCanvas(w, captureBounds)
  BY <1>1, <1>2, OCRIsGivenCanvas
<1>6. \E w \in TestWindows : TRUE
  BY KeysAssumption
<1> QED BY <1>4, <1>5, <1>6 DEF CapturesVisiblePart, OCRReadsCanvas, WindowsTaken, CanvasRead

\* Whatever bounds the holds leave, a capture takes the part of the screen asked for.
THEOREM CapturesAlwaysVisiblePart == ASSUME DefaultKinds PROVE Spec => []CapturesVisiblePart
BY AreasFollow, HotkeyInvariant, PTL

\* Whatever bounds the holds leave, the OCR reads what it should.
THEOREM OCRAlwaysReadsCanvas == ASSUME DefaultKinds PROVE Spec => []OCRReadsCanvas
BY AreasFollow, HotkeyInvariant, PTL
=============================================================================

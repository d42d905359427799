--------------------------- MODULE HotkeyListener ---------------------------
(***************************************************************************)
(* The hotkey listener: the event tap's callback with its globals, the     *)
(* channels that it fills and the goroutines that empty them, and the      *)
(* bounds that a capture uses.  (modules/listener/listener.go,             *)
(* pipeline/tracker_bounds.go)                                             *)
(*                                                                         *)
(* The system tells of a modifier key only that it changed and which kinds *)
(* of modifier are down now, so that a key and its twin on the other side  *)
(* of the keyboard look alike; and it may disable the tap, which then      *)
(* misses events until it is enabled again.                                *)
(***************************************************************************)
EXTENDS CaptureArea, Sequences

CONSTANTS Keys,         \* modifier keys
          Kind,         \* key -> "shift", "option", "command", "control" or "fn"
          TriggerKey, BoundsKey, ToggleKey, \* HOTKEY_*_KEYNAME
          Users,        \* the sets of keys that a user may use, modifiers and others
          Points,       \* where the mouse is, in halves of a pixel
          Buffer,       \* ListenerTriggerChannelBuffer
          TestWindows   \* windows that may be in front

ASSUME KeysAssumption ==
  /\ Kind \in [Keys -> STRING] /\ {TriggerKey, BoundsKey, ToggleKey} \subseteq Keys
  /\ Points \subseteq [x : Int, y : Int]
  /\ Buffer \in Nat \ {0}
  /\ TestWindows \subseteq Windows /\ TestWindows # {}

VARIABLES
  user,        \* the keys that the user uses: constant
  down,        \* the modifier keys that are down
  mouse,       \* where the mouse is
  tap,         \* the event tap is enabled
  optionHeld, mouseMoved, controlUsed, box, \* gOptionHeld, gMouseMoved, gControlUsed, gMin/gMax
  commandHeld, \* gCommandHeld
  triggers, toggles,  \* number of tokens in triggerCh and togglesCh
  boundsCh, gridCh, opacityCh, fontCh, \* the other channels, each of capacity 1
  captureBounds, \* pipeline: the rectangle the next capture uses, or nil
  strayed,     \* history: hotkeys whose last change was missed, or hidden by the twin
  hold,        \* history: the hold of the bounds key that the tap has seen begin and not
               \* end: "none", or "still", "moved" or, with a key pressed, "steered"
  trail,       \* history: where the tap has seen the mouse during that hold
  lastTrail,   \* history: the trail that the bounds in force are due to, or {}
  owed         \* history: presses less tokens, of the trigger and of the toggle

tapVars     == <<optionHeld, mouseMoved, controlUsed, box, commandHeld>>
channels    == <<triggers, toggles, boundsCh, gridCh, opacityCh, fontCh>>
historyVars == <<strayed, hold, trail, lastTrail, owed>>
vars == <<user, down, mouse, tap, tapVars, channels, captureBounds, historyVars>>

At(p) == [minX |-> p.x, minY |-> p.y, maxX |-> p.x, maxY |-> p.y]

Init ==
  /\ user \in Users /\ down = {} /\ mouse \in Points /\ tap = TRUE
  /\ optionHeld = FALSE /\ mouseMoved = FALSE /\ controlUsed = FALSE /\ commandHeld = FALSE
  /\ box = [minX |-> 0, minY |-> 0, maxX |-> 0, maxY |-> 0]
  /\ triggers = 0 /\ toggles = 0
  /\ boundsCh = <<>> /\ gridCh = <<>> /\ opacityCh = <<>> /\ fontCh = <<>>
  /\ captureBounds = Nil
  /\ strayed = {} /\ hold = "none" /\ trail = {} /\ lastTrail = {}
  /\ owed = [hotkey \in {"trigger", "toggle"} |-> 0]

\* A full channel takes no more; a value is lost, or replaces the one that waits.
\* (A drain and a send by the only sender: the receiver cannot come in between.)
SendToken(n) == Lesser(n + 1, Buffer)
SendIfRoom(ch, v) == IF ch = <<>> THEN <<v>> ELSE ch
\* Slip: the undelivered value stays.
ReplaceSlip(ch, v) == IF ch = <<>> THEN <<v>> ELSE ch
Replace(ch, v) == <<v>>

\* int() of a CGFloat drops the fraction.
Truncated(half) == IF half >= 0 THEN half \div 2 ELSE -((-half) \div 2)
Recorded(b) == Rect(Truncated(b.minX), Truncated(b.minY), Truncated(b.maxX), Truncated(b.maxY))

IsDown(kind, keys) == \E k \in keys : Kind[k] = kind

\* The bounds key: a hold begins, or ends and its box is recorded.
BoundsKeyChanged(now) ==
  /\ optionHeld' = now
  /\ IF now /\ ~optionHeld THEN mouseMoved' = FALSE /\ controlUsed' = FALSE /\ box' = At(mouse)
     ELSE UNCHANGED <<mouseMoved, controlUsed, box>>
  /\ boundsCh' = IF ~now /\ optionHeld /\ mouseMoved /\ ~controlUsed
                   THEN Replace(boundsCh, Recorded(box)) ELSE boundsCh

\* Slip: the flag is not cleared when the key is released.
ToggleKeyChangedSlip(now) ==
  /\ commandHeld' = (commandHeld \/ now)
  /\ toggles' = IF now /\ ~commandHeld THEN SendToken(toggles) ELSE toggles

ToggleKeyChanged(now) ==
  /\ commandHeld' = now
  /\ toggles' = IF now /\ ~commandHeld THEN SendToken(toggles) ELSE toggles

\* Slip: the flag is not tested.
FiresSlip(k, keys) == k = TriggerKey

\* The trigger is sent whenever the flag is set, without a test for an edge.
Fires(k, keys) == k = TriggerKey /\ IsDown("shift", keys)
TogglesNow(k, keys) == k = ToggleKey /\ IsDown("command", keys) /\ ~commandHeld

\* eventCallback for kCGEventFlagsChanged of key k, with `keys` down.  The kinds of
\* modifier that it asks for do not depend on the configured keys.
FlagsChanged(k, keys) ==
  /\ IF k = BoundsKey THEN BoundsKeyChanged(IsDown("option", keys))
     ELSE UNCHANGED <<optionHeld, mouseMoved, controlUsed, box, boundsCh>>
  /\ triggers' = IF Fires(k, keys) THEN SendToken(triggers) ELSE triggers
  /\ IF k = ToggleKey THEN ToggleKeyChanged(IsDown("command", keys))
     ELSE UNCHANGED <<commandHeld, toggles>>
  /\ UNCHANGED <<gridCh, opacityCh, fontCh>>

(***************************************************************************)
(* What the user has done, whatever the callback makes of it               *)
(***************************************************************************)
Twins(k) == {j \in Keys \ {k} : Kind[j] = Kind[k]}
Seen(k) == tap /\ Twins(k) \cap down = {}

Pressed(k) == k \notin down
Note(hotkey, key, k, sends) ==
  IF k = key /\ Seen(k) /\ k \notin strayed
    THEN owed[hotkey] + (IF Pressed(k) THEN 1 ELSE 0) - (IF sends THEN 1 ELSE 0)
    ELSE owed[hotkey]

\* A change of k that the tap sees looks like a press when k or its twin is down after.
LooksPressed(k) == Pressed(k) \/ Twins(k) \cap down # {}

\* A hold is seen to begin, to go on (what ended it was missed, or looks like a press),
\* or to end, with bounds due to it if the mouse moved and no other key was pressed.
NotesHold(k) ==
  IF LooksPressed(k)
    THEN /\ hold' = IF hold = "none" THEN "still" ELSE hold
         /\ trail' = IF hold = "none" THEN {mouse} ELSE trail
         /\ UNCHANGED lastTrail
    ELSE /\ hold' = "none" /\ trail' = {}
         /\ lastTrail' = IF hold = "moved" THEN trail ELSE lastTrail

NotesKey(k, keys) ==
  /\ strayed' = IF Seen(k) THEN strayed \ {k} ELSE strayed \union ({k} \cap {BoundsKey, ToggleKey})
  /\ owed' = [trigger |-> Note("trigger", TriggerKey, k, tap /\ Fires(k, keys)),
              toggle  |-> Note("toggle", ToggleKey, k, tap /\ TogglesNow(k, keys))]
  /\ IF tap /\ k = BoundsKey THEN NotesHold(k) ELSE UNCHANGED <<hold, trail, lastTrail>>

\* A modifier key is pressed or released.
KeyChanges(k) ==
  LET keys == IF k \in down THEN down \ {k} ELSE down \union {k}
  IN  /\ down' = keys
      /\ IF tap THEN FlagsChanged(k, keys) ELSE UNCHANGED <<tapVars, channels>>
      /\ NotesKey(k, keys)
      /\ UNCHANGED <<user, mouse, tap, captureBounds>>

\* Slip: only the corner that grows is moved.
ExtendedSlip(b, p) == [b EXCEPT !.maxX = Greater(@, p.x), !.maxY = Greater(@, p.y)]

Extended(b, p) == [minX |-> Lesser(b.minX, p.x), minY |-> Lesser(b.minY, p.y),
                   maxX |-> Greater(b.maxX, p.x), maxY |-> Greater(b.maxY, p.y)]

\* The mouse moves, if only within its place, or is dragged with the left or right button.
MouseMoves(p) ==
  /\ mouse' = p
  /\ IF tap /\ optionHeld THEN mouseMoved' = TRUE /\ box' = Extended(box, p)
     ELSE UNCHANGED <<mouseMoved, box>>
  /\ trail' = IF tap /\ hold # "none" THEN trail \union {p} ELSE trail
  /\ hold' = IF tap /\ hold = "still" THEN "moved" ELSE hold
  /\ UNCHANGED <<user, down, tap, optionHeld, controlUsed, commandHeld, channels, captureBounds,
                 strayed, lastTrail, owed>>

\* The mouse is dragged with another button, of which the tap is not told.
OtherButtonDrags(p) ==
  /\ mouse' = p
  /\ UNCHANGED <<user, down, tap, tapVars, channels, captureBounds, historyVars>>

Direction(key) == CASE key = "left" -> <<-1, 0>> [] key = "right" -> <<1, 0>>
                    [] key = "up"   -> <<0, -1>> [] key = "down"  -> <<0, 1>>

\* eventCallback for kCGEventKeyDown during a hold: any key ends the selection of
\* bounds.
KeyDown(key) ==
  /\ controlUsed' = TRUE
  /\ gridCh' = IF key \in {"left", "right", "up", "down"}
                 THEN Replace(gridCh, Direction(key)) ELSE gridCh
  /\ opacityCh' = IF key \in {"minus", "plus", "zero"} THEN SendIfRoom(opacityCh, key) ELSE opacityCh
  /\ fontCh' = IF key \in {"comma", "period", "slash"} THEN SendIfRoom(fontCh, key) ELSE fontCh

\* The tap sees another key pressed.
ControlKeyPressed(key) ==
  /\ tap
  /\ IF optionHeld THEN KeyDown(key) ELSE UNCHANGED <<controlUsed, gridCh, opacityCh, fontCh>>
  /\ hold' = IF hold = "none" THEN hold ELSE "steered"
  /\ UNCHANGED <<user, down, mouse, tap, optionHeld, mouseMoved, box, commandHeld, triggers, toggles,
                 boundsCh, captureBounds, strayed, trail, lastTrail, owed>>

\* The system disables the tap (a slow callback, or the user's input).
TapDisabled ==
  /\ tap /\ tap' = FALSE
  /\ UNCHANGED <<user, down, mouse, tapVars, channels, captureBounds, historyVars>>

\* eventCallback for kCGEventTapDisabledBy...: enabled again, with the globals as
\* they were.
TapEnabled ==
  /\ ~tap /\ tap' = TRUE
  /\ UNCHANGED <<user, down, mouse, tapVars, channels, captureBounds, historyVars>>

\* trackBounds
TracksBounds ==
  /\ boundsCh # <<>>
  /\ captureBounds' = Head(boundsCh) /\ boundsCh' = Tail(boundsCh)
  /\ UNCHANGED <<user, down, mouse, tap, tapVars, triggers, toggles, gridCh, opacityCh, fontCh,
                 historyVars>>

\* Run and the other trackers receive.
Receives ==
  /\ \/ triggers > 0 /\ triggers' = triggers - 1 /\ UNCHANGED <<toggles, gridCh, opacityCh, fontCh>>
     \/ toggles > 0 /\ toggles' = toggles - 1 /\ UNCHANGED <<triggers, gridCh, opacityCh, fontCh>>
     \/ gridCh # <<>> /\ gridCh' = <<>> /\ UNCHANGED <<triggers, toggles, opacityCh, fontCh>>
     \/ opacityCh # <<>> /\ opacityCh' = <<>> /\ UNCHANGED <<triggers, toggles, gridCh, fontCh>>
     \/ fontCh # <<>> /\ fontCh' = <<>> /\ UNCHANGED <<triggers, toggles, gridCh, opacityCh>>
  /\ UNCHANGED <<user, down, mouse, tap, tapVars, boundsCh, captureBounds, historyVars>>

Next ==
  \/ \E k \in user \cap Keys : KeyChanges(k)
  \/ \E p \in Points : MouseMoves(p) \/ OtherButtonDrags(p)
  \/ \E key \in user \ Keys : ControlKeyPressed(key)
  \/ TapDisabled \/ TapEnabled \/ TracksBounds \/ Receives

Spec == Init /\ [][Next]_vars

(***************************************************************************)
(* Properties                                                              *)
(***************************************************************************)
TypeOK ==
  /\ user \in Users /\ down \subseteq Keys /\ mouse \in Points
  /\ {tap, optionHeld, mouseMoved, controlUsed, commandHeld} \subseteq BOOLEAN
  /\ box \in Rectangles
  /\ triggers \in 0 .. Buffer /\ toggles \in 0 .. Buffer
  /\ boundsCh \in Seq(Rectangles) /\ Len(boundsCh) <= 1
  /\ Len(gridCh) <= 1 /\ Len(opacityCh) <= 1 /\ Len(fontCh) <= 1
  /\ captureBounds = Nil \/ captureBounds \in Rectangles
  /\ strayed \subseteq Keys
  /\ hold \in {"none", "still", "moved", "steered"}
  /\ trail \subseteq Points /\ lastTrail \subseteq Points
  /\ owed \in [{"trigger", "toggle"} -> Int]

\* What the callback takes for held is held: a missed event, or one that the twin
\* key hides, misleads it only until the key is next pressed or released.
HeldInStep ==
  /\ BoundsKey \notin strayed => (optionHeld <=> BoundsKey \in down)
  /\ ToggleKey \notin strayed => (commandHeld <=> ToggleKey \in down)

\* A press of the trigger or the toggle key sends one token (or finds the channel
\* full), and nothing else does, unless events were missed or a twin key is down.
OneTokenPerPress == \A hotkey \in {"trigger", "toggle"} : owed[hotkey] = 0

\* r is the smallest rectangle of pixels with the trail in it.
Bounds(r, points) ==
  /\ \A p \in points : /\ r.minX <= Truncated(p.x) /\ Truncated(p.x) <= r.maxX
                       /\ r.minY <= Truncated(p.y) /\ Truncated(p.y) <= r.maxY
  /\ \E p \in points : r.minX = Truncated(p.x)
  /\ \E p \in points : r.maxX = Truncated(p.x)
  /\ \E p \in points : r.minY = Truncated(p.y)
  /\ \E p \in points : r.maxY = Truncated(p.y)

\* The bounds in force, or on their way, are the smallest rectangle around the places
\* where the mouse was seen during the last hold of the bounds key in which it moved and
\* no other key was pressed.  Whatever the tap misses, a hold is what it sees: from a
\* press (a release with the twin key down looks like one) to the next change of the key
\* that looks like a release.  A hold whose press was missed leaves no bounds; one whose
\* release was missed goes on, and the next hold is part of it, its places and its keys.
LatestHoldWins ==
  lastTrail # {} => Bounds(IF boundsCh # <<>> THEN boundsCh[1] ELSE captureBounds, lastTrail)

\* Whatever bounds a hold has left, a capture takes the part of the screen that the
\* user asked for, and without bounds that of the window: see TakesVisiblePart.  With
\* bounds the window plays no part, and one stands for all.
NearScreen == [x : -1 .. ScreenWidth, y : -1 .. ScreenHeight]
WindowsTaken == \A w \in TestWindows, p \in NearScreen : TakesVisiblePart(w, Nil, p.x, p.y)
CapturesVisiblePart ==
  IF captureBounds = Nil THEN WindowsTaken
  ELSE \E w \in TestWindows : \A p \in NearScreen : TakesVisiblePart(w, captureBounds, p.x, p.y)

\* The OCR reads the canvas of a browser that is on the screen, and what was captured
\* otherwise: see ReadsCanvas.
CanvasRead == \A w \in TestWindows : ReadsCanvas(w, Nil)
OCRReadsCanvas ==
  IF captureBounds = Nil THEN CanvasRead
  ELSE \E w \in TestWindows : ReadsCanvas(w, captureBounds)

(***************************************************************************)
(* The inductive invariant of the proofs                                   *)
(***************************************************************************)
\* b is the smallest box with the trail in it.
Encloses(b, points) ==
  /\ \A p \in points : b.minX <= p.x /\ p.x <= b.maxX /\ b.minY <= p.y /\ p.y <= b.maxY
  /\ \E p \in points : b.minX = p.x
  /\ \E p \in points : b.maxX = p.x
  /\ \E p \in points : b.minY = p.y
  /\ \E p \in points : b.maxY = p.y

HoldInStep ==
  /\ hold = "none" <=> ~optionHeld
  /\ hold # "none" => Encloses(box, trail) /\ (controlUsed <=> hold = "steered")
  /\ hold = "moved" => mouseMoved
  /\ hold = "still" => ~mouseMoved

HotkeyInv == TypeOK /\ HeldInStep /\ OneTokenPerPress /\ HoldInStep /\ LatestHoldWins
=============================================================================

------------------------------ MODULE Overlay ------------------------------
(***************************************************************************)
(* The teleprompter overlay with everything in the daemon that moves it:   *)
(* the tracker goroutines of src/pipeline (toggle key, grid keys, window   *)
(* changes) and the debounce timers they arm, the goroutines that take     *)
(* screenshots, the answers that are displayed and the clients that switch *)
(* the output method.  All of them dispatch selectors to the main thread   *)
(* (OverlayWindow) and none waits for another.                             *)
(*                                                                         *)
(* A definition marked Slip is a wrong variant of the one that follows it. *)
(* Not modelled here: the end of the process (the trackers stop when their *)
(* channels close), and colours.                                           *)
(***************************************************************************)
EXTENDS OverlayWindow, FiniteSets

CONSTANTS
  Scenarios,        (* what the user, the window and the clients may do     *)
  Captures,         (* screenshots, by the number of their trigger          *)
  Clients,          (* connections that may call SetOutputMethod            *)
  MaxPresses,       (* bound: presses of a grid key                         *)
  Step,             (* TELEPROMPTER_GRID_STEP, in GridUnits-ths             *)
  InitialSpot,      (* TELEPROMPTER_GRID_INITIAL_COL and _ROW               *)
  MaxWindowMoves,   (* bound: moves of the captured window                  *)
  MaxChanges,       (* bound: changes that the window tracker notices       *)
  WindowAfter       (* number of moves -> the captured window               *)

(* A scenario bounds every counter of the environment, and says which      *)
(* arrow keys are pressed during holds of the bounds key, whether          *)
(* the overlay starts visible (TELEPROMPTER_VISIBLE), texts crossfade      *)
(* (TELEPROMPTER_FADE_DURATION) and a timer that has fired is done before  *)
(* another one fires ("prompt": both delays are long for a callback), and  *)
(* whether a capture has been before ("known").                            *)
Directions == {<<-1, 0>>, <<1, 0>>, <<0, -1>>, <<0, 1>>}
Scenario == [toggles : Nat, arrows : UNION {[1 .. n -> Directions] : n \in 0 .. MaxPresses},
             moves : 0 .. MaxWindowMoves, texts : Texts, adjusts : Nat, switches : Nat,
             captures : SUBSET Captures, clients : SUBSET Clients, visible : BOOLEAN,
             fades : BOOLEAN, prompt : BOOLEAN, known : BOOLEAN]

ASSUME OverlayAssumption ==
  /\ {MaxPresses, MaxWindowMoves, MaxChanges, Step} \subseteq Nat
  /\ InitialSpot \in Spots
  /\ WindowAfter \in [0 .. MaxWindowMoves -> Windows]
  /\ \A n \in Texts : 0 .. n \subseteq Texts
  /\ Captures \subseteq Nat /\ IsFiniteSet(Captures) /\ IsFiniteSet(Clients)
  /\ "toggleKey" \notin Clients
  /\ \A s \in Scenarios : s \in Scenario

VARIABLES
  limits,           (* the scenario of this behaviour                       *)
  intendedVisible,  (* the Go side of gIntendedVisible                      *)
  outputMethod,     (* the runtime output method                            *)
  pollerActive,     (* poller.active                                        *)
  toggles,          (* toggle presses so far                                *)
  call,             (* call[c]: what showOverlay / hideOverlay does next    *)
  switching,        (* switching[c]: where client c is in SetOutputMethod   *)
  switches,         (* calls of SetOutputMethod so far                      *)
  presses,          (* presses of a grid key so far                         *)
  gridSpot,         (* (gridCol, gridRow)                                   *)
  fading,           (* has the grid tracker started a move?                 *)
  gridTracker,      (* where the grid tracker is                            *)
  windowMoves,      (* moves of the captured window so far                  *)
  windowChanges,    (* changes of its rectangle noticed so far              *)
  lastWindowBounds, (* its rectangle when last seen; nil before a capture,  *)
                    (* when capturedWindowID is 0                           *)
  unstable,         (* has the window tracker hidden the overlay?           *)
  windowTracker,    (* where the window tracker is                          *)
  timer,            (* timer[t]: the debounce timers and their callbacks    *)
  answered,         (* answers for which the output method has been read    *)
  texts,            (* texts passed to Display so far                       *)
  capture,          (* capture[i]: where capture i is, and the number of    *)
                    (* moves before it saw the window                       *)
  adjusts,          (* opacity and font keys so far                         *)
  fontTracker       (* where the font tracker is                            *)

methodVars == <<outputMethod, pollerActive, switching, switches>>
intentVars == <<intendedVisible, toggles, call>>
gridVars   == <<presses, gridSpot, fading, gridTracker>>
moveVars   == <<windowMoves, windowChanges, lastWindowBounds, unstable, windowTracker>>
textVars   == <<answered, texts, adjusts, fontTracker>>
goVars == <<methodVars, intentVars, gridVars, moveVars, timer, textVars, capture>>
vars == <<limits, gFadeDuration, goVars, overlayVars>>

Callers == Clients \cup {"toggleKey"}
Methods == {"teleprompter", "telegram"}
NoCall    == <<"none", FALSE>>
NoRequest == <<"none", "teleprompter">>
Timers  == ({"grid"} \X (1 .. MaxPresses)) \cup ({"window"} \X (1 .. MaxChanges))

TimerStages == {"unarmed", "armed", "stopped", "fired", "steady", "windowSet",
                "canvasSet", "located",
                "committed", "decided", "freed", "done"}
Dormant == {"unarmed", "stopped", "done"}
Running == TimerStages \ (Dormant \cup {"armed"})

CaptureStages == {"idle", "fetched", "stored", "windowSet", "canvasSet", "hiding",
                  "grabbing", "restoring", "done"}

(* The captured window's rectangle and canvas after n moves.               *)
RectAfter(n)   == WindowRect(WindowAfter[n])
CanvasAfter(n) == CanvasBounds(WindowAfter[n])

MethodTypeOK ==
  /\ outputMethod \in Methods
  /\ pollerActive \in BOOLEAN
  /\ switching \in [Clients -> {NoRequest} \cup ({"store", "activate", "overlay"} \X Methods)]
  /\ switches \in 0 .. limits.switches
IntentTypeOK ==
  /\ intendedVisible \in BOOLEAN
  /\ toggles \in 0 .. limits.toggles
  /\ call \in [Callers -> {NoCall} \cup ({"set", "check", "send"} \X BOOLEAN)]
GridTypeOK ==
  /\ presses \in 0 .. Len(limits.arrows) /\ gridSpot \in Spots
  /\ fading \in BOOLEAN
  /\ gridTracker \in {"receive", "fade", "arm"}
MoveTypeOK ==
  /\ windowMoves \in 0 .. limits.moves /\ windowChanges \in 0 .. MaxChanges
  /\ lastWindowBounds \in Bounds
  /\ unstable \in BOOLEAN
  /\ windowTracker \in {"tick", "arm"}
TimerTypeOK ==
  timer \in [Timers -> [at : TimerStages, spot : Spots, settled : 0 .. limits.moves,
                        show : BOOLEAN]]
TextTypeOK ==
  /\ answered \in 0 .. limits.texts
  /\ texts \in 0 .. answered
  /\ adjusts \in 0 .. limits.adjusts /\ fontTracker \in {"receive", "send"}
CaptureTypeOK ==
  capture \in [Captures -> [at : CaptureStages, saw : 0 .. limits.moves]]
TypeOK ==
  /\ limits \in Scenarios
  /\ gFadeDuration \in {0, 1}
  /\ OverlayTypeOK
  /\ MethodTypeOK /\ IntentTypeOK /\ GridTypeOK /\ MoveTypeOK /\ TimerTypeOK
  /\ TextTypeOK /\ CaptureTypeOK

(* The daemon runs with OUTPUT_METHOD=teleprompter, its default.           *)
Init ==
  /\ limits \in Scenarios
  /\ gFadeDuration = IF limits.fades THEN 1 ELSE 0
  /\ OverlayInit(limits.visible, InitialSpot)
  /\ gWindow = IF limits.known THEN RectAfter(0) ELSE Nil
  /\ gCanvas = IF limits.known THEN CanvasAfter(0) ELSE Nil
  /\ intendedVisible = limits.visible
  /\ outputMethod = "teleprompter"
  /\ pollerActive = FALSE
  /\ toggles = 0
  /\ call = [c \in Callers |-> NoCall]
  /\ switching = [c \in Clients |-> NoRequest]
  /\ switches = 0
  /\ presses = 0
  /\ gridSpot = InitialSpot
  /\ fading = FALSE
  /\ gridTracker = "receive"
  /\ windowMoves = 0
  /\ windowChanges = 0
  /\ lastWindowBounds = gWindow
  /\ unstable = FALSE
  /\ windowTracker = "tick"
  /\ timer = [t \in Timers |-> [at |-> "unarmed", spot |-> InitialSpot, settled |-> 0,
                                show |-> FALSE]]
  /\ answered = 0
  /\ texts = 0
  /\ capture = [i \in Captures |-> [at |-> "idle", saw |-> 0]]
  /\ adjusts = 0
  /\ fontTracker = "receive"

-----------------------------------------------------------------------------
(***************************************************************************)
(* appkit.ShowOverlay and appkit.HideOverlay, as a caller executes them:   *)
(* nothing keeps the main thread, or another caller, out between the       *)
(* assignment, the test of gMoveInProgress and the dispatch.               *)
(***************************************************************************)
Calls(c, shown) == call' = [call EXCEPT ![c] = <<"set", shown>>]

SetsIntent(c) ==
  \E shown \in BOOLEAN :
    /\ call[c] = <<"set", shown>>
    /\ SetIntent(shown)
    /\ call' = [call EXCEPT ![c] = <<"check", shown>>]
    /\ UNCHANGED <<windowVars, intendedVisible, toggles, methodVars, gridVars,
                   moveVars, timer, textVars, capture>>

ChecksMove(c) ==
  \E shown \in BOOLEAN :
    /\ call[c] = <<"check", shown>>
    /\ call' = [call EXCEPT ![c] = IF gMoveInProgress THEN NoCall
                                                      ELSE <<"send", shown>>]
    /\ UNCHANGED <<overlayVars, intendedVisible, toggles, methodVars, gridVars,
                   moveVars, timer, textVars, capture>>

SendsIntent(c) ==
  \E shown \in BOOLEAN :
    /\ call[c] = <<"send", shown>>
    /\ DispatchIntent(shown)
    /\ call' = [call EXCEPT ![c] = NoCall]
    /\ UNCHANGED <<windowVars, intendedVisible, toggles, methodVars, gridVars,
                   moveVars, timer, textVars, capture>>

OverlayCall(c) == SetsIntent(c) \/ ChecksMove(c) \/ SendsIntent(c)

-----------------------------------------------------------------------------
(* trackToggles: one press of the toggle key.                              *)
Toggle ==
  /\ call["toggleKey"] = NoCall
  /\ toggles < limits.toggles
  /\ toggles' = toggles + 1
  /\ IF outputMethod = "teleprompter"
     THEN /\ intendedVisible' = ~intendedVisible
          /\ Calls("toggleKey", ~intendedVisible)
     ELSE UNCHANGED <<intendedVisible, call>>
  /\ UNCHANGED <<overlayVars, methodVars, gridVars, moveVars, timer, textVars,
                 capture>>

-----------------------------------------------------------------------------
(***************************************************************************)
(* SetOutputMethod, called by the handler of a client's `set` request.     *)
(***************************************************************************)
SetRequest(c) ==
  /\ switching[c] = NoRequest /\ call[c] = NoCall
  /\ switches < limits.switches
  /\ switches' = switches + 1
  /\ \E m \in Methods : switching' = [switching EXCEPT ![c] = <<"store", m>>]
  /\ UNCHANGED <<overlayVars, outputMethod, pollerActive, intentVars, gridVars,
                 moveVars, timer, textVars, capture>>

StoresMethod(c) ==
  \E m \in Methods :
    /\ switching[c] = <<"store", m>>
    /\ outputMethod' = m
    /\ switching' = [switching EXCEPT ![c] = <<"activate", m>>]
    /\ UNCHANGED <<overlayVars, pollerActive, switches, intentVars, gridVars,
                   moveVars, timer, textVars, capture>>

(* Slip: the poller is activated but never deactivated.                   *)
SetsPoller_OnlyOn(c) ==
  \E m \in Methods :
    /\ switching[c] = <<"activate", m>>
    /\ pollerActive' = (pollerActive \/ m = "telegram")
    /\ switching' = [switching EXCEPT ![c] = <<"overlay", m>>]
    /\ UNCHANGED <<overlayVars, outputMethod, switches, intentVars, gridVars,
                   moveVars, timer, textVars, capture>>

SetsPoller(c) ==
  \E m \in Methods :
    /\ switching[c] = <<"activate", m>>
    /\ pollerActive' = (m = "telegram")
    /\ switching' = [switching EXCEPT ![c] = <<"overlay", m>>]
    /\ UNCHANGED <<overlayVars, outputMethod, switches, intentVars, gridVars,
                   moveVars, timer, textVars, capture>>

SwitchesOverlay(c) ==
  \E m \in Methods :
    /\ switching[c] = <<"overlay", m>>
    /\ switching' = [switching EXCEPT ![c] = NoRequest]
    /\ IF m = "teleprompter" /\ ~intendedVisible
       THEN UNCHANGED call
       ELSE Calls(c, m = "teleprompter")
    /\ UNCHANGED <<overlayVars, outputMethod, pollerActive, switches,
                   intendedVisible, toggles, gridVars, moveVars, timer, textVars,
                   capture>>

SetOutputMethod(c) ==
  SetRequest(c) \/ StoresMethod(c) \/ SetsPoller(c) \/ SwitchesOverlay(c)

-----------------------------------------------------------------------------
(***************************************************************************)
(* A capture: fetchWindow, and then the screenshot goroutine.  The number  *)
(* of the capture tells the two selectors of one capture from those of     *)
(* another.                                                                *)
(***************************************************************************)
captureFrame == UNCHANGED <<windowVars, globalVars, intentVars, methodVars,
                            gridVars, timer, textVars>>
CaptureGoes(i, from, to) ==
  /\ capture[i].at = from
  /\ capture' = [capture EXCEPT ![i].at = to]
  /\ captureFrame

FetchesWindow(i) ==
  /\ capture[i].at = "idle"
  /\ capture' = [capture EXCEPT ![i] = [at |-> "fetched", saw |-> windowMoves]]
  /\ captureFrame /\ UNCHANGED moveVars /\ NoPost

StoresWindow(i) ==
  /\ CaptureGoes(i, "fetched", "stored")
  /\ lastWindowBounds' = RectAfter(capture[i].saw)
  /\ UNCHANGED <<windowMoves, windowChanges, unstable, windowTracker>> /\ NoPost

PublishesWindow(i) ==
  /\ CaptureGoes(i, "stored", "windowSet")
  /\ SetWindowBounds(RectAfter(capture[i].saw))
  /\ UNCHANGED moveVars

PublishesCanvas(i) ==
  /\ CaptureGoes(i, "windowSet", "canvasSet")
  /\ SetCanvasBounds(CanvasAfter(capture[i].saw))
  /\ UNCHANGED moveVars

HidesForCapture(i) ==
  /\ CaptureGoes(i, "canvasSet", "hiding")
  /\ Dispatch("orderOutForCapture", i)
  /\ UNCHANGED moveVars

(* Slip: the dispatch does not wait for the main thread.                   *)
Grabs_NoWait(i) ==
  /\ CaptureGoes(i, "hiding", "grabbing")
  /\ UNCHANGED moveVars /\ NoPost

(* CaptureCenter reads the framebuffer while the stage is "grabbing".      *)
Grabs(i) ==
  /\ Performed("orderOutForCapture", i)
  /\ CaptureGoes(i, "hiding", "grabbing")
  /\ UNCHANGED moveVars /\ NoPost

Restores(i) ==
  /\ CaptureGoes(i, "grabbing", "restoring")
  /\ Dispatch("orderInAfterCapture", i)
  /\ UNCHANGED moveVars

CaptureEnds(i) ==
  /\ Performed("orderInAfterCapture", i)
  /\ CaptureGoes(i, "restoring", "done")
  /\ UNCHANGED moveVars /\ NoPost

CaptureProceeds(i) ==
  \/ StoresWindow(i) \/ PublishesWindow(i) \/ PublishesCanvas(i) \/ HidesForCapture(i)
  \/ Grabs(i) \/ Restores(i) \/ CaptureEnds(i)

-----------------------------------------------------------------------------
(* processWithAIAndBroadcast: an answer comes in while the method is       *)
(* teleprompter, and is displayed whatever has happened since.  So does a  *)
(* trigger that clears the display: its text is one of EmptyTexts.         *)
Answer ==
  /\ outputMethod = "teleprompter"
  /\ answered < limits.texts
  /\ answered' = answered + 1
  /\ UNCHANGED <<overlayVars, intentVars, methodVars, gridVars, moveVars, timer,
                 texts, adjusts, fontTracker, capture>>

Display ==
  /\ texts < answered
  /\ texts' = texts + 1
  /\ Dispatch("updateText", texts + 1)
  /\ UNCHANGED <<windowVars, globalVars, intentVars, methodVars, gridVars,
                 moveVars, timer, answered, adjusts, fontTracker, capture>>

-----------------------------------------------------------------------------
(***************************************************************************)
(* trackTeleprompterGridPosition and trackWindowChanges.  A timer that is  *)
(* armed takes the place of the one before it, which is stopped if it has  *)
(* not fired yet.                                                          *)
(***************************************************************************)
Arm(t, spot) ==
  timer' = [u \in Timers |->
              IF u = t THEN [timer[u] EXCEPT !.at = "armed", !.spot = spot]
              ELSE IF u[1] = t[1] /\ timer[u].at = "armed"
                   THEN [timer[u] EXCEPT !.at = "stopped"]
                   ELSE timer[u]]

GridPress ==
  /\ gridTracker = "receive"
  /\ presses < Len(limits.arrows)
  /\ outputMethod = "teleprompter"
  /\ presses' = presses + 1
  /\ LET direction == limits.arrows[presses + 1]
     IN  gridSpot' = <<WrapPercent(gridSpot[1] + direction[1] * Step),
                       WrapPercent(gridSpot[2] + direction[2] * Step)>>
  /\ fading' = TRUE
  /\ gridTracker' = IF fading THEN "arm" ELSE "fade"
  /\ UNCHANGED <<overlayVars, intentVars, methodVars, moveVars, timer, textVars,
                 capture>>

GridFades ==
  /\ gridTracker = "fade"
  /\ gridTracker' = "arm"
  /\ IF intendedVisible THEN Dispatch("doFadeOutForMove", 0) ELSE NoPost
  /\ UNCHANGED <<globalVars, windowVars, intentVars, methodVars, presses, gridSpot,
                 fading, moveVars, timer, textVars, capture>>

GridArms ==
  /\ gridTracker = "arm"
  /\ gridTracker' = "receive"
  /\ Arm(<<"grid", presses>>, gridSpot)
  /\ UNCHANGED <<overlayVars, intentVars, methodVars, presses, gridSpot, fading,
                 moveVars, textVars, capture>>

(* The user moves or resizes the captured window.                          *)
WindowMoves ==
  /\ windowMoves < limits.moves
  /\ windowMoves' = windowMoves + 1
  /\ UNCHANGED <<overlayVars, intentVars, methodVars, gridVars, windowChanges,
                 lastWindowBounds, unstable, windowTracker, timer, textVars, capture>>

(* A tick of the window monitor that finds the rectangle changed; the      *)
(* callback of its timer will use what is `settled` now.                   *)
WindowChanges ==
  /\ windowTracker = "tick"
  /\ lastWindowBounds # Nil /\ lastWindowBounds # RectAfter(windowMoves)
  /\ windowChanges < MaxChanges
  /\ windowChanges' = windowChanges + 1
  /\ lastWindowBounds' = RectAfter(windowMoves)
  /\ timer' = [timer EXCEPT ![<<"window", windowChanges + 1>>].settled = windowMoves]
  /\ windowTracker' = "arm"
  /\ unstable' = TRUE
  /\ IF unstable THEN NoPost ELSE Dispatch("doHideForWindowChange", 0)
  /\ UNCHANGED <<globalVars, windowVars, intentVars, methodVars, gridVars, windowMoves,
                 textVars, capture>>

WindowArms ==
  /\ windowTracker = "arm"
  /\ windowTracker' = "tick"
  /\ Arm(<<"window", windowChanges>>, timer[<<"window", windowChanges>>].spot)
  /\ UNCHANGED <<overlayVars, intentVars, methodVars, gridVars, windowMoves,
                 windowChanges, lastWindowBounds, unstable, textVars, capture>>

-----------------------------------------------------------------------------
(***************************************************************************)
(* trackTeleprompterOverlayOpacity and trackTeleprompterTextFontSize: a    *)
(* key changes the size, or the opacity, and has the text rendered again.  *)
(***************************************************************************)
Adjusts ==
  /\ outputMethod = "teleprompter"
  /\ adjusts < limits.adjusts
  /\ adjusts' = adjusts + 1
  /\ UNCHANGED <<windowVars, intentVars, methodVars, gridVars, moveVars, timer, answered,
                 texts, capture>>

OpacityKey ==
  /\ Adjusts
  /\ Dispatch("reposition", 0) /\ UNCHANGED <<globalVars, fontTracker>>

FontKey ==
  /\ Adjusts
  /\ fontTracker = "receive" /\ fontTracker' = "send"
  /\ SetFontSize(gFontSize + 1) \/ SetFontSize(gFontSize - 1) \/ ResetFontSize

SendsReposition ==
  /\ fontTracker = "send" /\ fontTracker' = "receive"
  /\ Dispatch("reposition", 0)
  /\ UNCHANGED <<globalVars, windowVars, intentVars, methodVars, gridVars, moveVars, timer,
                 answered, texts, adjusts, capture>>

-----------------------------------------------------------------------------
(***************************************************************************)
(* The callbacks of the timers: `commit` for the grid, the function around *)
(* restoreAfterWindowSettle for the window.  Each runs in a goroutine of   *)
(* its own, so callbacks overlap unless the scenario says prompt.           *)
(***************************************************************************)
Moves(t, from, to) ==
  /\ timer[t].at = from
  /\ timer' = [timer EXCEPT ![t].at = to]

timerFrame == UNCHANGED <<windowVars, intentVars, methodVars, presses, gridSpot,
                          gridTracker, windowMoves, windowChanges, lastWindowBounds,
                          windowTracker, textVars, capture>>
timerPosts == timerFrame /\ UNCHANGED <<globalVars, fading, unstable>>
timerOnly  == timerPosts /\ NoPost

Fires(t) ==
  /\ limits.prompt => \A u \in Timers : timer[u].at \notin Running
  /\ Moves(t, "armed", IF t[1] = "grid" THEN "located" ELSE "fired")
  /\ timerOnly

WindowSteady(t) ==
  /\ Moves(t, "fired", "steady")
  /\ unstable' = FALSE
  /\ timerFrame /\ UNCHANGED <<globalVars, fading>> /\ NoPost

SettlesWindow(t) ==
  /\ Moves(t, "steady", "windowSet")
  /\ SetWindowBounds(RectAfter(timer[t].settled))
  /\ timerFrame /\ UNCHANGED <<fading, unstable>>

SettlesCanvas(t) ==
  /\ Moves(t, "windowSet", "canvasSet")
  /\ SetCanvasBounds(CanvasAfter(timer[t].settled))
  /\ timerFrame /\ UNCHANGED <<fading, unstable>>

LocatesSpot(t) ==
  /\ timer[t].at = "canvasSet"
  /\ timer' = [timer EXCEPT ![t].at = "located", ![t].spot = gridSpot]
  /\ timerOnly

CommitsMove(t) ==
  /\ Moves(t, "located", "committed")
  /\ Post(Commit(timer[t].spot))
  /\ timerPosts

ReadsIntended(t) ==
  /\ timer[t].at = "committed"
  /\ timer' = [timer EXCEPT ![t].at = "decided", ![t].show = intendedVisible]
  /\ timerOnly

EndsFading(t) ==
  /\ t[1] = "grid"
  /\ Moves(t, "decided", "freed")
  /\ fading' = FALSE
  /\ timerFrame /\ UNCHANGED <<globalVars, unstable>> /\ NoPost

FadesInAfterMove(t) ==
  /\ Moves(t, IF t[1] = "grid" THEN "freed" ELSE "decided", "done")
  /\ IF timer[t].show THEN Dispatch("doFadeInAfterMove", 0) ELSE NoPost
  /\ timerPosts

Callback(t) ==
  \/ WindowSteady(t) \/ SettlesWindow(t) \/ SettlesCanvas(t) \/ LocatesSpot(t)
  \/ CommitsMove(t) \/ ReadsIntended(t) \/ EndsFading(t) \/ FadesInAfterMove(t)

-----------------------------------------------------------------------------
GridTracker == GridFades \/ GridArms

(* Steps that the main thread, a timer or a started call takes by itself.  *)
Daemon ==
  \/ MainThread /\ UNCHANGED goVars
  \/ \E c \in Callers : OverlayCall(c)
  \/ \E c \in Clients : StoresMethod(c) \/ SetsPoller(c) \/ SwitchesOverlay(c)
  \/ \E i \in Captures : CaptureProceeds(i)
  \/ Display \/ GridTracker \/ WindowArms \/ WindowChanges \/ SendsReposition
  \/ \E t \in Timers : Fires(t) \/ Callback(t)

(* What the user, the answers and the captured window start.               *)
Environment ==
  \/ Toggle \/ GridPress \/ WindowMoves \/ Answer \/ OpacityKey \/ FontKey
  \/ \E c \in limits.clients : SetRequest(c)
  \/ \E i \in limits.captures : FetchesWindow(i)

Next == (Daemon \/ Environment) /\ UNCHANGED <<limits, gFadeDuration>>

Safety == Init /\ [][Next]_vars

(* The main thread pumps its run loop at 60 Hz, timers fire and goroutines *)
(* are scheduled; nobody has to press a key or move a window.              *)
Fairness ==
  /\ WF_vars(MainThread /\ UNCHANGED <<limits, gFadeDuration, goVars>>)
  /\ \A t \in Timers :
       WF_vars((Fires(t) \/ Callback(t)) /\ UNCHANGED <<limits, gFadeDuration>>)
  /\ WF_vars((GridTracker \/ WindowArms \/ WindowChanges) /\ UNCHANGED <<limits, gFadeDuration>>)

Spec == Safety /\ Fairness

-----------------------------------------------------------------------------
(***************************************************************************)
(*                               PROPERTIES                                *)
(***************************************************************************)
(* Nothing is under way: every selector and completion handler has run,    *)
(* every call has returned and every timer has gone off or been stopped.   *)
Quiescent ==
  /\ mainQueue = <<>> /\ completions = {}
  /\ \A c \in Callers : call[c] = NoCall
  /\ \A c \in Clients : switching[c] = NoRequest
  /\ gridTracker = "receive" /\ windowTracker = "tick" /\ fontTracker = "receive"
  /\ lastWindowBounds \in {Nil, RectAfter(windowMoves)}
  /\ \A t \in Timers : timer[t].at \in Dormant
  /\ texts = answered
  /\ \A i \in Captures : capture[i].at \in {"idle", "done"}

(* Once everything has come to rest the overlay is on the screen exactly   *)
(* when the user's toggles ask for it and the method is teleprompter,      *)
(* however the fades, moves, captures and switches before that overlapped. *)
ShownAsIntended ==
  Quiescent => (Shown <=> intendedVisible /\ outputMethod = "teleprompter")

(* "The overlay is hidden synchronously before each screen capture and      *)
(* restored after": a screenshot never contains the overlay.               *)
CaptureIsolation ==
  \A i \in Captures : capture[i].at = "grabbing" => ~Shown

(* The same for a capture that shares the overlay with nothing but the     *)
(* texts that are displayed: their crossfades, begun before it or while it *)
(* runs, do not bring the window back before the framebuffer was read.     *)
Undisturbed ==
  /\ toggles = 0 /\ switches = 0 /\ presses = 0 /\ windowMoves = 0
  /\ Cardinality({i \in Captures : capture[i].at # "idle"}) <= 1
LoneCaptureIsolated == Undisturbed => CaptureIsolation

(* Once everything has come to rest the label shows the text that was      *)
(* displayed last: no crossfade loses a text or brings an older one back.  *)
LatestTextApplied == Quiescent => gCurrentText = texts

(* The same when texts do not crossfade, whatever toggles and captures do  *)
(* to the window at the time.                                              *)
UnfadedTextApplied == gFadeDuration = 0 => LatestTextApplied

(* A frame, from what it was computed from.                                *)
Frame(p) ==
  IF Area(p.window, p.canvas) = Nil THEN EdgeFrame(LabelSize[<<p.text, p.font>>])
  ELSE SpotFrame(p.window, p.canvas, p.spot, LabelSize[<<p.text, p.font>>])

(* The frame of a text at the grid's present spot in the present window.   *)
FrameWanted ==
  SpotFrame(RectAfter(windowMoves), CanvasAfter(windowMoves), gridSpot,
            LabelSize[<<gCurrentText, gFontSize>>])

(* Once everything has come to rest the text is at the spot the last grid  *)
(* key chose, in the window as it is, and has the size the last font key   *)
(* chose.                                                                  *)
PlacedAsWanted ==
  Quiescent /\ gCurrentText \notin EmptyTexts => Frame(placed) = FrameWanted

(* The same if no two callbacks of the debounce timers overlapped and the  *)
(* window was not captured while it moved.                                 *)
PromptMoveReachesSpot ==
  limits.prompt /\ limits.known
    /\ (windowMoves = 0 \/ \A i \in Captures : capture[i].at = "idle") => PlacedAsWanted

(* A frame keeps the margin of the bounds it was computed from, whether    *)
(* they belong to one window or are half written.                          *)
FrameKeepsMargin ==
  placed # Nil /\ Area(placed.window, placed.canvas) # Nil =>
    KeepsMargin(placed.window, placed.canvas, placed.spot, LabelSize[<<placed.text, placed.font>>])

(* A frame that can be seen was computed from the bounds of one window.    *)
ShownFrameIsWhole ==
  Shown /\ placed # Nil /\ Area(placed.window, placed.canvas) # Nil =>
    \E n \in DOMAIN WindowAfter :
      placed.window = RectAfter(n) /\ placed.canvas = CanvasAfter(n)

(* When no SetOutputMethod is under way, subscribers are polled for        *)
(* exactly when answers go to telegram.                                    *)
PollerMatchesMethod ==
  (\A c \in Clients : switching[c] = NoRequest)
    => (pollerActive <=> outputMethod = "telegram")

(* The same as long as one client at most sends `set` requests: the steps  *)
(* of two that overlap leave the poller on for the wrong method.           *)
LonePollerMatches == Cardinality(limits.clients) <= 1 => PollerMatchesMethod
=============================================================================

--------------------------- MODULE OverlayWindow ---------------------------
(***************************************************************************)
(* The overlay window of src/bridges/appkit/window.go as the main thread   *)
(* sees it: selectors that other threads dispatch with                     *)
(* performSelectorOnMainThread are executed one by one in the order of     *)
(* dispatch, and the completion handlers of fades run later.               *)
(*                                                                         *)
(* The window's alpha is the value its last animation leads to.  Texts are *)
(* numbers: the n-th text displayed.  The frame of the window is kept as   *)
(* what it was computed from.                                              *)
(* A definition marked Slip is a wrong variant of the one that follows it; *)
(* it is no part of the specification.                                     *)
(***************************************************************************)
EXTENDS GridSpot, Sequences

CONSTANTS
  EmptyTexts,               (* the texts that clear the display, and 0      *)
  MinFont, MaxFont, DefaultFont, (* sizes in half points                    *)
  LabelSize                 (* <<text, font size>> -> what the label takes  *)

FontSizes == (MinFont .. MaxFont) \cup {DefaultFont}
Texts == {size[1] : size \in DOMAIN LabelSize}

ASSUME OverlayWindowAssumption ==
  /\ {MinFont, MaxFont, DefaultFont} \subseteq Nat /\ MinFont <= MaxFont
  /\ LabelSize \in [Texts \X FontSizes -> Sizes]
  /\ 0 \in EmptyTexts /\ EmptyTexts \subseteq Nat /\ 0 \in Texts /\ Texts \subseteq Nat

VARIABLES
  gFadeDuration,         (* 0 (no crossfades) or 1; set by configureOverlay *)
  mainQueue,             (* selectors dispatched and not yet executed       *)
  gIntendedVisible,      (* written by the dispatching threads              *)
  gMoveInProgress,       (* a move hides the window until it is committed   *)
  gOverlayInterpolation, (* 0 hidden, 1 visible                             *)
  visible,               (* is the window ordered in ([_window isVisible])? *)
  alphaValue,            (* 0 or 1: where the window's alpha is heading     *)
  fadingIn,              (* may a fade to 1 still be running?               *)
  generation,            (* guard of the completion handlers                *)
  completions,           (* completion handlers that have not run yet       *)
  gCurrentText,          (* the text the label shows                        *)
  gGridSpot,             (* (gGridCol, gGridRow): the spot last committed   *)
  gWindow, gCanvas,      (* gWindowX ... and gCanvasX ..., nil before a     *)
                         (* capture or, the canvas, for no browser          *)
  gFontSize,             (* the size a text is rendered with                *)
  labelFont,             (* the size the label's text was rendered with     *)
  placed                 (* what the frame was computed from, nil at first  *)

globalVars == <<gIntendedVisible, gMoveInProgress>>
sharedVars == <<gWindow, gCanvas, gFontSize>>
frameVars  == <<gGridSpot, labelFont, placed>>
windowVars == <<gOverlayInterpolation, visible, alphaValue, fadingIn, generation,
                completions, gCurrentText, frameVars>>
overlayVars == <<mainQueue, globalVars, sharedVars, windowVars>>

Selectors == {"showWindow", "hideWindow", "updateText", "orderOutForCapture",
              "orderInAfterCapture", "doFadeOutForMove", "doHideForWindowChange",
              "doCommitMove", "doFadeInAfterMove", "reposition"}

Items  == [sel : Selectors, arg : Nat, spot : Spots]
Bounds == Rectangles \cup {Nil}
Placements == [window : Bounds, canvas : Bounds, spot : Spots, text : Texts,
               font : FontSizes]

QueueTypeOK ==
  /\ mainQueue \in Seq(Items)
  /\ \A i \in DOMAIN mainQueue :
       mainQueue[i].sel = "updateText" => mainQueue[i].arg \in Texts
GlobalTypeOK ==
  /\ gIntendedVisible \in BOOLEAN
  /\ gMoveInProgress \in BOOLEAN
SharedTypeOK ==
  /\ gWindow \in Bounds /\ gCanvas \in Bounds
  /\ gFontSize \in FontSizes
FadeTypeOK ==
  /\ gOverlayInterpolation \in {0, 1}
  /\ visible \in BOOLEAN
  /\ alphaValue \in {0, 1}
  /\ fadingIn \in BOOLEAN
  /\ generation \in Nat
  /\ completions \subseteq [kind : {"hide", "text"}, gen : Nat, text : Texts]
FrameTypeOK ==
  /\ gCurrentText \in Texts
  /\ gGridSpot \in Spots
  /\ labelFont \in FontSizes
  /\ placed = Nil \/ placed \in Placements
OverlayTypeOK ==
  QueueTypeOK /\ GlobalTypeOK /\ SharedTypeOK /\ FadeTypeOK /\ FrameTypeOK

(* Can the user, or a screenshot, see the overlay?                         *)
Shown == visible /\ alphaValue = 1

Item(sel, arg) == [sel |-> sel, arg |-> arg, spot |-> <<0, 0>>]
Commit(spot)   == [sel |-> "doCommitMove", arg |-> 0, spot |-> spot]

(* teleprompter.New: the window starts hidden, or showing if configured;   *)
(* the pipeline's Run commits the configured spot.  The spot before it is  *)
(* the centre, rounded to the grid.  Nothing below changes gFadeDuration.  *)
OverlayInit(shown, spot) ==
  /\ gIntendedVisible = shown
  /\ mainQueue = IF shown THEN <<Item("showWindow", 0), Commit(spot)>>
                         ELSE <<Commit(spot)>>
  /\ gMoveInProgress = FALSE
  /\ gOverlayInterpolation = 0
  /\ visible = FALSE
  /\ alphaValue = 0
  /\ fadingIn = FALSE
  /\ generation = 0
  /\ completions = {}
  /\ gCurrentText = 0
  /\ gGridSpot = <<GridUnits \div 2, GridUnits \div 2>>
  /\ gFontSize = DefaultFont /\ labelFont = DefaultFont
  /\ placed = Nil

-----------------------------------------------------------------------------
(***************************************************************************)
(* What other threads call.  Each of these updates mainQueue and the       *)
(* globals and leaves the window alone.                                    *)
(***************************************************************************)
Post(item) == mainQueue' = Append(mainQueue, item) /\ UNCHANGED sharedVars
NoPost == UNCHANGED <<mainQueue, sharedVars>>
Dispatch(sel, arg) == Post(Item(sel, arg))

(* showOverlay and hideOverlay set the intent first ...                    *)
SetIntent(shown) ==
  /\ gIntendedVisible' = shown
  /\ UNCHANGED <<mainQueue, gMoveInProgress, sharedVars>>

(* ... and then, unless gMoveInProgress is seen, dispatch the change.      *)
DispatchIntent(shown) ==
  /\ Dispatch(IF shown THEN "showWindow" ELSE "hideWindow", 0)
  /\ UNCHANGED globalVars

(* waitUntilDone:YES - the caller goes on once its selector has run.       *)
Performed(sel, arg) ==
  \A i \in DOMAIN mainQueue : mainQueue[i] # Item(sel, arg)

(* setOverlayWindowBounds and setOverlayCanvasBounds: the main thread may  *)
(* compute a frame between the two.                                        *)
SetWindowBounds(rect) ==
  /\ gWindow' = rect
  /\ UNCHANGED <<mainQueue, globalVars, gCanvas, gFontSize>>
SetCanvasBounds(rect) ==
  /\ gCanvas' = rect
  /\ UNCHANGED <<mainQueue, globalVars, gWindow, gFontSize>>

(* setFontSize and resetFontSize write the size and dispatch `reposition`. *)
SetFontSize(size) ==
  /\ gFontSize' = Lesser(Greater(size, MinFont), MaxFont)
  /\ UNCHANGED <<mainQueue, globalVars, gWindow, gCanvas>>
ResetFontSize ==
  /\ gFontSize' = DefaultFont
  /\ UNCHANGED <<mainQueue, globalVars, gWindow, gCanvas>>

-----------------------------------------------------------------------------
(***************************************************************************)
(* The selectors, executed by the main thread.                             *)
(***************************************************************************)
FadeIn ==
  /\ generation' = generation + 1
  /\ alphaValue' = 1
  /\ fadingIn' = TRUE

FadeOut ==
  /\ generation' = generation + 1
  /\ alphaValue' = 0
  /\ fadingIn' = FALSE

(* Does gridSpotFrame have a text and an area to place it in?              *)
Placeable(text) == text \notin EmptyTexts /\ Area(gWindow, gCanvas) # Nil

Placement(spot, text, font) ==
  [window |-> IF Placeable(text) THEN gWindow ELSE Nil,
   canvas |-> IF Placeable(text) THEN gCanvas ELSE Nil,
   spot |-> spot, text |-> text, font |-> font]

(* _applyText renders the text and places the window, at the edge of the   *)
(* screen if there is no area.                                             *)
AppliesText(text) ==
  /\ gCurrentText' = text
  /\ labelFont' = gFontSize
  /\ placed' = Placement(gGridSpot, text, gFontSize)
  /\ UNCHANGED gGridSpot

OnCompletion(kind, text) ==
  completions' = completions \cup
                   {[kind |-> kind, gen |-> generation + 1, text |-> text]}

showWindow ==
  /\ IF gOverlayInterpolation = 1 /\ visible
     THEN UNCHANGED <<gOverlayInterpolation, visible, alphaValue, fadingIn,
                      generation>>
     ELSE /\ gOverlayInterpolation' = 1
          /\ visible' = TRUE
          /\ FadeIn
  /\ UNCHANGED <<globalVars, completions, gCurrentText, frameVars>>

hideWindow ==
  /\ IF visible
     THEN /\ gOverlayInterpolation' = 0
          /\ FadeOut
          /\ OnCompletion("hide", 0)
     ELSE UNCHANGED <<gOverlayInterpolation, alphaValue, fadingIn, generation,
                      completions>>
  /\ UNCHANGED <<globalVars, visible, gCurrentText, frameVars>>

(* Slip: a window that is not shown is not given the text.                 *)
updateText_IfVisible(text) ==
  /\ IF visible
     THEN IF gFadeDuration > 0
          THEN /\ FadeOut
               /\ OnCompletion("text", text)
               /\ UNCHANGED <<gCurrentText, frameVars>>
          ELSE /\ AppliesText(text)
               /\ UNCHANGED <<alphaValue, fadingIn, generation, completions>>
     ELSE UNCHANGED <<gCurrentText, alphaValue, fadingIn, generation, completions,
                      frameVars>>
  /\ UNCHANGED <<globalVars, gOverlayInterpolation, visible>>

updateText(text) ==
  /\ IF gFadeDuration > 0 /\ visible
     THEN /\ FadeOut
          /\ OnCompletion("text", text)
          /\ UNCHANGED <<gCurrentText, frameVars>>
     ELSE /\ AppliesText(text)
          /\ UNCHANGED <<alphaValue, fadingIn, generation, completions>>
  /\ UNCHANGED <<globalVars, gOverlayInterpolation, visible>>

orderOutForCapture ==
  /\ visible' = FALSE
  /\ UNCHANGED <<globalVars, gOverlayInterpolation, alphaValue, fadingIn,
                 generation, completions, gCurrentText, frameVars>>

orderInAfterCapture ==
  /\ IF gIntendedVisible /\ ~gMoveInProgress
     THEN /\ alphaValue' = gOverlayInterpolation
          /\ visible' = TRUE
          /\ fadingIn' = FALSE
     ELSE UNCHANGED <<alphaValue, visible, fadingIn>>
  /\ UNCHANGED <<globalVars, gOverlayInterpolation, generation, completions,
                 gCurrentText, frameVars>>

(* [_window alphaValue] is read in the middle of a fade: a fade-in that has *)
(* only begun may still read 0, a fade-out that has not ended reads more.  *)
doFadeOutForMove ==
  /\ IF gMoveInProgress
     THEN UNCHANGED <<gMoveInProgress, gOverlayInterpolation, alphaValue,
                      fadingIn, generation>>
     ELSE /\ gMoveInProgress' = TRUE
          /\ gOverlayInterpolation' = 0
          /\ \/ /\ ~visible \/ alphaValue = 0 \/ fadingIn
                /\ UNCHANGED <<alphaValue, fadingIn, generation>>
             \/ /\ visible
                /\ alphaValue = 1 \/ completions # {}
                /\ FadeOut
  /\ UNCHANGED <<gIntendedVisible, visible, completions, gCurrentText, frameVars>>

doHideForWindowChange ==
  /\ IF gMoveInProgress
     THEN UNCHANGED <<gMoveInProgress, gOverlayInterpolation, alphaValue,
                      fadingIn, generation>>
     ELSE /\ gMoveInProgress' = TRUE
          /\ gOverlayInterpolation' = 0
          /\ FadeOut
  /\ UNCHANGED <<gIntendedVisible, visible, completions, gCurrentText, frameVars>>

doCommitMove(spot) ==
  /\ gGridSpot' = spot
  /\ placed' = IF Placeable(gCurrentText) THEN Placement(spot, gCurrentText, labelFont)
                ELSE placed
  /\ UNCHANGED <<globalVars, gOverlayInterpolation, visible, alphaValue, fadingIn,
                 generation, completions, gCurrentText, labelFont>>

(* Slip: a new size is rendered but the window keeps its frame.            *)
reposition_KeepsFrame ==
  /\ labelFont' = IF gCurrentText \in EmptyTexts THEN labelFont ELSE gFontSize
  /\ UNCHANGED <<globalVars, gOverlayInterpolation, visible, alphaValue, fadingIn,
                 generation, completions, gCurrentText, gGridSpot, placed>>

reposition ==
  /\ labelFont' = IF gCurrentText \in EmptyTexts THEN labelFont ELSE gFontSize
  /\ placed' = IF Placeable(gCurrentText) THEN Placement(gGridSpot, gCurrentText, gFontSize)
                ELSE placed
  /\ UNCHANGED <<globalVars, gOverlayInterpolation, visible, alphaValue, fadingIn,
                 generation, completions, gCurrentText, gGridSpot>>

doFadeInAfterMove ==
  /\ gMoveInProgress' = FALSE
  /\ IF gIntendedVisible
     THEN /\ gOverlayInterpolation' = 1
          /\ visible' = TRUE
          /\ FadeIn
     ELSE /\ visible' = FALSE
          /\ UNCHANGED <<gOverlayInterpolation, alphaValue, fadingIn, generation>>
  /\ UNCHANGED <<gIntendedVisible, completions, gCurrentText, frameVars>>

Execute(item) ==
  \/ item.sel = "showWindow"            /\ showWindow
  \/ item.sel = "hideWindow"            /\ hideWindow
  \/ item.sel = "updateText"            /\ updateText(item.arg)
  \/ item.sel = "orderOutForCapture"    /\ orderOutForCapture
  \/ item.sel = "orderInAfterCapture"   /\ orderInAfterCapture
  \/ item.sel = "doFadeOutForMove"      /\ doFadeOutForMove
  \/ item.sel = "doHideForWindowChange" /\ doHideForWindowChange
  \/ item.sel = "doCommitMove"          /\ doCommitMove(item.spot)
  \/ item.sel = "doFadeInAfterMove"     /\ doFadeInAfterMove
  \/ item.sel = "reposition"            /\ reposition

PerformSelector ==
  /\ mainQueue # <<>>
  /\ Execute(Head(mainQueue))
  /\ mainQueue' = Tail(mainQueue)
  /\ UNCHANGED sharedVars

(* Slip: the completion of an overtaken fade still orders the window out.  *)
HideCompletes_NoGuard(c) ==
  /\ c.kind = "hide"
  /\ completions' = completions \ {c}
  /\ visible' = FALSE
  /\ UNCHANGED <<mainQueue, globalVars, sharedVars, gOverlayInterpolation,
                 alphaValue, fadingIn, generation, gCurrentText, frameVars>>

(* A fade-out has ended: its completion handler runs, to no effect if a    *)
(* later fade has taken over.                                              *)
HideCompletes(c) ==
  /\ c.kind = "hide"
  /\ completions' = completions \ {c}
  /\ visible' = IF c.gen = generation THEN FALSE ELSE visible
  /\ UNCHANGED <<mainQueue, globalVars, sharedVars, gOverlayInterpolation,
                 alphaValue, fadingIn, generation, gCurrentText, frameVars>>

TextCompletes(c) ==
  /\ c.kind = "text"
  /\ completions' = completions \ {c}
  /\ IF c.gen = generation
     THEN /\ AppliesText(c.text)
          /\ alphaValue' = 1
          /\ fadingIn' = TRUE
     ELSE UNCHANGED <<gCurrentText, alphaValue, fadingIn, frameVars>>
  /\ UNCHANGED <<mainQueue, globalVars, sharedVars, gOverlayInterpolation,
                 visible, generation>>

FadeInEnds ==
  /\ fadingIn
  /\ fadingIn' = FALSE
  /\ UNCHANGED <<mainQueue, globalVars, sharedVars, gOverlayInterpolation,
                 visible, alphaValue, generation, completions, gCurrentText, frameVars>>

MainThread ==
  \/ PerformSelector
  \/ \E c \in completions : HideCompletes(c) \/ TextCompletes(c)
  \/ FadeInEnds
=============================================================================

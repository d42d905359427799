----------------------------- MODULE MCOverlay -----------------------------
(***************************************************************************)
(* Model-checking instances of Overlay: the scenarios of each run.  A      *)
(* scenario gives a few actors something to do and leaves the others idle: *)
(* which actors disturb which promise is what the runs are about.          *)
(***************************************************************************)
EXTENDS Overlay

CONSTANTS c1, c2

(* Left and up, in thirds: from 0 % round to the far side, and from 100 %. *)
LeftUp == <<<<-1, 0>>, <<0, -1>>>>
Start  == <<0, 3>>

Idle == [toggles |-> 0, arrows |-> <<>>, moves |-> 0, texts |-> 0, adjusts |-> 0,
         switches |-> 0, captures |-> {}, clients |-> {}, visible |-> TRUE,
         fades |-> TRUE, prompt |-> FALSE, known |-> TRUE]

(* Toggles whose fades overlap, around two captures.                       *)
Toggles == [Idle EXCEPT !.toggles = 4, !.captures = {1, 2}, !.visible = FALSE,
                        !.known = FALSE]

(* Grid keys and window moves whose timers and callbacks overlap freely.   *)
Moves2 == [Idle EXCEPT !.arrows = LeftUp, !.moves = 1]

(* A capture, and an answer, while the overlay is moved by a grid key or   *)
(* hidden because the captured window moves.                               *)
GridAndCapture   == [Idle EXCEPT !.arrows = <<<<0, -1>>>>, !.texts = 1, !.captures = {1}]
WindowAndCapture == [Idle EXCEPT !.moves = 1, !.texts = 1, !.captures = {1}]

(* Grid keys and window moves whose callbacks do not overlap, with a text; *)
(* and the keys with a capture of a window that stands still.              *)
PromptKeys  == [Idle EXCEPT !.arrows = LeftUp, !.moves = 1, !.texts = 1, !.fades = FALSE,
                            !.prompt = TRUE]
PromptMoves == [Idle EXCEPT !.arrows = <<<<0, -1>>>>, !.moves = 2, !.texts = 1, !.fades = FALSE, !.prompt = TRUE]
PromptCapture == [Idle EXCEPT !.arrows = LeftUp, !.texts = 1, !.fades = FALSE,
                              !.captures = {1}, !.prompt = TRUE]

(* A text whose size changes while it is moved.                            *)
Adjusting == [Idle EXCEPT !.arrows = <<<<0, -1>>>>, !.adjusts = 2, !.texts = 1,
                          !.fades = FALSE, !.prompt = TRUE]

(* Crossfading texts around one capture.                                   *)
Crossfades == [Idle EXCEPT !.texts = 3, !.captures = {1}]

(* One client switching the output method, around a capture.               *)
Switching == [Idle EXCEPT !.switches = 4, !.captures = {1}, !.clients = {c1}]

(* Toggles, texts and a capture with the crossfade turned off.             *)
NoFades == [Idle EXCEPT !.toggles = 2, !.texts = 2, !.captures = {1}, !.fades = FALSE]

Sound == {Toggles, Adjusting, Moves2, GridAndCapture, WindowAndCapture, PromptKeys, PromptMoves, PromptCapture, Crossfades,
          Switching, NoFades}

(* A screen of 8 by 6 pixels.  The window is inside it, then moves across  *)
(* its right edge, and then is a browser's no longer high enough for a     *)
(* toolbar.                                                                *)
Toolbars == [app \in {"Safari"} |-> 2]
Places == <<[app |-> "Safari", x |-> 1, y |-> 0, width |-> 5, height |-> 5],
            [app |-> "Safari", x |-> 4, y |-> 1, width |-> 5, height |-> 5],
            [app |-> "Safari", x |-> 0, y |-> 2, width |-> 8, height |-> 2]>>
WindowAt == [n \in 0 .. 2 |-> Places[n + 1]]

(* A text is as wide as its number, but the smallest size halves it; the   *)
(* second one is empty.                                                    *)
Labels == [of \in (0 .. 3) \X (1 .. 3) |->
             [width |-> IF of[1] = 0 THEN 1 ELSE of[1] + of[2] - 1, height |-> of[2]]]

(* Two captures that overlap: the run that looks for a violation.          *)
TwoCaptures == {[Idle EXCEPT !.captures = {1, 2}]}
=============================================================================

------------------------- MODULE OverlayRestProofs -------------------------
(***************************************************************************)
(* Proofs about what Overlay promises once everything has come to rest,    *)
(* for every set of scenarios, captures and clients, every window and      *)
(* every bound: the text is where the last grid key put it, and the        *)
(* overlay is on the screen exactly when it should be.                     *)
(***************************************************************************)
EXTENDS OverlayProofs

(***************************************************************************)
(* The debounce timers.  Of each kind the latest one is armed unless its   *)
(* tracker is about to, and an earlier one that has fired is done before   *)
(* the latest one fires, if the scenario says prompt.                      *)
(***************************************************************************)
GridArming   == gridTracker # "receive"
WindowArming == windowTracker = "arm"

TimersInOrder(T, prompt, kind, latest, arming) ==
  /\ arming => latest > 0
  /\ \A t \in Timers : t[1] = kind =>
       /\ t[2] > latest => T[t].at = "unarmed"
       /\ t[2] = latest => (arming <=> T[t].at = "unarmed") /\ T[t].at # "stopped"
       /\ t[2] < latest /\ T[t].at = "armed" => arming
       /\ t[2] < latest /\ T[t].at \in Running /\ prompt =>
            T[<<kind, latest>>].at \in {"unarmed", "armed"}

OneRuns(T, prompt) ==
  prompt => \A t, u \in Timers : T[t].at \in Running /\ T[u].at \in Running => t = u

Settling == {"fired", "steady", "windowSet", "canvasSet"}

TimerOrder ==
  /\ TimersInOrder(timer, limits.prompt, "grid", presses, GridArming)
  /\ TimersInOrder(timer, limits.prompt, "window", windowChanges, WindowArming)
  /\ OneRuns(timer, limits.prompt)
  /\ \A t \in Timers : t[1] = "grid" => timer[t].at \notin Settling

LEMMA TimerNames ==
  /\ \A t \in Timers : /\ t[1] \in {"grid", "window"} /\ t[2] \in Nat /\ t[2] > 0
                       /\ t = <<t[1], t[2]>>
  /\ \A n \in 1 .. MaxPresses : <<"grid", n>> \in Timers
  /\ \A n \in 1 .. MaxChanges : <<"window", n>> \in Timers
  /\ MaxPresses \in Nat /\ MaxChanges \in Nat
BY OverlayAssumption DEF Timers

LEMMA LatestTimers ==
  ASSUME TypeOK
  PROVE  /\ presses \in 0 .. MaxPresses /\ windowChanges \in 0 .. MaxChanges
         /\ Len(limits.arrows) \in 0 .. MaxPresses
         /\ presses > 0 => <<"grid", presses>> \in Timers
         /\ windowChanges > 0 => <<"window", windowChanges>> \in Timers
<1>1. Len(limits.arrows) \in 0 .. MaxPresses
  <2>1. limits.arrows \in UNION {[1 .. n -> Directions] : n \in 0 .. MaxPresses}
    BY OverlayAssumption DEF TypeOK, Scenario
  <2>2. PICK n \in 0 .. MaxPresses : limits.arrows \in [1 .. n -> Directions]
    BY <2>1
  <2>3. limits.arrows \in Seq(Directions) /\ n \in Nat
    BY <2>2, TimerNames, ScenarioType DEF TypeOK
  <2>4. Len(limits.arrows) \in Nat /\ DOMAIN limits.arrows = 1 .. Len(limits.arrows)
    BY <2>3, LenProperties
  <2>5. 1 .. Len(limits.arrows) = 1 .. n
    BY <2>2, <2>4
  <2>6. Len(limits.arrows) = n
    <3> DEFINE l == Len(limits.arrows)
    <3> HIDE DEF l
    <3>1. l \in Nat /\ 1 .. l = 1 .. n
      BY <2>4, <2>5 DEF l
    <3>2. l <= n /\ n <= l
      <4>1. l > 0 => l \in 1 .. n
        BY <3>1
      <4>2. n > 0 => n \in 1 .. l
        BY <2>3, <3>1
      <4> QED BY <2>3, <3>1, <4>1, <4>2
    <3> QED BY <2>3, <3>1, <3>2 DEF l
  <2> QED BY <2>2, <2>6
<1>2. presses \in 0 .. MaxPresses /\ windowChanges \in 0 .. MaxChanges
  BY <1>1, TimerNames DEF TypeOK, GridTypeOK, MoveTypeOK
<1> QED BY <1>1, <1>2, TimerNames

\* What keeps the stage of every timer of a kind keeps their order.
LEMMA OrderKept ==
  ASSUME NEW T, NEW U, NEW prompt, NEW kind, NEW latest \in Nat, NEW arming \in BOOLEAN,
         TimersInOrder(T, prompt, kind, latest, arming),
         latest > 0 => <<kind, latest>> \in Timers,
         \A t \in Timers : t[1] = kind => U[t].at = T[t].at
  PROVE  TimersInOrder(U, prompt, kind, latest, arming)
<1>1. latest > 0 => U[<<kind, latest>>].at = T[<<kind, latest>>].at
  OBVIOUS
<1>2. \A t \in Timers : t[2] < latest => latest > 0
  BY TimerNames
<1> QED BY <1>1, <1>2 DEF TimersInOrder

LEMMA OrderCounted ==
  ASSUME NEW T, NEW prompt, NEW kind, NEW latest \in Nat, <<kind, latest + 1>> \in Timers,
         TimersInOrder(T, prompt, kind, latest, FALSE)
  PROVE  TimersInOrder(T, prompt, kind, latest + 1, TRUE)
<1>1. T[<<kind, latest + 1>>].at = "unarmed"
  BY DEF TimersInOrder
<1> QED BY <1>1, TimerNames DEF TimersInOrder

LEMMA OrderArmed ==
  ASSUME NEW T, NEW U, NEW prompt, NEW kind, NEW latest \in Nat, <<kind, latest>> \in Timers,
         TimersInOrder(T, prompt, kind, latest, TRUE),
         \A t \in Timers :
           U[t].at = IF t = <<kind, latest>> THEN "armed"
                     ELSE IF t[1] = kind /\ T[t].at = "armed" THEN "stopped"
                     ELSE T[t].at
  PROVE  TimersInOrder(U, prompt, kind, latest, FALSE)
<1>1. U[<<kind, latest>>].at = "armed"
  OBVIOUS
<1>2. \A t \in Timers : t[1] = kind /\ t[2] = latest => t = <<kind, latest>>
  BY TimerNames
<1>3. \A t \in Timers : t[2] > latest \/ t[2] < latest => t # <<kind, latest>>
  BY TimerNames
<1> QED BY <1>1, <1>2, <1>3, TimerNames DEF TimersInOrder, Running, Dormant, TimerStages

\* A timer fires, or its callback goes on.
Advances(T, U, prompt, t) ==
  /\ T[t].at \in Running \cup {"armed"} /\ U[t].at \in Running \cup {"done"}
  /\ \A u \in Timers : u # t => U[u].at = T[u].at
  /\ T[t].at = "armed" /\ prompt => \A u \in Timers : T[u].at \notin Running

LEMMA OrderAdvances ==
  ASSUME NEW T, NEW U, NEW prompt, NEW kind, NEW latest \in Nat, NEW arming \in BOOLEAN,
         latest > 0 => <<kind, latest>> \in Timers,
         TimersInOrder(T, prompt, kind, latest, arming),
         NEW t \in Timers, Advances(T, U, prompt, t)
  PROVE  TimersInOrder(U, prompt, kind, latest, arming)
<1>1. CASE t[1] # kind
  BY <1>1, OrderKept DEF Advances
<1>2. CASE t[1] = kind
  <2>1. /\ t[2] \in Nat /\ t = <<kind, t[2]>> /\ t[2] > 0
        /\ T[t].at # "unarmed" /\ U[t].at \notin {"unarmed", "stopped", "armed"}
    BY <1>2, TimerNames DEF Advances, Running, Dormant, TimerStages
  <2>2. t[2] <= latest
    BY <1>2, <2>1 DEF TimersInOrder
  <2>3. <<kind, latest>> \in Timers
    BY <2>1, <2>2
  <2>4. arming => latest > 0
    BY DEF TimersInOrder
  <2>5. ASSUME NEW u \in Timers, u[1] = kind
        PROVE  /\ u[2] > latest => U[u].at = "unarmed"
               /\ u[2] = latest => (arming <=> U[u].at = "unarmed") /\ U[u].at # "stopped"
               /\ u[2] < latest /\ U[u].at = "armed" => arming
    <3>1. CASE u = t
      BY <1>2, <2>1, <2>2, <3>1 DEF TimersInOrder
    <3>2. CASE u # t
      BY <2>5, <3>2 DEF TimersInOrder, Advances
    <3> QED BY <3>1, <3>2
  <2>6. ASSUME NEW u \in Timers, u[1] = kind, u[2] < latest, U[u].at \in Running, prompt
        PROVE  U[<<kind, latest>>].at \in {"unarmed", "armed"}
    <3>1. T[u].at \in Running \cup {"armed"}
      BY <2>6 DEF Advances
    <3>2. CASE T[u].at = "armed"
      <4>1. arming /\ T[<<kind, latest>>].at = "unarmed" /\ t # <<kind, latest>>
        BY <2>1, <2>3, <2>6, <3>2 DEF TimersInOrder
      <4> QED BY <2>3, <4>1 DEF Advances
    <3>3. CASE T[u].at \in Running
      <4>1. T[<<kind, latest>>].at \in {"unarmed", "armed"}
        BY <2>6, <3>3 DEF TimersInOrder
      <4>2. CASE t = <<kind, latest>>
        <5>1. T[t].at = "armed"
          BY <2>1, <4>1, <4>2
        <5> QED BY <2>6, <3>3, <5>1 DEF Advances
      <4>3. CASE t # <<kind, latest>>
        BY <2>3, <4>1, <4>3 DEF Advances
      <4> QED BY <4>2, <4>3
    <3> QED BY <3>1, <3>2, <3>3
  <2> QED BY <2>4, <2>5, <2>6 DEF TimersInOrder
<1> QED BY <1>1, <1>2

LEMMA OneRunsOn ==
  ASSUME NEW T, NEW U, NEW prompt, OneRuns(T, prompt)
  PROVE  /\ \A t \in Timers : Advances(T, U, prompt, t) => OneRuns(U, prompt)
         /\ (\A t \in Timers : U[t].at \in Running => T[t].at \in Running) => OneRuns(U, prompt)
<1>1. ASSUME NEW t \in Timers, Advances(T, U, prompt, t)
      PROVE  OneRuns(U, prompt)
  <2> SUFFICES ASSUME prompt, NEW u \in Timers, U[u].at \in Running PROVE u = t
    BY DEF OneRuns
  <2> SUFFICES ASSUME u # t PROVE FALSE
    OBVIOUS
  <2>1. T[u].at \in Running
    BY <1>1 DEF Advances
  <2>2. T[t].at \in Running
    BY <1>1, <2>1 DEF Advances
  <2> QED BY <2>1, <2>2 DEF OneRuns
<1> QED BY <1>1 DEF OneRuns


(***************************************************************************)
(* The steps, by what they do to the timers, the trackers and the frame    *)
(***************************************************************************)
\* What a timer does next depends on the stage it is at.
TimerStep(t) ==
  /\ timer[t].at \in Running \cup {"armed"}
  /\ \A u \in Timers : u # t => timer'[u] = timer[u]
  /\ timer'[t].settled = timer[t].settled
  /\ timer'[t].spot = IF timer[t].at = "canvasSet" THEN gridSpot ELSE timer[t].spot
  /\ timer[t].at = "armed" => timer'[t].at = IF t[1] = "grid" THEN "located" ELSE "fired"
  /\ timer[t].at = "fired" => timer'[t].at = "steady"
  /\ timer[t].at = "steady" => timer'[t].at = "windowSet"
  /\ timer[t].at = "windowSet" => timer'[t].at = "canvasSet"
  /\ timer[t].at = "canvasSet" => timer'[t].at = "located"
  /\ timer[t].at = "located" => timer'[t].at = "committed"
  /\ timer[t].at \in {"committed", "decided", "freed"} => timer'[t].at \in {"decided", "freed", "done"}

\* What it does to the rest.
Publishes(t) ==
  /\ gWindow' = IF timer[t].at = "steady" THEN RectAfter(timer[t].settled) ELSE gWindow
  /\ gCanvas' = IF timer[t].at = "windowSet" THEN CanvasAfter(timer[t].settled) ELSE gCanvas
  /\ UNCHANGED <<windowVars, gFontSize, presses, gridSpot, gridTracker, windowMoves,
                 windowChanges, lastWindowBounds, windowTracker, fontTracker, capture>>

\* Does something else than a commit, or nothing, come into the queue?
PostsOther ==
  \/ UNCHANGED mainQueue
  \/ \E item \in Items : item.sel # "doCommitMove" /\ mainQueue' = Append(mainQueue, item)
Posted(t) ==
  /\ timer[t].at = "located" =>
       /\ Commit(timer[t].spot) \in Items /\ mainQueue' = Append(mainQueue, Commit(timer[t].spot))
  /\ timer[t].at # "located" => PostsOther

LEMMA OtherPosted ==
  ASSUME NEW sel \in Selectors, NEW arg \in Nat, sel # "doCommitMove", Dispatch(sel, arg)
  PROVE  PostsOther
BY ItemType DEF Dispatch, Post, PostsOther

LEMMA TimerField ==
  ASSUME TypeOK, NEW t \in Timers
  PROVE  /\ \A from, to : Moves(t, from, to) =>
              /\ timer[t].at = from /\ timer'[t].at = to
              /\ \A u \in Timers : u # t => timer'[u] = timer[u]
              /\ timer'[t].settled = timer[t].settled /\ timer'[t].spot = timer[t].spot
         /\ timer' = [timer EXCEPT ![t].at = "located", ![t].spot = gridSpot] =>
              /\ timer'[t].at = "located"
              /\ \A u \in Timers : u # t => timer'[u] = timer[u]
              /\ timer'[t].settled = timer[t].settled /\ timer'[t].spot = gridSpot
         /\ timer' = [timer EXCEPT ![t].at = "decided", ![t].show = intendedVisible] =>
              /\ timer'[t].at = "decided"
              /\ \A u \in Timers : u # t => timer'[u] = timer[u]
              /\ timer'[t].settled = timer[t].settled /\ timer'[t].spot = timer[t].spot
<1>1. timer \in [Timers -> [at : TimerStages, spot : Spots, settled : 0 .. limits.moves,
                            show : BOOLEAN]]
  BY DEF TypeOK, TimerTypeOK
<1> QED BY <1>1 DEF Moves

LEMMA TimerSteps ==
  ASSUME TypeOK, NEW t \in Timers, Fires(t) \/ Callback(t)
  PROVE  /\ TimerStep(t) /\ Publishes(t) /\ Posted(t)
         /\ Advances(timer, timer', limits.prompt, t)
<1>1. TimerStep(t)
  <2>1. CASE Fires(t)
    <3> DEFINE to == IF t[1] = "grid" THEN "located" ELSE "fired"
    <3>1. Moves(t, "armed", to)
      BY <2>1 DEF Fires
    <3> HIDE DEF to
    <3>2. /\ timer[t].at = "armed" /\ timer'[t].at = to
          /\ \A u \in Timers : u # t => timer'[u] = timer[u]
          /\ timer'[t].settled = timer[t].settled /\ timer'[t].spot = timer[t].spot
      BY <3>1, TimerField
    <3> QED BY <3>2 DEF TimerStep, to
  <2>2. CASE WindowSteady(t) \/ SettlesWindow(t) \/ SettlesCanvas(t) \/ CommitsMove(t)
    <3>1. \/ Moves(t, "fired", "steady") \/ Moves(t, "steady", "windowSet")
          \/ Moves(t, "windowSet", "canvasSet") \/ Moves(t, "located", "committed")
      BY <2>2 DEF WindowSteady, SettlesWindow, SettlesCanvas, CommitsMove
    <3>2. ASSUME NEW from, NEW to, Moves(t, from, to),
                 \/ (from = "fired" /\ to = "steady") \/ (from = "steady" /\ to = "windowSet")
                 \/ (from = "windowSet" /\ to = "canvasSet") \/ (from = "located" /\ to = "committed")
          PROVE  TimerStep(t)
      <4>1. /\ timer[t].at = from /\ timer'[t].at = to
            /\ \A u \in Timers : u # t => timer'[u] = timer[u]
            /\ timer'[t].settled = timer[t].settled /\ timer'[t].spot = timer[t].spot
        BY <3>2, TimerField
      <4> QED BY <3>2, <4>1 DEF TimerStep, Running, TimerStages, Dormant
    <3> QED BY <3>1, <3>2
  <2>3. CASE LocatesSpot(t) \/ ReadsIntended(t)
    BY <2>3, TimerField DEF LocatesSpot, ReadsIntended, TimerStep, Running, TimerStages, Dormant
  <2>4. CASE EndsFading(t) \/ FadesInAfterMove(t)
    <3>1. PICK from \in {"decided", "freed"}, to \in {"freed", "done"} : Moves(t, from, to)
      BY <2>4 DEF EndsFading, FadesInAfterMove
    <3>2. /\ timer[t].at = from /\ timer'[t].at = to
          /\ \A u \in Timers : u # t => timer'[u] = timer[u]
          /\ timer'[t].settled = timer[t].settled /\ timer'[t].spot = timer[t].spot
      BY <3>1, TimerField
    <3> QED BY <3>1, <3>2 DEF TimerStep, Running, TimerStages, Dormant
  <2> QED BY <2>1, <2>2, <2>3, <2>4 DEF Callback
<1>2. Publishes(t)
  <2>1. timerFrame
    BY DEF Fires, Callback, WindowSteady, SettlesWindow, SettlesCanvas, LocatesSpot,
           CommitsMove, ReadsIntended, EndsFading, FadesInAfterMove, timerOnly, timerPosts
  <2>2. CASE SettlesWindow(t) \/ SettlesCanvas(t)
    BY <2>1, <2>2 DEF SettlesWindow, SettlesCanvas, SetWindowBounds, SetCanvasBounds, Moves,
       Publishes, timerFrame, textVars
  <2>3. CASE UNCHANGED sharedVars /\ timer[t].at \notin {"steady", "windowSet"}
    BY <2>1, <2>3 DEF Publishes, timerFrame, textVars, sharedVars
  <2>4. CASE Fires(t) \/ WindowSteady(t) \/ EndsFading(t)
    BY <2>3, <2>4 DEF Fires, WindowSteady, EndsFading, Moves, NoPost, timerOnly
  <2>5. CASE LocatesSpot(t) \/ ReadsIntended(t) \/ CommitsMove(t)
    BY <2>3, <2>5 DEF LocatesSpot, ReadsIntended, CommitsMove, Moves, NoPost, Post, timerOnly
  <2>6. CASE FadesInAfterMove(t)
    <3>1. UNCHANGED sharedVars
      BY <2>6 DEF FadesInAfterMove, Dispatch, Post, NoPost
    <3>2. timer[t].at \in {"freed", "decided"}
      BY <2>6 DEF FadesInAfterMove, Moves
    <3> QED BY <2>3, <3>1, <3>2
  <2> QED BY <2>2, <2>4, <2>5, <2>6 DEF Callback
<1>3. Posted(t)
  <2>1. CASE CommitsMove(t)
    <3>1. timer[t].spot \in Spots
      BY DEF TypeOK, TimerTypeOK
    <3> QED BY <2>1, <3>1, ItemType DEF CommitsMove, Moves, Post, Posted
  <2>2. CASE FadesInAfterMove(t)
    <3>1. PostsOther
      BY <2>2, OtherPosted DEF FadesInAfterMove, NoPost, PostsOther, Selectors
    <3> QED BY <2>2, <3>1 DEF FadesInAfterMove, Moves, Posted
  <2>3. CASE Fires(t) \/ WindowSteady(t) \/ SettlesWindow(t) \/ SettlesCanvas(t)
             \/ LocatesSpot(t) \/ ReadsIntended(t) \/ EndsFading(t)
    BY <2>3 DEF Fires, WindowSteady, SettlesWindow, SettlesCanvas, LocatesSpot, ReadsIntended,
       EndsFading, timerOnly, NoPost, SetWindowBounds, SetCanvasBounds, Moves, Posted, PostsOther
  <2> QED BY <2>1, <2>2, <2>3 DEF Callback
<1>4. timer[t].at = "armed" /\ limits.prompt => \A u \in Timers : timer[u].at \notin Running
  <2>1. CASE Fires(t)
    BY <2>1 DEF Fires
  <2>2. CASE Callback(t)
    <3>1. timer[t].at # "armed"
      BY <2>2 DEF Callback, WindowSteady, SettlesWindow, SettlesCanvas, LocatesSpot,
         CommitsMove, ReadsIntended, EndsFading, FadesInAfterMove, Moves
    <3> QED BY <3>1
  <2> QED BY <2>1, <2>2
<1>5. timer'[t].at \in Running \cup {"done"}
  BY <1>1 DEF TimerStep, Running, TimerStages, Dormant
<1>6. Advances(timer, timer', limits.prompt, t)
  BY <1>1, <1>4, <1>5 DEF Advances, TimerStep
<1> QED BY <1>1, <1>2, <1>3, <1>6

\* A capture publishes the window it saw.
CaptureDoes(i) ==
  /\ capture'[i].at # "idle" /\ capture'[i].saw \in {capture[i].saw, windowMoves}
  /\ \A j \in Captures : j # i => capture'[j] = capture[j]
  /\ lastWindowBounds' \in {lastWindowBounds, RectAfter(capture[i].saw)}
  /\ gWindow' \in {gWindow, RectAfter(capture[i].saw)}
  /\ gCanvas' \in {gCanvas, CanvasAfter(capture[i].saw)}
  /\ UNCHANGED <<windowVars, gFontSize, gridVars, windowMoves, windowChanges, windowTracker,
                 timer, fontTracker>>
  /\ PostsOther

LEMMA CaptureEffects ==
  ASSUME TypeOK, NEW i \in Captures, FetchesWindow(i) \/ CaptureProceeds(i)
  PROVE  CaptureDoes(i)
<1>1. captureFrame
  BY DEF CaptureProceeds, FetchesWindow, StoresWindow, PublishesWindow, PublishesCanvas,
         HidesForCapture, Grabs, Restores, CaptureEnds, CaptureGoes
<1>2. /\ capture'[i].at # "idle" /\ capture'[i].saw \in {capture[i].saw, windowMoves}
      /\ \A j \in Captures : j # i => capture'[j] = capture[j]
  <2>1. CASE FetchesWindow(i)
    BY <2>1 DEF FetchesWindow, TypeOK, CaptureTypeOK
  <2>2. CASE CaptureProceeds(i)
    BY <2>2, CaptureState DEF CaptureProceeds, StoresWindow, PublishesWindow, PublishesCanvas,
       HidesForCapture, Grabs, Restores, CaptureEnds
  <2> QED BY <2>1, <2>2
<1>3. PostsOther
  <2>1. i \in Nat
    BY OverlayAssumption
  <2>2. CASE HidesForCapture(i)
    BY <2>1, <2>2, OtherPosted DEF HidesForCapture, Selectors
  <2>3. CASE Restores(i)
    BY <2>1, <2>3, OtherPosted DEF Restores, Selectors
  <2> QED
    BY <2>2, <2>3 DEF CaptureProceeds, FetchesWindow, StoresWindow, PublishesWindow,
       PublishesCanvas, Grabs, CaptureEnds, SetWindowBounds, SetCanvasBounds, NoPost, PostsOther
<1>4. /\ UNCHANGED <<windowMoves, windowChanges, windowTracker>>
      /\ lastWindowBounds' \in {lastWindowBounds, RectAfter(capture[i].saw)}
  <2>1. CASE StoresWindow(i)
    BY <2>1 DEF StoresWindow
  <2>2. CASE UNCHANGED moveVars
    BY <2>2 DEF moveVars
  <2> QED BY <2>1, <2>2 DEF CaptureProceeds, FetchesWindow, PublishesWindow, PublishesCanvas,
             HidesForCapture, Grabs, Restores, CaptureEnds
<1>5. /\ gFontSize' = gFontSize /\ gWindow' \in {gWindow, RectAfter(capture[i].saw)}
      /\ gCanvas' \in {gCanvas, CanvasAfter(capture[i].saw)}
  <2>1. CASE PublishesWindow(i) \/ PublishesCanvas(i)
    BY <2>1 DEF PublishesWindow, PublishesCanvas, SetWindowBounds, SetCanvasBounds
  <2>2. CASE UNCHANGED sharedVars
    BY <2>2 DEF sharedVars
  <2>3. CASE HidesForCapture(i) \/ Restores(i)
    BY <2>2, <2>3 DEF HidesForCapture, Restores, Dispatch, Post
  <2> QED BY <2>1, <2>2, <2>3 DEF CaptureProceeds, FetchesWindow, StoresWindow, Grabs,
             CaptureEnds, NoPost
<1> QED BY <1>1, <1>2, <1>3, <1>4, <1>5 DEF CaptureDoes, captureFrame, textVars

\* A step that neither timers nor trackers nor the frame know of.
Quiet ==
  /\ UNCHANGED <<windowVars, sharedVars, gridVars, moveVars, timer, capture, fontTracker>>
  /\ PostsOther

LEMMA StepKinds ==
  ASSUME TypeOK, Daemon \/ Environment
  PROVE  \/ MainThread /\ UNCHANGED goVars
         \/ GridPress \/ GridFades \/ GridArms
         \/ WindowMoves \/ WindowChanges \/ WindowArms
         \/ FontKey \/ SendsReposition
         \/ \E t \in Timers : Fires(t) \/ Callback(t)
         \/ \E i \in Captures : FetchesWindow(i) \/ CaptureProceeds(i)
         \/ Quiet
<1>1. limits.captures \subseteq Captures
  BY OverlayAssumption DEF TypeOK, Scenario
<1>2. ASSUME NEW c \in Callers, OverlayCall(c) PROVE Quiet
  <2>1. CASE SetsIntent(c) \/ ChecksMove(c)
    BY <2>1 DEF SetsIntent, ChecksMove, SetIntent, overlayVars, textVars, Quiet, PostsOther
  <2>2. CASE SendsIntent(c)
    <3>1. PICK shown \in BOOLEAN : DispatchIntent(shown)
      BY <2>2 DEF SendsIntent
    <3>2. PostsOther /\ UNCHANGED sharedVars
      BY <3>1, OtherPosted DEF DispatchIntent, Dispatch, Post, Selectors
    <3> QED BY <2>2, <3>2 DEF SendsIntent, textVars, Quiet
  <2> QED BY <1>2, <2>1, <2>2 DEF OverlayCall
<1>3. ASSUME \/ Toggle \/ Answer
             \/ \E c \in Clients : StoresMethod(c) \/ SetsPoller(c) \/ SwitchesOverlay(c)
             \/ \E c \in limits.clients : SetRequest(c)
      PROVE  Quiet
  BY <1>3 DEF Toggle, Answer, StoresMethod, SetsPoller, SwitchesOverlay, SetRequest,
     overlayVars, textVars, Quiet, PostsOther
<1>4. ASSUME Display \/ OpacityKey PROVE Quiet
  <2>1. texts + 1 \in Nat
    BY ZeroText, ScenarioType DEF TypeOK, TextTypeOK
  <2>2. PostsOther /\ UNCHANGED sharedVars
    BY <1>4, <2>1, OtherPosted DEF Display, OpacityKey, Dispatch, Post, Selectors
  <2> QED BY <1>4, <2>2 DEF Display, OpacityKey, Adjusts, Quiet
<1> QED BY <1>1, <1>2, <1>3, <1>4 DEF Daemon, Environment, GridTracker

(***************************************************************************)
(* The order of the timers                                                 *)
(***************************************************************************)
LEMMA OrderStays ==
  ASSUME TypeOK, TimerOrder,
         UNCHANGED <<limits, timer, presses, gridTracker, windowChanges, windowTracker>>
  PROVE  TimerOrder'
BY DEF TimerOrder, TimersInOrder, OneRuns, GridArming, WindowArming

LEMMA ArmedTimers ==
  ASSUME TypeOK, NEW t, NEW spot, Arm(t, spot)
  PROVE  /\ \A u \in Timers : /\ timer'[u].at = IF u = t THEN "armed"
                                                ELSE IF u[1] = t[1] /\ timer[u].at = "armed" THEN "stopped"
                                                ELSE timer[u].at
                              /\ timer'[u].settled = timer[u].settled
                              /\ timer'[u].spot = IF u = t THEN spot ELSE timer[u].spot
<1>1. timer \in [Timers -> [at : TimerStages, spot : Spots, settled : 0 .. limits.moves,
                            show : BOOLEAN]]
  BY DEF TypeOK, TimerTypeOK
<1> QED BY <1>1 DEF Arm

LEMMA SettledTimers ==
  ASSUME TypeOK, WindowChanges
  PROVE  LET t == <<"window", windowChanges + 1>> IN
         /\ t \in Timers
         /\ \A u \in Timers : /\ timer'[u].at = timer[u].at /\ timer'[u].spot = timer[u].spot
                              /\ timer'[u].settled = IF u = t THEN windowMoves ELSE timer[u].settled
<1> DEFINE t == <<"window", windowChanges + 1>>
<1>1. t \in Timers
  <2>1. windowChanges + 1 \in 1 .. MaxChanges
    BY OverlayAssumption DEF WindowChanges, TypeOK, MoveTypeOK
  <2> QED BY <2>1, TimerNames
<1>2. timer \in [Timers -> [at : TimerStages, spot : Spots, settled : 0 .. limits.moves,
                            show : BOOLEAN]]
  BY DEF TypeOK, TimerTypeOK
<1>3. timer' = [timer EXCEPT ![t].settled = windowMoves]
  BY DEF WindowChanges
<1> HIDE DEF t
<1>4. \A u \in Timers : /\ timer'[u].at = timer[u].at /\ timer'[u].spot = timer[u].spot
                        /\ timer'[u].settled = IF u = t THEN windowMoves ELSE timer[u].settled
  BY <1>1, <1>2, <1>3
<1> QED BY <1>1, <1>4 DEF t

LEMMA TimerOrderInvariant == TypeOK /\ TimerOrder /\ [Next]_vars => TimerOrder'
<1> SUFFICES ASSUME TypeOK, TimerOrder, [Next]_vars PROVE TimerOrder'
  OBVIOUS
<1>1. CASE UNCHANGED vars
  BY <1>1, OrderStays DEF vars, goVars, gridVars, moveVars
<1>2. CASE (Daemon \/ Environment) /\ UNCHANGED <<limits, gFadeDuration>>
  <2>1. UNCHANGED limits
    BY <1>2
  <2>2. /\ presses \in Nat /\ windowChanges \in Nat
        /\ presses > 0 => <<"grid", presses>> \in Timers
        /\ windowChanges > 0 => <<"window", windowChanges>> \in Timers
    BY LatestTimers, TimerNames
  <2>3. /\ TimersInOrder(timer, limits.prompt, "grid", presses, GridArming)
        /\ TimersInOrder(timer, limits.prompt, "window", windowChanges, WindowArming)
        /\ OneRuns(timer, limits.prompt)
        /\ \A t \in Timers : t[1] = "grid" => timer[t].at \notin Settling
    BY DEF TimerOrder
  <2>4. GridArming \in BOOLEAN /\ WindowArming \in BOOLEAN
    BY DEF GridArming, WindowArming
  <2>5. CASE MainThread /\ UNCHANGED goVars
    BY <2>1, <2>5, OrderStays DEF goVars, gridVars, moveVars
  <2>6. CASE GridPress
    <3>1. /\ presses' = presses + 1 /\ ~GridArming /\ GridArming'
          /\ UNCHANGED <<timer, windowChanges, windowTracker>>
      BY <2>6 DEF GridPress, GridArming, moveVars
    <3>2. <<"grid", presses + 1>> \in Timers
      <4>1. presses + 1 \in 1 .. MaxPresses
        BY <2>6, LatestTimers, TimerNames DEF GridPress
      <4> QED BY <4>1, TimerNames
    <3>3. TimersInOrder(timer, limits.prompt, "grid", presses + 1, TRUE)
      <4>1. TimersInOrder(timer, limits.prompt, "grid", presses, FALSE)
        BY <2>3, <3>1 DEF TimersInOrder
      <4> QED BY <2>2, <3>2, <4>1, OrderCounted
    <3>4. TimersInOrder(timer, limits.prompt, "grid", presses, GridArming)'
      BY <2>1, <3>1, <3>3 DEF TimersInOrder
    <3> QED BY <2>1, <2>3, <3>1, <3>4 DEF TimerOrder, TimersInOrder, OneRuns, WindowArming
  <2>7. CASE GridFades
    <3>1. /\ GridArming /\ GridArming'
          /\ UNCHANGED <<presses, timer, windowChanges, windowTracker>>
      BY <2>7 DEF GridFades, GridArming, moveVars
    <3> QED BY <2>1, <3>1 DEF TimerOrder, TimersInOrder, OneRuns, WindowArming
  <2>8. CASE GridArms
    <3>1. /\ Arm(<<"grid", presses>>, gridSpot) /\ GridArming /\ ~GridArming'
          /\ UNCHANGED <<presses, windowChanges, windowTracker>>
      BY <2>8 DEF GridArms, GridArming, moveVars
    <3>2. <<"grid", presses>> \in Timers
      BY <2>2, <2>3, <3>1 DEF TimersInOrder
    <3>3. \A u \in Timers : timer'[u].at = IF u = <<"grid", presses>> THEN "armed"
                                           ELSE IF u[1] = "grid" /\ timer[u].at = "armed" THEN "stopped"
                                           ELSE timer[u].at
      BY <3>1, <3>2, ArmedTimers
    <3>4. TimersInOrder(timer', limits.prompt, "grid", presses, FALSE)
      <4>1. TimersInOrder(timer, limits.prompt, "grid", presses, TRUE)
        BY <2>3, <3>1 DEF TimersInOrder
      <4> QED BY <2>2, <3>2, <3>3, <4>1, OrderArmed
    <3>5. TimersInOrder(timer', limits.prompt, "window", windowChanges, WindowArming)
      BY <2>2, <2>3, <2>4, <3>3, OrderKept
    <3>6. OneRuns(timer', limits.prompt)
      <4>1. \A t \in Timers : timer'[t].at \in Running => timer[t].at \in Running
        BY <3>3 DEF Running, Dormant, TimerStages
      <4> QED BY <2>3, <4>1, OneRunsOn
    <3>7. \A t \in Timers : t[1] = "grid" => timer'[t].at \notin Settling
      BY <2>3, <3>3 DEF Settling
    <3> QED BY <2>1, <3>1, <3>4, <3>5, <3>6, <3>7 DEF TimerOrder, TimersInOrder, WindowArming
  <2>9. CASE WindowMoves
    BY <2>1, <2>9, OrderStays DEF WindowMoves, gridVars
  <2>10. CASE WindowChanges
    <3>1. /\ windowChanges' = windowChanges + 1 /\ ~WindowArming /\ WindowArming'
          /\ UNCHANGED <<presses, gridTracker>>
      BY <2>10 DEF WindowChanges, WindowArming, gridVars
    <3>2. /\ <<"window", windowChanges + 1>> \in Timers
          /\ \A u \in Timers : timer'[u].at = timer[u].at
      BY <2>10, SettledTimers
    <3>3. TimersInOrder(timer, limits.prompt, "window", windowChanges + 1, TRUE)
      <4>1. TimersInOrder(timer, limits.prompt, "window", windowChanges, FALSE)
        BY <2>3, <3>1 DEF TimersInOrder
      <4> QED BY <2>2, <3>2, <4>1, OrderCounted
    <3>4. /\ TimersInOrder(timer', limits.prompt, "window", windowChanges + 1, TRUE)
          /\ TimersInOrder(timer', limits.prompt, "grid", presses, GridArming)
      <4>1. windowChanges + 1 \in Nat
        BY <2>2
      <4>2. TimersInOrder(timer', limits.prompt, "window", windowChanges + 1, TRUE)
        BY <3>2, <3>3, <4>1, OrderKept
      <4> QED BY <2>2, <2>3, <2>4, <3>2, <4>2, OrderKept
    <3>5. OneRuns(timer', limits.prompt)
      BY <2>3, <3>2, OneRunsOn
    <3> QED BY <2>1, <2>3, <3>1, <3>2, <3>4, <3>5 DEF TimerOrder, TimersInOrder, GridArming
  <2>11. CASE WindowArms
    <3>1. /\ Arm(<<"window", windowChanges>>, timer[<<"window", windowChanges>>].spot)
          /\ WindowArming /\ ~WindowArming'
          /\ UNCHANGED <<presses, windowChanges, gridTracker>>
      BY <2>11 DEF WindowArms, WindowArming, gridVars
    <3>2. <<"window", windowChanges>> \in Timers
      BY <2>2, <2>3, <3>1 DEF TimersInOrder
    <3>3. \A u \in Timers : timer'[u].at = IF u = <<"window", windowChanges>> THEN "armed"
                                           ELSE IF u[1] = "window" /\ timer[u].at = "armed" THEN "stopped"
                                           ELSE timer[u].at
      BY <3>1, <3>2, ArmedTimers
    <3>4. TimersInOrder(timer', limits.prompt, "window", windowChanges, FALSE)
      <4>1. TimersInOrder(timer, limits.prompt, "window", windowChanges, TRUE)
        BY <2>3, <3>1 DEF TimersInOrder
      <4> QED BY <2>2, <3>2, <3>3, <4>1, OrderArmed
    <3>5. TimersInOrder(timer', limits.prompt, "grid", presses, GridArming)
      BY <2>2, <2>3, <2>4, <3>3, OrderKept
    <3>6. OneRuns(timer', limits.prompt)
      <4>1. \A t \in Timers : timer'[t].at \in Running => timer[t].at \in Running
        BY <3>3 DEF Running, Dormant, TimerStages
      <4> QED BY <2>3, <4>1, OneRunsOn
    <3>7. \A t \in Timers : t[1] = "grid" => timer'[t].at \notin Settling
      BY <2>3, <3>3 DEF Settling
    <3> QED BY <2>1, <3>1, <3>4, <3>5, <3>6, <3>7 DEF TimerOrder, TimersInOrder, GridArming
  <2>12. CASE FontKey \/ SendsReposition \/ Quiet
    BY <2>1, <2>12, OrderStays DEF FontKey, Adjusts, SendsReposition, Quiet, gridVars, moveVars
  <2>13. ASSUME NEW t \in Timers, Fires(t) \/ Callback(t) PROVE TimerOrder'
    <3>1. /\ TimerStep(t) /\ Advances(timer, timer', limits.prompt, t)
          /\ UNCHANGED <<presses, gridTracker, windowChanges, windowTracker>>
      BY <2>13, TimerSteps DEF Publishes
    <3>2. /\ TimersInOrder(timer', limits.prompt, "grid", presses, GridArming)
          /\ TimersInOrder(timer', limits.prompt, "window", windowChanges, WindowArming)
      BY <2>2, <2>3, <2>4, <3>1, OrderAdvances
    <3>3. OneRuns(timer', limits.prompt)
      BY <2>3, <3>1, OneRunsOn
    <3>4. ASSUME NEW u \in Timers, u[1] = "grid" PROVE timer'[u].at \notin Settling
      BY <2>3, <3>1, <3>4 DEF TimerStep, Settling, Running, Dormant, TimerStages
    <3> QED BY <2>1, <3>1, <3>2, <3>3, <3>4 DEF TimerOrder, GridArming, WindowArming
  <2>14. ASSUME NEW i \in Captures, FetchesWindow(i) \/ CaptureProceeds(i) PROVE TimerOrder'
    BY <2>1, <2>14, CaptureEffects, OrderStays DEF CaptureDoes, gridVars
  <2> QED BY <1>2, <2>5, <2>6, <2>7, <2>8, <2>9, <2>10, <2>11, <2>12, <2>13, <2>14, StepKinds
<1> QED BY <1>1, <1>2 DEF Next

(***************************************************************************)
(* The spot: unless the grid tracker, or its latest timer, has yet to      *)
(* commit the present one, it is the last one committed.                   *)
(***************************************************************************)
Commits(k) == mainQueue[k].sel = "doCommitMove"

\* The spot that the main thread will have committed when the queue is empty.
LastSpot(spot) ==
  \/ gGridSpot = spot /\ \A k \in DOMAIN mainQueue : ~Commits(k)
  \/ \E k \in DOMAIN mainQueue :
       /\ Commits(k) /\ mainQueue[k].spot = spot
       /\ \A m \in DOMAIN mainQueue : m > k => ~Commits(m)

LatestGrid == <<"grid", presses>>
GridComing == GridArming \/ (presses > 0 /\ timer[LatestGrid].at = "armed")

SpotFollows ==
  limits.prompt =>
    /\ GridArming \/ presses = 0 \/ timer[LatestGrid].spot = gridSpot
    /\ GridComing \/ (presses > 0 /\ timer[LatestGrid].at = "located") \/ LastSpot(gridSpot)
    /\ \A t \in Timers : timer[t].at = "located" => GridComing \/ timer[t].spot = gridSpot

LEMMA LastSpotPosted ==
  ASSUME QueueTypeOK, NEW spot
  PROVE  /\ LastSpot(spot) /\ PostsOther /\ UNCHANGED gGridSpot => LastSpot(spot)'
         /\ Commit(spot) \in Items /\ mainQueue' = Append(mainQueue, Commit(spot)) => LastSpot(spot)'
<1>1. ASSUME NEW item \in Items, item.sel # "doCommitMove", mainQueue' = Append(mainQueue, item),
             UNCHANGED gGridSpot, LastSpot(spot)
      PROVE  LastSpot(spot)'
  <2>1. /\ \A k \in DOMAIN mainQueue : k \in DOMAIN mainQueue' /\ mainQueue'[k] = mainQueue[k]
        /\ \A k \in DOMAIN mainQueue' : k \in DOMAIN mainQueue \/ mainQueue'[k] = item
    BY <1>1, QueueGrows
  <2> QED BY <1>1, <2>1 DEF LastSpot, Commits
<1>2. LastSpot(spot) /\ UNCHANGED <<mainQueue, gGridSpot>> => LastSpot(spot)'
  BY DEF LastSpot, Commits
<1>3. ASSUME Commit(spot) \in Items, mainQueue' = Append(mainQueue, Commit(spot))
      PROVE  LastSpot(spot)'
  <2>1. mainQueue \in Seq(Items)
    BY DEF QueueTypeOK
  <2>2. /\ Len(mainQueue') = Len(mainQueue) + 1 /\ mainQueue' \in Seq(Items)
        /\ mainQueue'[Len(mainQueue) + 1] = Commit(spot)
    BY <1>3, <2>1, AppendProperties
  <2>3. DOMAIN mainQueue' = 1 .. Len(mainQueue) + 1 /\ Len(mainQueue) \in Nat
    BY <2>1, <2>2, LenProperties
  <2>4. PICK last : last = Len(mainQueue) + 1
    OBVIOUS
  <2>5. /\ last \in DOMAIN mainQueue' /\ mainQueue'[last] = Commit(spot)
        /\ \A m \in DOMAIN mainQueue' : ~(m > last)
    BY <2>2, <2>3, <2>4
  <2> QED BY <2>5 DEF LastSpot, Commits, Commit
<1> QED BY <1>1, <1>2, <1>3 DEF PostsOther

LEMMA LastSpotExecuted ==
  ASSUME QueueTypeOK, NEW spot, LastSpot(spot), MainThread
  PROVE  LastSpot(spot)'
<1>1. CASE PerformSelector
  <2> DEFINE first == Head(mainQueue)
  <2>1. /\ \A k \in DOMAIN mainQueue' :
             /\ k + 1 \in DOMAIN mainQueue /\ k + 1 # 1
             /\ mainQueue'[k] = mainQueue[k + 1]
        /\ \A k \in DOMAIN mainQueue : k # 1 => k - 1 \in DOMAIN mainQueue'
        /\ 1 \in DOMAIN mainQueue /\ first = mainQueue[1]
        /\ DOMAIN mainQueue \subseteq Nat /\ DOMAIN mainQueue' \subseteq Nat
        /\ \A k \in DOMAIN mainQueue : k >= 1
    <3>1. mainQueue \in Seq(Items) /\ mainQueue # <<>> /\ mainQueue' = Tail(mainQueue)
      BY <1>1 DEF QueueTypeOK, PerformSelector
    <3>2. mainQueue' \in Seq(Items) /\ Len(mainQueue') = Len(mainQueue) - 1
      BY <3>1, HeadTailProperties
    <3>3. /\ DOMAIN mainQueue' = 1 .. Len(mainQueue') /\ DOMAIN mainQueue = 1 .. Len(mainQueue)
          /\ Len(mainQueue) \in Nat
      BY <3>1, <3>2, LenProperties
    <3>4. \A k \in DOMAIN mainQueue : k # 1 => k - 1 \in DOMAIN mainQueue'
      BY <3>2, <3>3
    <3>5. /\ DOMAIN mainQueue \subseteq Nat /\ DOMAIN mainQueue' \subseteq Nat
          /\ \A k \in DOMAIN mainQueue : k >= 1
      BY <3>3
    <3> QED BY <3>1, <3>4, <3>5, QueueShrinks
  <2>2. Execute(first)
    BY <1>1 DEF PerformSelector
  <2> HIDE DEF first
  <2>3. gGridSpot' = IF first.sel = "doCommitMove" THEN first.spot ELSE gGridSpot
    BY <2>2 DEF Execute, showWindow, hideWindow, updateText, AppliesText, orderOutForCapture,
       orderInAfterCapture, doFadeOutForMove, doHideForWindowChange, doCommitMove,
       doFadeInAfterMove, reposition, frameVars
  <2>4. CASE gGridSpot = spot /\ \A k \in DOMAIN mainQueue : ~Commits(k)
    <3>1. \A k \in DOMAIN mainQueue' : ~(Commits(k)')
      BY <2>1, <2>4 DEF Commits
    <3>2. gGridSpot' = spot
      BY <2>1, <2>3, <2>4 DEF Commits
    <3> QED BY <3>1, <3>2 DEF LastSpot
  <2>5. ASSUME NEW k \in DOMAIN mainQueue, Commits(k), mainQueue[k].spot = spot,
               \A m \in DOMAIN mainQueue : m > k => ~Commits(m)
        PROVE  LastSpot(spot)'
    <3>1. CASE k = 1
      <4>1. gGridSpot' = spot
        BY <2>1, <2>3, <2>5, <3>1 DEF Commits
      <4>2. \A m \in DOMAIN mainQueue' : ~(Commits(m)')
        <5> SUFFICES ASSUME NEW m \in DOMAIN mainQueue' PROVE mainQueue'[m].sel # "doCommitMove"
          BY DEF Commits
        <5>1. m + 1 \in DOMAIN mainQueue /\ m + 1 > 1 /\ mainQueue'[m] = mainQueue[m + 1]
          BY <2>1
        <5> QED BY <2>5, <3>1, <5>1 DEF Commits
      <4> QED BY <4>1, <4>2 DEF LastSpot
    <3>2. CASE k # 1
      <4>1. /\ k - 1 \in DOMAIN mainQueue' /\ (k - 1) + 1 = k
            /\ mainQueue'[k - 1] = mainQueue[k]
        <5>1. k - 1 \in DOMAIN mainQueue' /\ (k - 1) + 1 = k
          BY <2>1, <3>2
        <5>2. mainQueue'[k - 1] = mainQueue[(k - 1) + 1]
          BY <2>1, <5>1
        <5> QED BY <5>1, <5>2
      <4>2. ASSUME NEW m \in DOMAIN mainQueue', m > k - 1 PROVE mainQueue'[m].sel # "doCommitMove"
        <5>1. m + 1 \in DOMAIN mainQueue /\ m + 1 > k /\ mainQueue'[m] = mainQueue[m + 1]
          BY <2>1, <4>2
        <5> QED BY <2>5, <5>1 DEF Commits
      <4> QED BY <2>5, <4>1, <4>2 DEF LastSpot, Commits
    <3> QED BY <3>1, <3>2
  <2> QED BY <2>4, <2>5 DEF LastSpot
<1>2. CASE (\E c \in completions : HideCompletes(c) \/ TextCompletes(c)) \/ FadeInEnds
  <2>1. UNCHANGED <<mainQueue, gGridSpot>>
    BY <1>2 DEF HideCompletes, TextCompletes, AppliesText, FadeInEnds, frameVars
  <2> QED BY <2>1 DEF LastSpot, Commits
<1> QED BY <1>1, <1>2 DEF MainThread

\* What leaves the timers, the grid and its tracker alone and commits no spot.
LEMMA SpotStays ==
  ASSUME SpotFollows, UNCHANGED <<limits, presses, gridSpot, gridTracker>>,
         LastSpot(gridSpot) => LastSpot(gridSpot)',
         \A t \in Timers : /\ timer'[t].spot = timer[t].spot
                           /\ timer'[t].at = timer[t].at \/ (timer[t].at # "located" /\ timer'[t].at # "located")
                           /\ t[1] = "grid" => timer'[t].at = timer[t].at,
         presses \in Nat, presses > 0 => LatestGrid \in Timers
  PROVE  SpotFollows'
<1>1. /\ UNCHANGED LatestGrid /\ (GridArming <=> GridArming')
      /\ presses > 0 => /\ timer'[LatestGrid].at = timer[LatestGrid].at
                        /\ timer'[LatestGrid].spot = timer[LatestGrid].spot
  BY DEF LatestGrid, GridArming
<1>2. GridComing => GridComing'
  BY <1>1 DEF GridComing
<1>3. \A t \in Timers : timer'[t].at = "located" => timer[t].at = "located"
  OBVIOUS
<1>4. UNCHANGED <<presses, gridSpot, LatestGrid>> /\ limits' = limits
  BY <1>1
<1>5. limits.prompt => \A t \in Timers : timer'[t].at = "located" => GridComing' \/ timer'[t].spot = gridSpot
  BY <1>2, <1>3 DEF SpotFollows
<1>6. limits.prompt => GridArming' \/ presses = 0 \/ timer'[LatestGrid].spot = gridSpot
  BY <1>1 DEF SpotFollows
<1>7. limits.prompt => GridComing' \/ (presses > 0 /\ timer'[LatestGrid].at = "located") \/ LastSpot(gridSpot)'
  BY <1>1, <1>2 DEF SpotFollows
<1> QED BY <1>4, <1>5, <1>6, <1>7 DEF SpotFollows

LEMMA SpotInvariant == TypeOK /\ TimerOrder /\ SpotFollows /\ [Next]_vars => SpotFollows'
<1> SUFFICES ASSUME TypeOK, TimerOrder, SpotFollows, [Next]_vars PROVE SpotFollows'
  OBVIOUS
<1>1. QueueTypeOK
  BY DEF TypeOK, OverlayTypeOK
<1>2. presses \in Nat /\ (presses > 0 => LatestGrid \in Timers)
  BY LatestTimers, TimerNames DEF LatestGrid
<1>3. \A t \in Timers : t[1] = "grid" => t = <<"grid", t[2]>> /\ t[2] \in Nat /\ t[2] > 0
  BY TimerNames
<1>4. CASE UNCHANGED vars
  <2>1. UNCHANGED <<limits, presses, gridSpot, gridTracker, timer, mainQueue, gGridSpot>>
    BY <1>4 DEF vars, goVars, gridVars, overlayVars, windowVars, frameVars
  <2>2. LastSpot(gridSpot) => LastSpot(gridSpot)'
    BY <2>1 DEF LastSpot, Commits
  <2> QED BY <1>2, <2>1, <2>2, SpotStays
<1>5. CASE (Daemon \/ Environment) /\ UNCHANGED <<limits, gFadeDuration>>
  <2>1. UNCHANGED limits
    BY <1>5
  <2>2. CASE MainThread /\ UNCHANGED goVars
    <3>1. UNCHANGED <<presses, gridSpot, gridTracker, timer>>
      BY <2>2 DEF goVars, gridVars
    <3>2. LastSpot(gridSpot) => LastSpot(gridSpot)'
      BY <1>1, <2>2, <3>1, LastSpotExecuted DEF LastSpot
    <3> QED BY <1>2, <2>1, <3>1, <3>2, SpotStays
  <2>3. CASE GridPress
    <3>1. GridArming'
      BY <2>3 DEF GridPress, GridArming
    <3> QED BY <3>1 DEF SpotFollows, GridComing
  <2>4. CASE GridFades
    <3>1. GridArming'
      BY <2>4 DEF GridFades, GridArming
    <3> QED BY <3>1 DEF SpotFollows, GridComing
  <2>5. CASE GridArms
    <3>1. Arm(LatestGrid, gridSpot) /\ GridArming /\ UNCHANGED <<presses, gridSpot>>
      BY <2>5 DEF GridArms, GridArming, LatestGrid
    <3>2. presses > 0 /\ LatestGrid \in Timers
      BY <1>2, <3>1 DEF TimerOrder, TimersInOrder
    <3>3. timer'[LatestGrid].at = "armed" /\ timer'[LatestGrid].spot = gridSpot
      BY <3>1, <3>2, ArmedTimers
    <3> QED BY <3>1, <3>2, <3>3 DEF SpotFollows, GridComing, LatestGrid
  <2>6. CASE WindowArms
    <3>1. /\ Arm(<<"window", windowChanges>>, timer[<<"window", windowChanges>>].spot)
          /\ WindowArming /\ UNCHANGED <<presses, gridSpot, gridTracker, mainQueue, gGridSpot>>
      BY <2>6 DEF WindowArms, WindowArming, gridVars, overlayVars, windowVars, frameVars
    <3>2. <<"window", windowChanges>> \in Timers /\ timer[<<"window", windowChanges>>].at = "unarmed"
      <4>1. windowChanges > 0 /\ <<"window", windowChanges>> \in Timers
        BY <3>1, LatestTimers DEF TimerOrder, TimersInOrder
      <4> QED BY <3>1, <4>1 DEF TimerOrder, TimersInOrder
    <3>3. \A u \in Timers :
            /\ timer'[u].spot = timer[u].spot
            /\ timer'[u].at = timer[u].at \/ (timer[u].at # "located" /\ timer'[u].at # "located")
            /\ u[1] = "grid" => timer'[u].at = timer[u].at
      BY <3>1, <3>2, ArmedTimers
    <3>4. LastSpot(gridSpot) => LastSpot(gridSpot)'
      BY <3>1 DEF LastSpot, Commits
    <3> QED BY <1>2, <2>1, <3>1, <3>3, <3>4, SpotStays
  <2>7. CASE WindowChanges
    <3>1. \A u \in Timers : timer'[u].at = timer[u].at /\ timer'[u].spot = timer[u].spot
      BY <2>7, SettledTimers
    <3>2. UNCHANGED <<presses, gridSpot, gridTracker, gGridSpot>>
      BY <2>7 DEF WindowChanges, gridVars, windowVars, frameVars
    <3>3. PostsOther
      BY <2>7, OtherPosted DEF WindowChanges, NoPost, PostsOther, Selectors
    <3>4. LastSpot(gridSpot) => LastSpot(gridSpot)'
      BY <1>1, <3>2, <3>3, LastSpotPosted DEF LastSpot
    <3> QED BY <1>2, <2>1, <3>1, <3>2, <3>4, SpotStays
  <2>8. CASE WindowMoves \/ FontKey \/ SendsReposition \/ Quiet
    <3>1. UNCHANGED <<presses, gridSpot, gridTracker, timer, gGridSpot>>
      BY <2>8 DEF WindowMoves, FontKey, Adjusts, SendsReposition, Quiet, gridVars, overlayVars,
         windowVars, frameVars
    <3>2. PostsOther
      BY <2>8, OtherPosted DEF WindowMoves, FontKey, SendsReposition, Quiet, SetFontSize,
         ResetFontSize, overlayVars, PostsOther, Selectors
    <3>3. LastSpot(gridSpot) => LastSpot(gridSpot)'
      BY <1>1, <3>1, <3>2, LastSpotPosted DEF LastSpot
    <3> QED BY <1>2, <2>1, <3>1, <3>3, SpotStays
  <2>9. ASSUME NEW i \in Captures, FetchesWindow(i) \/ CaptureProceeds(i) PROVE SpotFollows'
    <3>1. UNCHANGED <<presses, gridSpot, gridTracker, timer, gGridSpot>> /\ PostsOther
      BY <2>9, CaptureEffects DEF CaptureDoes, gridVars, windowVars, frameVars
    <3>2. LastSpot(gridSpot) => LastSpot(gridSpot)'
      BY <1>1, <3>1, LastSpotPosted DEF LastSpot
    <3> QED BY <1>2, <2>1, <3>1, <3>2, SpotStays
  <2>10. ASSUME NEW t \in Timers, Fires(t) \/ Callback(t) PROVE SpotFollows'
    <3>1. /\ TimerStep(t) /\ Posted(t)
          /\ UNCHANGED <<presses, gridSpot, gridTracker, gGridSpot>>
      BY <2>10, TimerSteps DEF Publishes, windowVars, frameVars
    <3>2. SUFFICES ASSUME limits.prompt, ~GridArming PROVE SpotFollows'
      BY <2>1, <3>1 DEF SpotFollows, GridComing, GridArming
    <3>3. \A u \in Timers : u # t => timer'[u] = timer[u]
      BY <3>1 DEF TimerStep
    <3>4. t[1] = "grid" => timer[t].at \notin Settling
      BY DEF TimerOrder
    \* A grid timer that is still at work and not the latest works for naught.
    <3>5. ASSUME t[1] = "grid", t # LatestGrid
          PROVE  timer[t].at # "armed" /\ presses > 0 /\ timer[LatestGrid].at = "armed"
      <4>1. t[2] \in Nat /\ t[2] # presses /\ t[2] > 0
        BY <1>3, <3>5 DEF LatestGrid
      <4>2. timer[t].at # "unarmed" /\ timer[t].at \in Running \cup {"armed"}
        BY <3>1 DEF TimerStep, Running, Dormant, TimerStages
      <4>3. t[2] < presses /\ LatestGrid \in Timers
        BY <1>2, <3>5, <4>1, <4>2 DEF TimerOrder, TimersInOrder
      <4>4. timer[LatestGrid].at # "unarmed"
        BY <3>2, <4>3 DEF TimerOrder, TimersInOrder, LatestGrid
      <4>5. TimersInOrder(timer, limits.prompt, "grid", presses, GridArming)
        BY DEF TimerOrder
      <4>6. timer[t].at # "armed"
        BY <3>2, <3>5, <4>3, <4>5 DEF TimersInOrder
      <4>7. timer[LatestGrid].at \in {"unarmed", "armed"}
        BY <3>2, <3>5, <4>2, <4>3, <4>5, <4>6 DEF TimersInOrder, LatestGrid
      <4> QED BY <1>2, <4>1, <4>3, <4>4, <4>6, <4>7
    <3>6. timer'[t].spot = timer[t].spot \/ timer'[t].spot = gridSpot
      BY <3>1 DEF TimerStep
    <3>7. presses = 0 \/ timer'[LatestGrid].spot = gridSpot
      BY <1>2, <3>2, <3>3, <3>6 DEF SpotFollows
    <3>8. CASE timer[t].at = "located"
      <4>1. /\ Commit(timer[t].spot) \in Items /\ mainQueue' = Append(mainQueue, Commit(timer[t].spot))
            /\ timer'[t].at = "committed"
        BY <3>1, <3>8 DEF Posted, TimerStep
      <4>2. GridComing \/ timer[t].spot = gridSpot
        BY <3>2, <3>8 DEF SpotFollows
      <4>3. GridComing => GridComing'
        BY <1>2, <3>1, <3>2, <3>3, <3>8 DEF GridComing, GridArming, LatestGrid
      <4>4. timer[t].spot = gridSpot => LastSpot(gridSpot)'
        <5>1. PICK spot : spot = timer[t].spot
          OBVIOUS
        <5>2. LastSpot(spot)'
          BY <1>1, <4>1, <5>1, LastSpotPosted
        <5> QED BY <3>1, <5>1, <5>2 DEF LastSpot
      <4>5. \A u \in Timers : timer'[u].at = "located" => GridComing' \/ timer'[u].spot = gridSpot
        BY <3>2, <3>3, <4>1, <4>3 DEF SpotFollows
      <4> QED BY <3>1, <3>7, <4>2, <4>3, <4>4, <4>5 DEF SpotFollows, LatestGrid
    <3>9. CASE timer[t].at = "armed" /\ t = LatestGrid
      <4>1. timer'[t].at = "located" /\ presses > 0 /\ timer'[t].spot = gridSpot
        BY <1>3, <3>1, <3>7, <3>9 DEF TimerStep, LatestGrid
      <4>2. \A u \in Timers : u # t => timer'[u].at # "located"
        <5>1. \A u \in Timers : timer[u].at \notin Running
          BY <2>10, <3>2, <3>9, TimerSteps DEF Advances
        <5> QED BY <3>3, <5>1 DEF Running, Dormant, TimerStages
      <4> QED BY <3>1, <3>7, <3>9, <4>1, <4>2 DEF SpotFollows, LatestGrid
    <3>10. CASE timer[t].at # "located" /\ ~(timer[t].at = "armed" /\ t = LatestGrid)
      <4>1. LastSpot(gridSpot) => LastSpot(gridSpot)'
        <5>1. PostsOther
          BY <3>1, <3>10 DEF Posted
        <5> QED BY <1>1, <3>1, <5>1, LastSpotPosted DEF LastSpot
      <4>2. GridComing => GridComing'
        BY <1>2, <3>1, <3>2, <3>3, <3>10 DEF GridComing, GridArming, LatestGrid
      <4>3. presses > 0 /\ timer[LatestGrid].at = "located" => timer'[LatestGrid].at = "located"
        BY <1>2, <3>3, <3>10
      <4>4. timer'[t].at = "located" => timer'[t].spot = gridSpot
        <5>1. timer[t].at = "armed" /\ t[1] = "grid" => FALSE
          BY <3>5, <3>10
        <5> QED BY <3>1, <3>10, <5>1 DEF TimerStep, Running, Dormant, TimerStages
      <4>5. \A u \in Timers : timer'[u].at = "located" => GridComing' \/ timer'[u].spot = gridSpot
        BY <3>2, <3>3, <4>2, <4>4 DEF SpotFollows
      <4> QED BY <3>1, <3>2, <3>7, <4>1, <4>2, <4>3, <4>5 DEF SpotFollows, LatestGrid
    <3> QED BY <3>8, <3>9, <3>10
  <2> QED BY <1>5, <2>2, <2>3, <2>4, <2>5, <2>6, <2>7, <2>8, <2>9, <2>10, StepKinds
<1> QED BY <1>4, <1>5 DEF Next

(***************************************************************************)
(* The size: it is that of the label unless the label will be rendered.    *)
(***************************************************************************)
InQueue(sel) == \E k \in DOMAIN mainQueue : mainQueue[k].sel = sel

FontFollows ==
  \/ gCurrentText \in EmptyTexts \/ labelFont = gFontSize
  \/ fontTracker = "send" \/ InQueue("reposition")

LEMMA StaysInQueue ==
  ASSUME QueueTypeOK, NEW sel
  PROVE  /\ \A item \in Items : mainQueue' = Append(mainQueue, item) =>
              (InQueue(sel) \/ item.sel = sel => InQueue(sel)')
         /\ PostsOther /\ InQueue(sel) => InQueue(sel)'
         /\ mainQueue # <<>> /\ mainQueue' = Tail(mainQueue) /\ Head(mainQueue).sel # sel
              /\ InQueue(sel) => InQueue(sel)'
<1>1. ASSUME NEW item \in Items, mainQueue' = Append(mainQueue, item),
             InQueue(sel) \/ item.sel = sel
      PROVE  InQueue(sel)'
  BY <1>1, QueueGrows DEF InQueue
<1>2. PostsOther /\ InQueue(sel) => InQueue(sel)'
  BY <1>1 DEF PostsOther, InQueue
<1>3. ASSUME mainQueue # <<>>, mainQueue' = Tail(mainQueue), Head(mainQueue).sel # sel, InQueue(sel)
      PROVE  InQueue(sel)'
  BY <1>3, QueueShrinks DEF InQueue
<1> QED BY <1>1, <1>2, <1>3

\* What a step of the main thread does to the label and the frame.
Renders ==
  /\ gGridSpot' = gGridSpot
  /\ gCurrentText' \notin EmptyTexts =>
       /\ labelFont' = gFontSize
       /\ gWindow # Nil => placed' = Placement(gGridSpot, gCurrentText', gFontSize)
  /\ InQueue("doCommitMove") => InQueue("doCommitMove")'
Replaces ==
  /\ UNCHANGED <<gCurrentText, labelFont>>
  /\ gCurrentText \notin EmptyTexts /\ gWindow # Nil =>
       placed' = Placement(gGridSpot', gCurrentText, labelFont)
  /\ InQueue("reposition") => InQueue("reposition")'
Leaves ==
  /\ UNCHANGED <<gCurrentText, frameVars>>
  /\ \A sel \in {"reposition", "doCommitMove"} : InQueue(sel) => InQueue(sel)'

LEMMA FrameSteps ==
  ASSUME TypeOK, MainThread
  PROVE  UNCHANGED sharedVars /\ (Renders \/ Replaces \/ Leaves)
<1>1. QueueTypeOK
  BY DEF TypeOK, OverlayTypeOK
<1>2. gWindow # Nil => Area(gWindow, gCanvas) # Nil
  BY DEF Area
<1>3. CASE PerformSelector
  <2> DEFINE first == Head(mainQueue)
  <2>1. /\ Execute(first) /\ UNCHANGED sharedVars
        /\ mainQueue # <<>> /\ mainQueue' = Tail(mainQueue)
    BY <1>3 DEF PerformSelector
  <2>2. \A sel : first.sel # sel /\ InQueue(sel) => InQueue(sel)'
    BY <1>1, <2>1, StaysInQueue
  <2> HIDE DEF first
  <2>3. ASSUME first.sel = "updateText", updateText(first.arg) PROVE Renders \/ Leaves
    <3>1. AppliesText(first.arg) \/ UNCHANGED <<gCurrentText, frameVars>>
      BY <2>3 DEF updateText
    <3> QED BY <2>2, <2>3, <3>1 DEF AppliesText, Renders, Leaves
  <2>4. ASSUME first.sel = "reposition", reposition PROVE Renders \/ Leaves
    <3>1. CASE gCurrentText \in EmptyTexts
      BY <2>2, <2>4, <3>1 DEF reposition, Placeable, Renders
    <3>2. CASE gCurrentText \notin EmptyTexts
      BY <1>2, <2>2, <2>4, <3>2 DEF reposition, Placeable, Renders
    <3> QED BY <3>1, <3>2
  <2>5. ASSUME first.sel = "doCommitMove", doCommitMove(first.spot) PROVE Replaces
    BY <1>2, <2>2, <2>5 DEF doCommitMove, Placeable, Replaces
  <2>6. ASSUME first.sel \notin {"updateText", "reposition", "doCommitMove"} PROVE Leaves
    <3>1. UNCHANGED <<gCurrentText, frameVars>>
      BY <2>1, <2>6 DEF Execute, showWindow, hideWindow, orderOutForCapture,
         orderInAfterCapture, doFadeOutForMove, doHideForWindowChange, doFadeInAfterMove
    <3> QED BY <2>2, <2>6, <3>1 DEF Leaves
  <2> QED BY <2>1, <2>3, <2>4, <2>5, <2>6 DEF Execute
<1>4. ASSUME NEW c \in completions, HideCompletes(c) \/ TextCompletes(c)
      PROVE  UNCHANGED sharedVars /\ (Renders \/ Leaves)
  <2>1. UNCHANGED <<mainQueue, sharedVars>>
    BY <1>4 DEF HideCompletes, TextCompletes
  <2>2. AppliesText(c.text) \/ UNCHANGED <<gCurrentText, frameVars>>
    BY <1>4 DEF HideCompletes, TextCompletes
  <2> QED BY <2>1, <2>2 DEF AppliesText, Renders, Leaves, InQueue
<1>5. CASE FadeInEnds
  BY <1>5 DEF FadeInEnds, Leaves, InQueue
<1> QED BY <1>3, <1>4, <1>5 DEF MainThread

LEMMA FontStays ==
  ASSUME QueueTypeOK, FontFollows, UNCHANGED <<gCurrentText, labelFont, gFontSize, fontTracker>>,
         PostsOther \/ (\E item \in Items : mainQueue' = Append(mainQueue, item))
  PROVE  FontFollows'
<1>1. InQueue("reposition") => InQueue("reposition")'
  BY StaysInQueue
<1> QED BY <1>1 DEF FontFollows

LEMMA FontInvariant == TypeOK /\ FontFollows /\ [Next]_vars => FontFollows'
<1> SUFFICES ASSUME TypeOK, FontFollows, [Next]_vars PROVE FontFollows'
  OBVIOUS
<1>1. QueueTypeOK
  BY DEF TypeOK, OverlayTypeOK
<1>2. CASE UNCHANGED vars
  BY <1>2 DEF vars, goVars, textVars, overlayVars, sharedVars, windowVars, frameVars, FontFollows, InQueue
<1>3. CASE MainThread /\ UNCHANGED goVars
  <2>1. UNCHANGED fontTracker
    BY <1>3 DEF goVars, textVars
  <2>2. UNCHANGED sharedVars /\ (Renders \/ Replaces \/ Leaves)
    BY <1>3, FrameSteps
  <2> QED BY <2>1, <2>2 DEF FontFollows, Renders, Replaces, Leaves, sharedVars, frameVars
<1>4. CASE FontKey
  BY <1>4 DEF FontKey, FontFollows
<1>5. CASE SendsReposition
  <2>1. Item("reposition", 0) \in Items /\ Item("reposition", 0).sel = "reposition"
    BY ItemType DEF Selectors
  <2>2. mainQueue' = Append(mainQueue, Item("reposition", 0))
    BY <1>5 DEF SendsReposition, Dispatch, Post
  <2>3. InQueue("reposition")'
    BY <1>1, <2>1, <2>2, StaysInQueue
  <2> QED BY <2>3 DEF FontFollows
<1>6. CASE GridPress \/ GridArms \/ WindowMoves \/ WindowArms \/ Quiet
  <2>1. UNCHANGED <<gCurrentText, labelFont, gFontSize, fontTracker>> /\ PostsOther
    BY <1>6 DEF GridPress, GridArms, WindowMoves, WindowArms, Quiet, textVars, overlayVars,
       sharedVars, windowVars, frameVars, PostsOther
  <2> QED BY <1>1, <2>1, FontStays
<1>7. CASE GridFades \/ WindowChanges
  <2>1. UNCHANGED <<gCurrentText, labelFont, fontTracker>>
    BY <1>7 DEF GridFades, WindowChanges, textVars, windowVars, frameVars
  <2>2. PostsOther /\ UNCHANGED sharedVars
    BY <1>7, OtherPosted DEF GridFades, WindowChanges, NoPost, PostsOther, Selectors, Dispatch, Post
  <2> QED BY <1>1, <2>1, <2>2, FontStays DEF sharedVars
<1>8. ASSUME NEW t \in Timers, Fires(t) \/ Callback(t) PROVE FontFollows'
  <2>1. Publishes(t) /\ Posted(t)
    BY <1>8, TimerSteps
  <2>2. PostsOther \/ (\E item \in Items : mainQueue' = Append(mainQueue, item))
    BY <2>1 DEF Posted
  <2> QED BY <1>1, <2>1, <2>2, FontStays DEF Publishes, windowVars, frameVars
<1>9. ASSUME NEW i \in Captures, FetchesWindow(i) \/ CaptureProceeds(i) PROVE FontFollows'
  BY <1>1, <1>9, CaptureEffects, FontStays DEF CaptureDoes, windowVars, frameVars
<1> QED BY <1>2, <1>3, <1>4, <1>5, <1>6, <1>7, <1>8, <1>9, StepKinds DEF Next

(***************************************************************************)
(* The window: what captures and timers know of it has been so, and as     *)
(* long as it stands still it is what the first capture saw.               *)
(***************************************************************************)
WindowFollows ==
  /\ \A i \in Captures : capture[i].saw \in 0 .. windowMoves
  /\ \A t \in Timers : timer[t].settled \in 0 .. windowMoves
  /\ limits.known => gWindow \in Rectangles /\ lastWindowBounds \in Rectangles
  /\ limits.known /\ windowMoves = 0 =>
       gWindow = RectAfter(0) /\ gCanvas = CanvasAfter(0) /\ lastWindowBounds = RectAfter(0)

LEMMA RectangleOfWindow ==
  ASSUME NEW n \in 0 .. MaxWindowMoves
  PROVE  RectAfter(n) \in Rectangles
<1>1. WindowAfter[n] \in Windows
  BY OverlayAssumption
<1>2. ASSUME NEW w \in Windows PROVE WindowRect(w) \in Rectangles
  <2>1. w.x \in Int /\ w.y \in Int /\ w.x + w.width \in Int /\ w.y + w.height \in Int
    BY DEF Windows
  <2>2. \A a, b, c, d \in Int : Rect(a, b, c, d) \in Rectangles
    BY DEF Rect, Rectangles, Lesser, Greater
  <2> QED BY <2>1, <2>2 DEF WindowRect
<1> QED BY <1>1, <1>2 DEF RectAfter

LEMMA WindowStays ==
  ASSUME TypeOK, WindowFollows, UNCHANGED <<limits, gWindow, gCanvas, lastWindowBounds>>,
         windowMoves' \in Nat, windowMoves' >= windowMoves,
         \A i \in Captures : capture'[i].saw \in {capture[i].saw, windowMoves},
         \A t \in Timers : timer'[t].settled \in {timer[t].settled, windowMoves}
  PROVE  WindowFollows'
<1>1. windowMoves \in Nat
  BY ScenarioType DEF TypeOK, MoveTypeOK
<1> QED BY <1>1 DEF WindowFollows

LEMMA WindowInvariant == TypeOK /\ WindowFollows /\ [Next]_vars => WindowFollows'
<1> SUFFICES ASSUME TypeOK, WindowFollows, [Next]_vars PROVE WindowFollows'
  OBVIOUS
<1>1. windowMoves \in Nat /\ windowMoves \in 0 .. MaxWindowMoves /\ MaxWindowMoves \in Nat
  BY ScenarioType, OverlayAssumption DEF TypeOK, MoveTypeOK
<1>2. CASE UNCHANGED vars
  BY <1>1, <1>2, WindowStays DEF vars, goVars, moveVars, overlayVars, sharedVars
<1>3. CASE (Daemon \/ Environment) /\ UNCHANGED <<limits, gFadeDuration>>
  <2>1. UNCHANGED limits
    BY <1>3
  <2>2. CASE MainThread /\ UNCHANGED goVars
    BY <1>1, <2>1, <2>2, FrameSteps, WindowStays DEF goVars, moveVars, sharedVars
  <2>3. CASE GridPress \/ WindowMoves \/ FontKey \/ SendsReposition \/ Quiet \/ GridFades
    <3>1. UNCHANGED <<gWindow, gCanvas, lastWindowBounds, capture, timer>>
      BY <2>3 DEF GridPress, WindowMoves, FontKey, Adjusts, SendsReposition, Quiet, GridFades,
         overlayVars, sharedVars, moveVars, SetFontSize, ResetFontSize, Dispatch, Post, NoPost
    <3>2. windowMoves' \in {windowMoves, windowMoves + 1}
      BY <2>3 DEF GridPress, WindowMoves, FontKey, Adjusts, SendsReposition, Quiet, GridFades, moveVars
    <3> QED BY <1>1, <2>1, <3>1, <3>2, WindowStays
  <2>4. CASE GridArms \/ WindowArms
    <3>1. UNCHANGED <<gWindow, gCanvas, lastWindowBounds, capture, windowMoves>>
      BY <2>4 DEF GridArms, WindowArms, overlayVars, sharedVars, moveVars
    <3>2. \E t, spot : Arm(t, spot)
      BY <2>4 DEF GridArms, WindowArms
    <3> QED BY <1>1, <2>1, <3>1, <3>2, ArmedTimers, WindowStays
  <2>5. CASE WindowChanges
    <3>1. /\ UNCHANGED <<gWindow, gCanvas, capture, windowMoves>>
          /\ lastWindowBounds' = RectAfter(windowMoves)
      BY <2>5 DEF WindowChanges, NoPost, Dispatch, Post, sharedVars
    <3>2. \A t \in Timers : timer'[t].settled \in {timer[t].settled, windowMoves}
      BY <2>5, SettledTimers
    <3>3. lastWindowBounds' \in Rectangles
      BY <1>1, <3>1, RectangleOfWindow
    <3> QED BY <1>1, <2>1, <3>1, <3>2, <3>3 DEF WindowFollows
  <2>6. ASSUME NEW t \in Timers, Fires(t) \/ Callback(t) PROVE WindowFollows'
    <3>1. TimerStep(t) /\ Publishes(t)
      BY <2>6, TimerSteps
    <3>2. /\ UNCHANGED <<capture, windowMoves, lastWindowBounds>>
          /\ \A u \in Timers : timer'[u].settled = timer[u].settled
      BY <3>1 DEF TimerStep, Publishes
    <3>3. timer[t].settled \in 0 .. windowMoves /\ timer[t].settled \in 0 .. MaxWindowMoves
      BY <1>1 DEF WindowFollows
    <3>4. /\ gWindow' \in {gWindow, RectAfter(timer[t].settled)}
          /\ gCanvas' \in {gCanvas, CanvasAfter(timer[t].settled)}
      BY <3>1 DEF Publishes
    <3>5. RectAfter(timer[t].settled) \in Rectangles
      BY <3>3, RectangleOfWindow
    <3>6. windowMoves = 0 => timer[t].settled = 0
      BY <3>3
    <3> QED BY <1>1, <2>1, <3>2, <3>4, <3>5, <3>6 DEF WindowFollows
  <2>7. ASSUME NEW i \in Captures, FetchesWindow(i) \/ CaptureProceeds(i) PROVE WindowFollows'
    <3>1. CaptureDoes(i)
      BY <2>7, CaptureEffects
    <3>2. capture[i].saw \in 0 .. windowMoves /\ capture[i].saw \in 0 .. MaxWindowMoves
      BY <1>1 DEF WindowFollows
    <3>3. RectAfter(capture[i].saw) \in Rectangles
      BY <3>2, RectangleOfWindow
    <3>4. windowMoves = 0 => capture[i].saw = 0
      BY <3>2
    <3>5. \A j \in Captures : capture'[j].saw \in 0 .. windowMoves
      BY <1>1, <3>1 DEF CaptureDoes, WindowFollows
    <3> QED BY <1>1, <2>1, <3>1, <3>3, <3>4, <3>5 DEF CaptureDoes, WindowFollows
  <2> QED BY <1>3, <2>2, <2>3, <2>4, <2>5, <2>6, <2>7, StepKinds
<1> QED BY <1>2, <1>3 DEF Next

(***************************************************************************)
(* The bounds the frame is computed from: those of the window as it was    *)
(* noticed last, unless the timer of that change has yet to publish them.  *)
(* A capture may not take part while the window moves.                     *)
(***************************************************************************)
Calm == windowMoves = 0 \/ \A i \in Captures : capture[i].at = "idle"

LatestWindow == <<"window", windowChanges>>
Noticed == IF windowChanges = 0 THEN 0 ELSE timer[LatestWindow].settled

WindowPending(stages) ==
  windowChanges > 0 /\ (WindowArming \/ timer[LatestWindow].at \in stages)
BeforeWindow == {"armed", "fired", "steady"}
BeforeCanvas == {"armed", "fired", "steady", "windowSet"}

BoundsFollow ==
  limits.prompt /\ limits.known /\ Calm =>
    /\ lastWindowBounds = RectAfter(Noticed)
    /\ WindowPending(BeforeWindow) \/ gWindow = RectAfter(Noticed)
    /\ WindowPending(BeforeCanvas) \/ gCanvas = CanvasAfter(Noticed)

LEMMA NoticedBefore ==
  ASSUME TypeOK, WindowFollows
  PROVE  /\ Noticed \in 0 .. windowMoves /\ Noticed \in 0 .. MaxWindowMoves
         /\ windowMoves \in 0 .. MaxWindowMoves
<1>1. windowMoves \in Nat /\ windowMoves \in 0 .. MaxWindowMoves
  BY ScenarioType, OverlayAssumption DEF TypeOK, MoveTypeOK
<1>2. windowChanges \in Nat /\ (windowChanges > 0 => LatestWindow \in Timers)
  BY LatestTimers, TimerNames DEF LatestWindow
<1>3. Noticed \in 0 .. windowMoves
  BY <1>1, <1>2 DEF Noticed, WindowFollows
<1> QED BY <1>1, <1>3, OverlayAssumption

LEMMA CalmBefore ==
  ASSUME TypeOK, Daemon \/ Environment, Calm'
  PROVE  Calm
<1>1. windowMoves \in Nat
  BY ScenarioType, OverlayAssumption DEF TypeOK, MoveTypeOK
<1>2. CASE UNCHANGED <<windowMoves, capture>>
  BY <1>2 DEF Calm
<1>3. CASE WindowMoves
  BY <1>1, <1>3 DEF WindowMoves, Calm
<1>4. ASSUME NEW i \in Captures, FetchesWindow(i) \/ CaptureProceeds(i) PROVE Calm
  BY <1>4, CaptureEffects DEF CaptureDoes, Calm
<1>5. ASSUME NEW t \in Timers, Fires(t) \/ Callback(t) PROVE UNCHANGED <<windowMoves, capture>>
  BY <1>5, TimerSteps DEF Publishes
<1>6. ASSUME \/ MainThread /\ UNCHANGED goVars
             \/ GridPress \/ GridFades \/ GridArms \/ WindowChanges \/ WindowArms
             \/ FontKey \/ SendsReposition \/ Quiet
      PROVE  UNCHANGED <<windowMoves, capture>>
  BY <1>6 DEF goVars, moveVars, GridPress, GridFades, GridArms, WindowChanges, WindowArms,
     FontKey, Adjusts, SendsReposition, Quiet
<1> QED BY <1>2, <1>3, <1>4, <1>5, <1>6, StepKinds

\* What publishes no bounds and neither counts a change nor moves on the latest timer.
LEMMA BoundsStay ==
  ASSUME BoundsFollow, Calm' => Calm, windowChanges \in Nat,
         windowChanges > 0 => LatestWindow \in Timers,
         UNCHANGED <<limits, gWindow, gCanvas, lastWindowBounds, windowChanges>>,
         WindowArming => WindowArming',
         \A t \in Timers : /\ timer'[t].settled = timer[t].settled
                           /\ timer'[t].at = timer[t].at
  PROVE  BoundsFollow'
<1>1. Noticed' = Noticed
  BY DEF Noticed, LatestWindow
<1>2. WindowPending(BeforeWindow) => WindowPending(BeforeWindow)'
  BY DEF WindowPending, LatestWindow, BeforeWindow
<1>3. WindowPending(BeforeCanvas) => WindowPending(BeforeCanvas)'
  BY DEF WindowPending, LatestWindow, BeforeCanvas
<1> QED BY <1>1, <1>2, <1>3 DEF BoundsFollow

LEMMA BoundsInvariant ==
  TypeOK /\ TimerOrder /\ WindowFollows /\ BoundsFollow /\ [Next]_vars => BoundsFollow'
<1> SUFFICES ASSUME TypeOK, TimerOrder, WindowFollows, BoundsFollow, [Next]_vars
             PROVE  BoundsFollow'
  OBVIOUS
<1>1. /\ windowChanges \in Nat /\ (windowChanges > 0 => LatestWindow \in Timers)
      /\ \A t \in Timers : t[1] = "window" => t = <<"window", t[2]>> /\ t[2] \in Nat /\ t[2] > 0
      /\ \A t \in Timers : t[1] \in {"grid", "window"}
  BY LatestTimers, TimerNames DEF LatestWindow
<1>2. CASE UNCHANGED vars
  <2>1. UNCHANGED <<limits, gWindow, gCanvas, lastWindowBounds, windowChanges, windowTracker,
                    timer, windowMoves, capture>>
    BY <1>2 DEF vars, goVars, moveVars, overlayVars, sharedVars
  <2>2. Calm' => Calm
    BY <2>1 DEF Calm
  <2> QED BY <1>1, <2>1, <2>2, BoundsStay DEF WindowArming
<1>3. CASE (Daemon \/ Environment) /\ UNCHANGED <<limits, gFadeDuration>>
  <2>1. UNCHANGED limits /\ (Calm' => Calm)
    BY <1>3, CalmBefore
  <2>2. CASE \/ MainThread /\ UNCHANGED goVars
             \/ GridPress \/ GridFades \/ WindowMoves \/ FontKey \/ SendsReposition \/ Quiet
    <3>1. UNCHANGED <<lastWindowBounds, windowChanges, windowTracker, timer>>
      BY <2>2 DEF goVars, moveVars, GridPress, GridFades, WindowMoves, FontKey, Adjusts,
         SendsReposition, Quiet
    <3>2. ASSUME MainThread PROVE UNCHANGED <<gWindow, gCanvas>>
      BY <3>2, FrameSteps DEF sharedVars
    <3>3. ASSUME GridPress \/ GridFades \/ WindowMoves \/ FontKey \/ SendsReposition \/ Quiet
          PROVE  UNCHANGED <<gWindow, gCanvas>>
      BY <3>3 DEF GridPress, GridFades, WindowMoves, FontKey, SendsReposition, Quiet,
         overlayVars, sharedVars, SetFontSize, ResetFontSize, Dispatch, Post, NoPost
    <3>4. UNCHANGED <<gWindow, gCanvas>>
      BY <2>2, <3>2, <3>3
    <3> QED BY <1>1, <2>1, <3>1, <3>4, BoundsStay DEF WindowArming
  <2>3. CASE GridArms
    <3>1. /\ UNCHANGED <<gWindow, gCanvas, lastWindowBounds, windowChanges, windowTracker>>
          /\ Arm(<<"grid", presses>>, gridSpot)
      BY <2>3 DEF GridArms, overlayVars, sharedVars, moveVars
    <3>2. /\ \A t \in Timers : timer'[t].settled = timer[t].settled
          /\ \A t \in Timers : t[1] = "window" => timer'[t].at = timer[t].at
      BY <1>1, <3>1, ArmedTimers
    <3>3. Noticed' = Noticed
      BY <1>1, <3>1, <3>2 DEF Noticed, LatestWindow
    <3>4. \A stages : WindowPending(stages) =>
            windowChanges > 0 /\ timer'[LatestWindow].at = timer[LatestWindow].at
      BY <1>1, <3>2 DEF WindowPending, LatestWindow
    <3>5. WindowPending(BeforeWindow) => WindowPending(BeforeWindow)'
      BY <3>1, <3>4 DEF WindowPending, LatestWindow, BeforeWindow, WindowArming
    <3>6. WindowPending(BeforeCanvas) => WindowPending(BeforeCanvas)'
      BY <3>1, <3>4 DEF WindowPending, LatestWindow, BeforeCanvas, WindowArming
    <3> QED BY <2>1, <3>1, <3>3, <3>5, <3>6 DEF BoundsFollow
  <2>4. CASE WindowArms
    <3>1. /\ UNCHANGED <<gWindow, gCanvas, lastWindowBounds, windowChanges>> /\ WindowArming
          /\ Arm(LatestWindow, timer[LatestWindow].spot)
      BY <2>4 DEF WindowArms, overlayVars, sharedVars, moveVars, WindowArming, LatestWindow
    <3>2. windowChanges > 0 /\ LatestWindow \in Timers
      BY <1>1, <3>1 DEF TimerOrder, TimersInOrder
    <3>3. /\ timer'[LatestWindow].at = "armed"
          /\ timer'[LatestWindow].settled = timer[LatestWindow].settled
      BY <3>1, <3>2, ArmedTimers
    <3>4. Noticed' = Noticed
      BY <3>1, <3>3 DEF Noticed, LatestWindow
    <3>5. WindowPending(BeforeWindow)' /\ WindowPending(BeforeCanvas)'
      BY <3>1, <3>2, <3>3 DEF WindowPending, LatestWindow, BeforeWindow, BeforeCanvas
    <3> QED BY <2>1, <3>1, <3>4, <3>5 DEF BoundsFollow
  <2>5. CASE WindowChanges
    <3>1. /\ windowChanges' = windowChanges + 1 /\ WindowArming'
          /\ lastWindowBounds' = RectAfter(windowMoves)
      BY <2>5 DEF WindowChanges, WindowArming
    <3>2. timer'[<<"window", windowChanges + 1>>].settled = windowMoves
      BY <2>5, SettledTimers
    <3>3. Noticed' = windowMoves
      BY <1>1, <3>1, <3>2 DEF Noticed, LatestWindow
    <3>4. WindowPending(BeforeWindow)' /\ WindowPending(BeforeCanvas)'
      BY <1>1, <3>1 DEF WindowPending
    <3> QED BY <3>1, <3>3, <3>4 DEF BoundsFollow
  <2>6. ASSUME NEW t \in Timers, Fires(t) \/ Callback(t) PROVE BoundsFollow'
    <3>1. TimerStep(t) /\ Publishes(t)
      BY <2>6, TimerSteps
    <3>2. SUFFICES ASSUME limits.prompt, limits.known, Calm PROVE BoundsFollow'
      BY <2>1 DEF BoundsFollow
    <3>3. UNCHANGED <<windowChanges, lastWindowBounds, windowTracker>>
      BY <3>1 DEF Publishes
    <3>4. /\ \A u \in Timers : timer'[u].settled = timer[u].settled
          /\ \A u \in Timers : u # t => timer'[u].at = timer[u].at
      BY <3>1 DEF TimerStep
    <3>5. Noticed' = Noticed
      BY <1>1, <3>3, <3>4 DEF Noticed, LatestWindow
    <3>6. t[1] = "grid" => timer[t].at \notin Settling
      BY DEF TimerOrder
    <3>7. CASE t = LatestWindow
      <4>1. windowChanges > 0 /\ Noticed = timer[t].settled
        BY <1>1, <3>7 DEF Noticed, LatestWindow
      <4>2. t[1] = "window"
        BY <3>7 DEF LatestWindow
      <4>3. WindowPending(BeforeWindow)' \/ gWindow' = RectAfter(Noticed)
        <5>1. CASE timer[t].at \in {"armed", "fired"}
          BY <3>1, <3>3, <3>7, <4>1, <4>2, <5>1 DEF TimerStep, WindowPending, BeforeWindow, LatestWindow
        <5>2. CASE timer[t].at = "steady"
          BY <3>1, <4>1, <5>2 DEF Publishes
        <5>3. CASE timer[t].at \notin {"armed", "fired", "steady"}
          <6>1. WindowPending(BeforeWindow) => WindowArming /\ windowChanges > 0
            BY <3>7, <5>3 DEF WindowPending, BeforeWindow
          <6>2. WindowArming /\ windowChanges > 0 => WindowPending(BeforeWindow)'
            BY <3>3 DEF WindowPending, WindowArming
          <6> QED BY <3>1, <3>2, <5>3, <6>1, <6>2 DEF BoundsFollow, Publishes
        <5> QED BY <5>1, <5>2, <5>3
      <4>4. WindowPending(BeforeCanvas)' \/ gCanvas' = CanvasAfter(Noticed)
        <5>1. CASE timer[t].at \in {"armed", "fired", "steady"}
          BY <3>1, <3>3, <3>7, <4>1, <4>2, <5>1 DEF TimerStep, WindowPending, BeforeCanvas, LatestWindow
        <5>2. CASE timer[t].at = "windowSet"
          BY <3>1, <4>1, <5>2 DEF Publishes
        <5>3. CASE timer[t].at \notin {"armed", "fired", "steady", "windowSet"}
          <6>1. WindowPending(BeforeCanvas) => WindowArming /\ windowChanges > 0
            BY <3>7, <5>3 DEF WindowPending, BeforeCanvas
          <6>2. WindowArming /\ windowChanges > 0 => WindowPending(BeforeCanvas)'
            BY <3>3 DEF WindowPending, WindowArming
          <6> QED BY <3>1, <3>2, <5>3, <6>1, <6>2 DEF BoundsFollow, Publishes
        <5> QED BY <5>1, <5>2, <5>3
      <4> QED BY <3>2, <3>3, <3>5, <4>3, <4>4 DEF BoundsFollow
    <3>8. CASE t # LatestWindow
      <4>1. \A stages \in {BeforeWindow, BeforeCanvas} :
              WindowPending(stages) => windowChanges > 0 /\ timer'[LatestWindow].at = timer[LatestWindow].at
        BY <1>1, <3>4, <3>8 DEF WindowPending
      <4>2. /\ WindowPending(BeforeWindow) => WindowPending(BeforeWindow)'
            /\ WindowPending(BeforeCanvas) => WindowPending(BeforeCanvas)'
        BY <3>3, <4>1 DEF WindowPending, LatestWindow, WindowArming, BeforeWindow, BeforeCanvas
      <4>3. CASE timer[t].at \in {"steady", "windowSet"}
        <5>1. t[1] = "window" /\ timer[t].at \in Running
          BY <1>1, <3>6, <4>3 DEF Settling, Running, Dormant, TimerStages
        <5>2. TimersInOrder(timer, limits.prompt, "window", windowChanges, WindowArming)
          BY DEF TimerOrder
        <5>3. t[2] < windowChanges
          <6>1. t[2] # windowChanges /\ t[2] \in Nat
            BY <1>1, <3>8, <5>1 DEF LatestWindow
          <6>2. ~(t[2] > windowChanges)
            BY <4>3, <5>1, <5>2 DEF TimersInOrder
          <6> QED BY <1>1, <6>1, <6>2
        <5>4. windowChanges > 0 /\ timer[LatestWindow].at \in {"unarmed", "armed"}
          BY <1>1, <3>2, <5>1, <5>2, <5>3 DEF TimersInOrder, LatestWindow
        <5>5. timer[LatestWindow].at = "unarmed" => WindowArming
          BY <1>1, <5>2, <5>4 DEF TimersInOrder, LatestWindow
        <5>6. WindowPending(BeforeWindow) /\ WindowPending(BeforeCanvas)
          BY <5>4, <5>5 DEF WindowPending, BeforeWindow, BeforeCanvas
        <5> QED BY <3>2, <3>3, <3>5, <4>2, <5>6 DEF BoundsFollow
      <4>4. CASE timer[t].at \notin {"steady", "windowSet"}
        <5>1. UNCHANGED <<gWindow, gCanvas>>
          BY <3>1, <4>4 DEF Publishes
        <5> QED BY <3>2, <3>3, <3>5, <4>2, <5>1 DEF BoundsFollow
      <4> QED BY <4>3, <4>4
    <3> QED BY <3>7, <3>8
  <2>7. ASSUME NEW i \in Captures, FetchesWindow(i) \/ CaptureProceeds(i) PROVE BoundsFollow'
    <3>1. CaptureDoes(i)
      BY <2>7, CaptureEffects
    <3>2. SUFFICES ASSUME limits.prompt, limits.known, Calm' PROVE BoundsFollow'
      BY <2>1 DEF BoundsFollow
    <3>3. windowMoves = 0
      BY <3>1, <3>2 DEF Calm, CaptureDoes
    <3>4. Noticed = 0 /\ capture[i].saw = 0
      <4>1. Noticed \in 0 .. windowMoves /\ capture[i].saw \in 0 .. windowMoves
        BY NoticedBefore DEF WindowFollows
      <4> QED BY <3>3, <4>1
    <3>5. Noticed' = Noticed
      BY <3>1 DEF CaptureDoes, Noticed, LatestWindow
    <3>6. gWindow = RectAfter(0) /\ gCanvas = CanvasAfter(0) /\ lastWindowBounds = RectAfter(0)
      BY <3>2, <3>3 DEF WindowFollows
    <3> QED BY <3>1, <3>4, <3>5, <3>6 DEF BoundsFollow, CaptureDoes
  <2> QED BY <1>3, <2>2, <2>3, <2>4, <2>5, <2>6, <2>7, StepKinds
<1> QED BY <1>2, <1>3 DEF Next

(***************************************************************************)
(* The frame: it is computed from what there is now, unless a timer has    *)
(* published bounds for which its commit is still to come.                 *)
(***************************************************************************)
Recommits == \E t \in Timers : timer[t].at \in {"windowSet", "canvasSet", "located"}

PlacedFollows ==
  limits.known /\ Calm /\ gCurrentText \notin EmptyTexts =>
    \/ Recommits \/ InQueue("doCommitMove")
    \/ placed = Placement(gGridSpot, gCurrentText, labelFont)

LEMMA PlacedStays ==
  ASSUME QueueTypeOK, PlacedFollows, Calm' => Calm,
         UNCHANGED <<limits, gWindow, gCanvas, gCurrentText, frameVars>>,
         Recommits => Recommits', PostsOther
  PROVE  PlacedFollows'
<1>1. InQueue("doCommitMove") => InQueue("doCommitMove")'
  BY StaysInQueue
<1>2. Placement(gGridSpot, gCurrentText, labelFont)' = Placement(gGridSpot, gCurrentText, labelFont)
  BY DEF Placement, Placeable, frameVars
<1> QED BY <1>1, <1>2 DEF PlacedFollows, frameVars

LEMMA PlacedInvariant ==
  TypeOK /\ TimerOrder /\ WindowFollows /\ PlacedFollows /\ [Next]_vars => PlacedFollows'
<1> SUFFICES ASSUME TypeOK, TimerOrder, WindowFollows, PlacedFollows, [Next]_vars
             PROVE  PlacedFollows'
  OBVIOUS
<1>1. QueueTypeOK
  BY DEF TypeOK, OverlayTypeOK
<1>2. CASE UNCHANGED vars
  <2>1. UNCHANGED <<limits, gWindow, gCanvas, gCurrentText, frameVars, timer, windowMoves,
                    capture, mainQueue>>
    BY <1>2 DEF vars, goVars, moveVars, overlayVars, sharedVars, windowVars
  <2>2. (Calm' => Calm) /\ (Recommits => Recommits') /\ PostsOther
    BY <2>1 DEF Calm, Recommits, PostsOther
  <2> QED BY <1>1, <2>1, <2>2, PlacedStays
<1>3. CASE (Daemon \/ Environment) /\ UNCHANGED <<limits, gFadeDuration>>
  <2>1. UNCHANGED limits /\ (Calm' => Calm)
    BY <1>3, CalmBefore
  <2>2. CASE MainThread /\ UNCHANGED goVars
    <3>1. Recommits => Recommits'
      BY <2>2 DEF goVars, Recommits
    <3>2. UNCHANGED <<gWindow, gCanvas>> /\ (Renders \/ Replaces \/ Leaves)
      BY <2>2, FrameSteps DEF sharedVars
    <3>3. limits.known => gWindow # Nil
      BY NilAssumption DEF WindowFollows
    <3>4. CASE Renders
      <4>1. gCurrentText' \notin EmptyTexts /\ limits.known =>
              placed' = Placement(gGridSpot, gCurrentText, labelFont)'
        BY <3>2, <3>3, <3>4 DEF Placement, Placeable, Renders
      <4> QED BY <2>1, <4>1 DEF PlacedFollows
    <3>5. CASE Replaces
      <4>1. gCurrentText' \notin EmptyTexts /\ limits.known =>
              placed' = Placement(gGridSpot, gCurrentText, labelFont)'
        BY <3>2, <3>3, <3>5 DEF Placement, Placeable, Replaces
      <4> QED BY <2>1, <4>1 DEF PlacedFollows
    <3>6. CASE Leaves
      <4>1. Placement(gGridSpot, gCurrentText, labelFont)' = Placement(gGridSpot, gCurrentText, labelFont)
        BY <3>2, <3>6 DEF Placement, Placeable, Leaves, frameVars
      <4> QED BY <2>1, <3>1, <3>6, <4>1 DEF PlacedFollows, Leaves, frameVars
    <3> QED BY <3>2, <3>4, <3>5, <3>6
  <2>3. CASE GridPress \/ GridFades \/ WindowMoves \/ FontKey \/ SendsReposition \/ Quiet
    <3>1. UNCHANGED <<gWindow, gCanvas, gCurrentText, frameVars, timer>>
      BY <2>3 DEF GridPress, GridFades, WindowMoves, FontKey, Adjusts, SendsReposition, Quiet,
         overlayVars, sharedVars, windowVars, SetFontSize, ResetFontSize, Dispatch, Post, NoPost
    <3>2. PostsOther
      BY <2>3, OtherPosted DEF GridPress, GridFades, WindowMoves, FontKey, SendsReposition, Quiet,
         overlayVars, SetFontSize, ResetFontSize, NoPost, PostsOther, Selectors
    <3> QED BY <1>1, <2>1, <3>1, <3>2, PlacedStays DEF Recommits
  <2>4. CASE GridArms \/ WindowArms
    <3>1. UNCHANGED <<gWindow, gCanvas, gCurrentText, frameVars, mainQueue>>
      BY <2>4 DEF GridArms, WindowArms, overlayVars, sharedVars, windowVars
    <3>2. ASSUME NEW t, NEW spot, Arm(t, spot), t \in Timers => timer[t].at = "unarmed"
          PROVE  Recommits => Recommits'
      BY <3>2, ArmedTimers DEF Recommits
    <3>3. Recommits => Recommits'
      <4>1. CASE GridArms
        <5>1. Arm(LatestGrid, gridSpot) /\ GridArming
          BY <4>1 DEF GridArms, GridArming, LatestGrid
        <5>2. LatestGrid \in Timers => timer[LatestGrid].at = "unarmed"
          BY <5>1 DEF TimerOrder, TimersInOrder, LatestGrid
        <5> QED BY <3>2, <5>1, <5>2
      <4>2. CASE WindowArms
        <5>1. Arm(LatestWindow, timer[LatestWindow].spot) /\ WindowArming
          BY <4>2 DEF WindowArms, WindowArming, LatestWindow
        <5>2. LatestWindow \in Timers => timer[LatestWindow].at = "unarmed"
          BY <5>1 DEF TimerOrder, TimersInOrder, LatestWindow
        <5> QED BY <3>2, <5>1, <5>2
      <4> QED BY <2>4, <4>1, <4>2
    <3> QED BY <1>1, <2>1, <3>1, <3>3, PlacedStays DEF PostsOther
  <2>5. CASE WindowChanges
    <3>1. UNCHANGED <<gWindow, gCanvas, gCurrentText, frameVars>>
      BY <2>5 DEF WindowChanges, NoPost, Dispatch, Post, sharedVars, windowVars
    <3>2. PostsOther
      BY <2>5, OtherPosted DEF WindowChanges, NoPost, PostsOther, Selectors
    <3>3. Recommits => Recommits'
      BY <2>5, SettledTimers DEF Recommits
    <3> QED BY <1>1, <2>1, <3>1, <3>2, <3>3, PlacedStays
  <2>6. ASSUME NEW t \in Timers, Fires(t) \/ Callback(t) PROVE PlacedFollows'
    <3>1. TimerStep(t) /\ Publishes(t) /\ Posted(t)
      BY <2>6, TimerSteps
    <3>2. CASE timer[t].at = "located"
      <4>1. InQueue("doCommitMove")'
        <5>1. \E item \in Items : item.sel = "doCommitMove" /\ mainQueue' = Append(mainQueue, item)
          BY <3>1, <3>2 DEF Posted, Commit
        <5> QED BY <1>1, <5>1, StaysInQueue
      <4> QED BY <4>1 DEF PlacedFollows
    <3>3. CASE timer[t].at \in {"steady", "windowSet", "canvasSet"}
      <4>1. timer'[t].at \in {"windowSet", "canvasSet", "located"}
        BY <3>1, <3>3 DEF TimerStep
      <4>2. Recommits'
        BY <4>1 DEF Recommits
      <4> QED BY <4>2 DEF PlacedFollows
    <3>4. CASE timer[t].at \notin {"steady", "windowSet", "canvasSet", "located"}
      <4>1. UNCHANGED <<gWindow, gCanvas, gCurrentText, frameVars>> /\ PostsOther
        BY <3>1, <3>4 DEF Publishes, Posted, windowVars
      <4>2. Recommits => Recommits'
        <5>1. ASSUME NEW u \in Timers, timer[u].at \in {"windowSet", "canvasSet", "located"}
              PROVE  timer'[u].at = timer[u].at
          BY <3>1, <3>4, <5>1 DEF TimerStep
        <5> QED BY <5>1 DEF Recommits
      <4> QED BY <1>1, <2>1, <4>1, <4>2, PlacedStays
    <3> QED BY <3>2, <3>3, <3>4
  <2>7. ASSUME NEW i \in Captures, FetchesWindow(i) \/ CaptureProceeds(i) PROVE PlacedFollows'
    <3>1. CaptureDoes(i)
      BY <2>7, CaptureEffects
    <3>2. SUFFICES ASSUME limits.known, Calm' PROVE PlacedFollows'
      BY <2>1 DEF PlacedFollows
    <3>3. windowMoves = 0 /\ capture[i].saw = 0
      <4>1. windowMoves = 0
        BY <3>1, <3>2 DEF Calm, CaptureDoes
      <4>2. capture[i].saw \in 0 .. windowMoves
        BY DEF WindowFollows
      <4> QED BY <4>1, <4>2
    <3>4. UNCHANGED <<gWindow, gCanvas>>
      BY <3>1, <3>2, <3>3 DEF WindowFollows, CaptureDoes
    <3>5. Recommits => Recommits'
      BY <3>1 DEF CaptureDoes, Recommits
    <3> QED BY <1>1, <2>1, <3>1, <3>4, <3>5, PlacedStays DEF CaptureDoes, windowVars
  <2> QED BY <1>3, <2>2, <2>3, <2>4, <2>5, <2>6, <2>7, StepKinds
<1> QED BY <1>2, <1>3 DEF Next

(***************************************************************************)
(* The theorem                                                             *)
(***************************************************************************)
FrameInv ==
  /\ TypeOK /\ TimerOrder /\ SpotFollows /\ FontFollows
  /\ WindowFollows /\ BoundsFollow /\ PlacedFollows

LEMMA InitialFrame == Init => FrameInv
<1> SUFFICES ASSUME Init PROVE FrameInv
  OBVIOUS
<1>1. TypeOK
  BY InitType
<1>2. /\ presses = 0 /\ windowChanges = 0 /\ windowMoves = 0 /\ ~GridArming /\ ~WindowArming
      /\ gridSpot = InitialSpot /\ gCurrentText = 0
      /\ \A t \in Timers : timer[t].at = "unarmed" /\ timer[t].settled = 0
      /\ \A i \in Captures : capture[i].saw = 0
  BY DEF Init, OverlayInit, GridArming, WindowArming
<1>3. TimerOrder
  BY <1>2, TimerNames DEF TimerOrder, TimersInOrder, OneRuns, Running, Dormant, TimerStages, Settling
<1>4. SpotFollows
  <2>1. InitialSpot \in Spots
    BY OverlayAssumption
  <2>2. \/ mainQueue = <<Commit(InitialSpot)>>
        \/ mainQueue = <<Item("showWindow", 0), Commit(InitialSpot)>>
    BY DEF Init, OverlayInit
  <2>3. PICK last \in DOMAIN mainQueue : /\ mainQueue[last] = Commit(InitialSpot)
                                         /\ \A m \in DOMAIN mainQueue : ~(m > last)
    <3>1. ASSUME NEW a, mainQueue = <<a>>
          PROVE  1 \in DOMAIN mainQueue /\ mainQueue[1] = a /\ \A m \in DOMAIN mainQueue : ~(m > 1)
      BY <3>1
    <3>2. ASSUME NEW a, NEW b, mainQueue = <<b, a>>
          PROVE  2 \in DOMAIN mainQueue /\ mainQueue[2] = a /\ \A m \in DOMAIN mainQueue : ~(m > 2)
      BY <3>2
    <3> QED BY <2>2, <3>1, <3>2
  <2>4. LastSpot(gridSpot)
    BY <1>2, <2>3 DEF LastSpot, Commits, Commit
  <2> QED BY <1>2, <2>4 DEF SpotFollows
<1>5. FontFollows
  BY <1>2, OverlayWindowAssumption DEF FontFollows
<1>6. WindowFollows
  <2>1. 0 \in 0 .. MaxWindowMoves
    BY OverlayAssumption
  <2>2. RectAfter(0) \in Rectangles
    BY <2>1, RectangleOfWindow
  <2>3. /\ lastWindowBounds = gWindow
        /\ limits.known => gWindow = RectAfter(0) /\ gCanvas = CanvasAfter(0)
    BY DEF Init
  <2> QED BY <1>2, <2>2, <2>3 DEF WindowFollows
<1>7. BoundsFollow
  BY <1>2, <1>6 DEF BoundsFollow, WindowFollows, Noticed
<1>8. PlacedFollows
  BY <1>2, OverlayWindowAssumption DEF PlacedFollows
<1> QED BY <1>1, <1>3, <1>4, <1>5, <1>6, <1>7, <1>8 DEF FrameInv

LEMMA FrameInvariant == FrameInv /\ [Next]_vars => FrameInv'
BY StepType, TimerOrderInvariant, SpotInvariant, FontInvariant, WindowInvariant,
   BoundsInvariant, PlacedInvariant DEF FrameInv

\* The tracker follows the window that was captured, which belongs to one application.
OneApplication ==
  \A m, n \in 0 .. MaxWindowMoves : WindowAfter[m].app = WindowAfter[n].app

\* So a window whose rectangle is the same as before has the same canvas.
LEMMA RectangleFixesCanvas ==
  ASSUME OneApplication, NEW m \in 0 .. MaxWindowMoves, NEW n \in 0 .. MaxWindowMoves,
         RectAfter(m) = RectAfter(n)
  PROVE  CanvasAfter(m) = CanvasAfter(n)
<1>1. WindowAfter[m] \in Windows /\ WindowAfter[n] \in Windows
  BY OverlayAssumption
<1>2. ASSUME NEW v \in Windows, NEW w \in Windows, v.app = w.app, WindowRect(v) = WindowRect(w)
      PROVE  CanvasBounds(v) = CanvasBounds(w)
  <2>1. ASSUME NEW u \in Windows
        PROVE  /\ u.x \in Int /\ u.y \in Int /\ u.width \in Nat /\ u.height \in Nat
               /\ WindowRect(u).minX = u.x /\ WindowRect(u).minY = u.y
               /\ WindowRect(u).maxX = u.x + u.width /\ WindowRect(u).maxY = u.y + u.height
    <3>1. u.x \in Int /\ u.y \in Int /\ u.width \in Nat \ {0} /\ u.height \in Nat \ {0}
      BY DEF Windows
    <3> QED BY <3>1 DEF WindowRect, Rect, Lesser, Greater
  <2>2. v.x = w.x /\ v.y = w.y /\ v.x + v.width = w.x + w.width /\ v.y + v.height = w.y + w.height
    BY <1>2, <2>1
  <2>3. v.width = w.width /\ v.height = w.height
    BY <2>1, <2>2
  <2> QED BY <1>2, <2>2, <2>3 DEF CanvasBounds
<1> QED BY <1>1, <1>2 DEF OneApplication, RectAfter, CanvasAfter

LEMMA RestIsPlaced ==
  ASSUME OneApplication, FrameInv
  PROVE  PromptMoveReachesSpot
<1> SUFFICES ASSUME limits.prompt, limits.known, Calm, Quiescent, gCurrentText \notin EmptyTexts
             PROVE  Frame(placed) = FrameWanted
  BY DEF PromptMoveReachesSpot, PlacedAsWanted, Calm
<1>1. /\ DOMAIN mainQueue = {} /\ ~GridArming /\ ~WindowArming /\ fontTracker = "receive"
      /\ lastWindowBounds \in {Nil, RectAfter(windowMoves)}
      /\ \A t \in Timers : timer[t].at \in Dormant
  BY DEF Quiescent, GridArming, WindowArming
<1>2. /\ presses \in Nat /\ (presses > 0 => LatestGrid \in Timers)
      /\ windowChanges \in Nat /\ (windowChanges > 0 => LatestWindow \in Timers)
  BY LatestTimers, TimerNames DEF FrameInv, LatestGrid, LatestWindow
<1>3. gGridSpot = gridSpot
  <2>1. ~GridComing /\ ~(presses > 0 /\ timer[LatestGrid].at = "located")
    BY <1>1, <1>2 DEF GridComing, Dormant
  <2> QED BY <1>1, <2>1 DEF FrameInv, SpotFollows, LastSpot
<1>4. labelFont = gFontSize
  BY <1>1 DEF FrameInv, FontFollows, InQueue
<1>5. placed = Placement(gGridSpot, gCurrentText, labelFont)
  <2>1. ~Recommits
    BY <1>1 DEF Recommits, Dormant
  <2> QED BY <1>1, <2>1 DEF FrameInv, PlacedFollows, InQueue
<1>6. gWindow = RectAfter(windowMoves) /\ gCanvas = CanvasAfter(windowMoves)
  <2>1. ~WindowPending(BeforeWindow) /\ ~WindowPending(BeforeCanvas)
    BY <1>1, <1>2 DEF WindowPending, BeforeWindow, BeforeCanvas, Dormant
  <2>2. /\ lastWindowBounds = RectAfter(Noticed)
        /\ gWindow = RectAfter(Noticed) /\ gCanvas = CanvasAfter(Noticed)
    BY <2>1 DEF FrameInv, BoundsFollow
  <2>3. RectAfter(Noticed) = RectAfter(windowMoves)
    BY <1>1, <2>2, NilAssumption DEF FrameInv, WindowFollows
  <2>4. Noticed \in 0 .. MaxWindowMoves /\ windowMoves \in 0 .. MaxWindowMoves
    BY NoticedBefore DEF FrameInv
  <2>5. CanvasAfter(Noticed) = CanvasAfter(windowMoves)
    BY <2>3, <2>4, RectangleFixesCanvas
  <2> QED BY <2>2, <2>3, <2>5
<1>7. Placeable(gCurrentText)
  <2>1. gWindow # Nil
    BY NilAssumption DEF FrameInv, WindowFollows
  <2> QED BY <2>1 DEF Placeable, Area
<1>8. /\ placed.window = gWindow /\ placed.canvas = gCanvas /\ placed.spot = gridSpot
      /\ placed.text = gCurrentText /\ placed.font = gFontSize
  BY <1>3, <1>4, <1>5, <1>7 DEF Placement
<1>9. Area(placed.window, placed.canvas) # Nil
  BY <1>7, <1>8 DEF Placeable
<1> QED BY <1>6, <1>8, <1>9 DEF Frame, FrameWanted

\* Once everything has come to rest, the text is at the spot the last grid key chose, in
\* the window as it is and in the size the last font key chose, if callbacks of the
\* debounce timers did not overlap and no capture published a window on the move
\* (trackTeleprompterGridPosition, restoreAfterWindowSettle, doCommitMove).
THEOREM PromptMoveAlwaysReachesSpot ==
  ASSUME OneApplication
  PROVE  Safety => []PromptMoveReachesSpot
<1>1. Init => FrameInv
  BY InitialFrame
<1>2. FrameInv /\ [Next]_vars => FrameInv'
  BY FrameInvariant
<1>3. FrameInv => PromptMoveReachesSpot
  BY RestIsPlaced
<1> QED BY <1>1, <1>2, <1>3, PTL DEF Safety

(***************************************************************************)
(* Showing and hiding.  The window that a capture ordered out is ordered   *)
(* in again once the picture has been taken.                               *)
(***************************************************************************)
OutForCapture ==
  InQueue("orderInAfterCapture") \/ \E i \in Captures : capture[i].at \in {"hiding", "grabbing"}

CapturesHide ==
  \A k \in DOMAIN mainQueue : mainQueue[k].sel = "orderOutForCapture" =>
    \E i \in Captures : mainQueue[k] = Item("orderOutForCapture", i) /\ capture[i].at = "hiding"

\* A step of the Go side puts at most one selector into the queue.
PostsOne(S) ==
  \/ UNCHANGED mainQueue
  \/ \E item \in Items : item.sel \in S /\ mainQueue' = Append(mainQueue, item)

LEMMA DispatchPosts ==
  ASSUME NEW sel \in Selectors, NEW arg \in Nat, NEW S, sel \in S, Dispatch(sel, arg)
  PROVE  PostsOne(S)
BY ItemType DEF Dispatch, Post, PostsOne

LEMMA CapturesHideStays ==
  ASSUME QueueTypeOK, CapturesHide, NEW S, PostsOne(S), "orderOutForCapture" \notin S,
         \A i \in Captures : capture[i].at = "hiding" => capture'[i].at = "hiding"
  PROVE  CapturesHide'
<1>1. CASE UNCHANGED mainQueue
  BY <1>1 DEF CapturesHide
<1>2. ASSUME NEW item \in Items, item.sel \in S, mainQueue' = Append(mainQueue, item)
      PROVE  CapturesHide'
  <2>1. /\ \A k \in DOMAIN mainQueue : k \in DOMAIN mainQueue' /\ mainQueue'[k] = mainQueue[k]
        /\ \A k \in DOMAIN mainQueue' : k \in DOMAIN mainQueue \/ mainQueue'[k] = item
    BY <1>2, QueueGrows
  <2> QED BY <1>2, <2>1 DEF CapturesHide
<1> QED BY <1>1, <1>2 DEF PostsOne

\* Which selectors the steps of the Go side dispatch.
Turning   == {"showWindow", "hideWindow"}
Vanishing == {"doFadeOutForMove", "doHideForWindowChange"}

LEMMA TimersPost ==
  ASSUME TypeOK, NEW t \in Timers, Fires(t) \/ Callback(t)
  PROVE  /\ \/ PostsOne({"doCommitMove"})
            \/ /\ timer[t].at \in {"decided", "freed"} /\ timer[t].show /\ PostsOne({"doFadeInAfterMove"})
         /\ timer'[t].at = "done" =>
              /\ timer[t].at \in {"decided", "freed"}
              /\ timer[t].show => Dispatch("doFadeInAfterMove", 0)
         /\ timer'[t].at = "decided" => timer'[t].show = intendedVisible
         /\ timer'[t].at = "freed" => timer[t].at = "decided" /\ timer'[t].show = timer[t].show
<1>1. CASE FadesInAfterMove(t)
  <2>1. timer'[t].at = "done"
    <3>1. PICK from \in {"freed", "decided"} : Moves(t, from, "done")
      BY <1>1 DEF FadesInAfterMove
    <3>2. /\ timer[t].at = from /\ timer'[t].at = "done"
          /\ \A u \in Timers : u # t => timer'[u] = timer[u]
          /\ timer'[t].settled = timer[t].settled /\ timer'[t].spot = timer[t].spot
      BY <3>1, TimerField
    <3> QED BY <3>2
  <2>2. timer[t].at \in {"decided", "freed"}
    BY <1>1 DEF FadesInAfterMove, Moves
  <2>3. IF timer[t].show THEN Dispatch("doFadeInAfterMove", 0) ELSE NoPost
    BY <1>1 DEF FadesInAfterMove
  <2>4. CASE timer[t].show
    <3>1. Dispatch("doFadeInAfterMove", 0)
      BY <2>3, <2>4
    <3>2. PostsOne({"doFadeInAfterMove"})
      BY <3>1, DispatchPosts DEF Selectors
    <3> QED BY <2>1, <2>2, <2>4, <3>1, <3>2
  <2>5. CASE ~timer[t].show
    <3>1. UNCHANGED mainQueue
      BY <2>3, <2>5 DEF NoPost
    <3> QED BY <2>1, <2>2, <2>5, <3>1 DEF PostsOne
  <2> QED BY <2>4, <2>5
<1>2. CASE ReadsIntended(t)
  <2>1. timer' = [timer EXCEPT ![t].at = "decided", ![t].show = intendedVisible]
    BY <1>2 DEF ReadsIntended
  <2>2. timer'[t].at = "decided" /\ timer'[t].show = intendedVisible
    BY <2>1 DEF TypeOK, TimerTypeOK
  <2>3. UNCHANGED mainQueue
    BY <1>2 DEF ReadsIntended, timerOnly, NoPost
  <2> QED BY <2>2, <2>3 DEF PostsOne
<1>3. CASE EndsFading(t)
  <2>1. timer' = [timer EXCEPT ![t].at = "freed"] /\ timer[t].at = "decided" /\ UNCHANGED mainQueue
    BY <1>3 DEF EndsFading, Moves, NoPost
  <2>2. timer'[t].at = "freed" /\ timer'[t].show = timer[t].show
    BY <2>1 DEF TypeOK, TimerTypeOK
  <2> QED BY <2>1, <2>2 DEF PostsOne
<1>4. CASE CommitsMove(t)
  <2>2. timer[t].at = "located"
    BY <1>4 DEF CommitsMove, Moves
  <2>1. timer'[t].at = "committed"
    BY <2>2, TimerSteps DEF TimerStep
  <2>3. Commit(timer[t].spot) \in Items /\ mainQueue' = Append(mainQueue, Commit(timer[t].spot))
    BY <1>4, <2>2, TimerSteps DEF Posted
  <2> QED BY <2>1, <2>3 DEF PostsOne, Commit
<1>5. CASE Fires(t) \/ WindowSteady(t) \/ SettlesWindow(t) \/ SettlesCanvas(t) \/ LocatesSpot(t)
  <2>1. UNCHANGED mainQueue
    BY <1>5 DEF Fires, WindowSteady, SettlesWindow, SettlesCanvas, LocatesSpot, timerOnly, NoPost,
       SetWindowBounds, SetCanvasBounds
  <2>2. timer[t].at \in {"armed", "fired", "steady", "windowSet", "canvasSet"}
    BY <1>5 DEF Fires, WindowSteady, SettlesWindow, SettlesCanvas, LocatesSpot, Moves
  <2>3. timer'[t].at \in {"located", "fired", "steady", "windowSet", "canvasSet"}
    BY <2>2, TimerSteps DEF TimerStep
  <2> QED BY <2>1, <2>3 DEF PostsOne
<1> QED BY <1>1, <1>2, <1>3, <1>4, <1>5 DEF Callback

LEMMA CapturesPost ==
  ASSUME TypeOK, NEW i \in Captures, FetchesWindow(i) \/ CaptureProceeds(i)
  PROVE  /\ UNCHANGED <<globalVars, intentVars, methodVars>>
         /\ \A j \in Captures : j # i => capture'[j] = capture[j]
         /\ \/ UNCHANGED mainQueue /\ capture[i].at \notin {"hiding", "grabbing"} /\ capture'[i].at \notin {"hiding", "grabbing"}
            \/ /\ capture[i].at = "canvasSet" /\ capture'[i].at = "hiding"
               /\ mainQueue' = Append(mainQueue, Item("orderOutForCapture", i))
            \/ /\ capture[i].at = "hiding" /\ capture'[i].at = "grabbing"
               /\ UNCHANGED mainQueue /\ Performed("orderOutForCapture", i)
            \/ /\ capture[i].at = "grabbing" /\ capture'[i].at = "restoring"
               /\ mainQueue' = Append(mainQueue, Item("orderInAfterCapture", i))
<1>1. captureFrame
  BY DEF CaptureProceeds, FetchesWindow, StoresWindow, PublishesWindow, PublishesCanvas,
         HidesForCapture, Grabs, Restores, CaptureEnds, CaptureGoes
<1>2. \A j \in Captures : j # i => capture'[j] = capture[j]
  BY CaptureEffects DEF CaptureDoes
<1>3. CASE FetchesWindow(i)
  BY <1>1, <1>2, <1>3 DEF FetchesWindow, NoPost, captureFrame, TypeOK, CaptureTypeOK
<1>4. CASE StoresWindow(i) \/ PublishesWindow(i) \/ PublishesCanvas(i) \/ CaptureEnds(i)
  <2>1. /\ capture[i].at \in {"fetched", "stored", "windowSet", "restoring"}
        /\ capture'[i].at \in {"stored", "windowSet", "canvasSet", "done"}
    BY <1>4, CaptureState DEF StoresWindow, PublishesWindow, PublishesCanvas, CaptureEnds
  <2>2. UNCHANGED mainQueue
    BY <1>4 DEF StoresWindow, PublishesWindow, PublishesCanvas, CaptureEnds, NoPost,
       SetWindowBounds, SetCanvasBounds
  <2> QED BY <1>1, <1>2, <2>1, <2>2 DEF captureFrame
<1>5. CASE HidesForCapture(i)
  BY <1>1, <1>2, <1>5, CaptureState DEF HidesForCapture, Dispatch, Post, captureFrame
<1>6. CASE Grabs(i)
  BY <1>1, <1>2, <1>6, CaptureState DEF Grabs, NoPost, captureFrame
<1>7. CASE Restores(i)
  BY <1>1, <1>2, <1>7, CaptureState DEF Restores, Dispatch, Post, captureFrame
<1> QED BY <1>3, <1>4, <1>5, <1>6, <1>7 DEF CaptureProceeds

LEMMA OutOn ==
  ASSUME TypeOK, NEW i \in Captures, FetchesWindow(i) \/ CaptureProceeds(i)
  PROVE  OutForCapture => OutForCapture'
<1> SUFFICES ASSUME OutForCapture PROVE OutForCapture'
  OBVIOUS
<1>1. QueueTypeOK /\ Item("orderOutForCapture", i) \in Items /\ Item("orderInAfterCapture", i) \in Items
      /\ Item("orderInAfterCapture", i).sel = "orderInAfterCapture"
  BY CaptureItem DEF TypeOK, OverlayTypeOK, Selectors
<1>2. InQueue("orderInAfterCapture") => InQueue("orderInAfterCapture")'
  <2>1. CASE UNCHANGED mainQueue
    BY <2>1 DEF InQueue
  <2> QED BY <1>1, <2>1, CapturesPost, StaysInQueue
<1>3. ASSUME NEW j \in Captures, capture[j].at \in {"hiding", "grabbing"}
      PROVE  OutForCapture'
  <2>1. CASE capture'[j].at \in {"hiding", "grabbing"}
    BY <2>1 DEF OutForCapture
  <2>2. CASE capture'[j].at \notin {"hiding", "grabbing"}
    <3>1. j = i
      BY <1>3, <2>2, CapturesPost
    <3>2. mainQueue' = Append(mainQueue, Item("orderInAfterCapture", i))
      BY <1>3, <2>2, <3>1, CapturesPost
    <3>3. InQueue("orderInAfterCapture")'
      BY <1>1, <3>2, StaysInQueue
    <3> QED BY <3>3 DEF OutForCapture
  <2> QED BY <2>1, <2>2
<1> QED BY <1>2, <1>3 DEF OutForCapture

LEMMA ShowSteps ==
  ASSUME TypeOK, Daemon \/ Environment
  PROVE  \/ MainThread /\ UNCHANGED goVars
         \/ \E c \in Callers : OverlayCall(c)
         \/ Toggle
         \/ \E c \in Clients : SetOutputMethod(c) /\ (SetRequest(c) => c \in limits.clients)
         \/ GridPress \/ GridFades \/ GridArms \/ WindowMoves \/ WindowChanges \/ WindowArms
         \/ Answer \/ Display \/ OpacityKey \/ FontKey \/ SendsReposition
         \/ \E t \in Timers : Fires(t) \/ Callback(t)
         \/ \E i \in Captures : FetchesWindow(i) \/ CaptureProceeds(i)
<1>1. limits.captures \subseteq Captures /\ limits.clients \subseteq Clients
  BY OverlayAssumption DEF TypeOK, Scenario
<1>2. ASSUME NEW c \in Clients, StoresMethod(c) \/ SetsPoller(c) \/ SwitchesOverlay(c)
      PROVE  SetOutputMethod(c) /\ (SetRequest(c) => c \in limits.clients)
  <2>1. switching[c] # NoRequest
    BY <1>2 DEF StoresMethod, SetsPoller, SwitchesOverlay, NoRequest
  <2> QED BY <1>2, <2>1 DEF SetOutputMethod, SetRequest
<1> QED BY <1>1, <1>2 DEF Daemon, Environment, GridTracker, SetOutputMethod

\* A debounce timer that will have the window faded in.
FadeInDue ==
  GridArming \/ WindowArming \/ \E t \in Timers : timer[t].at \in Running \cup {"armed"}

LEMMA TrackersPost ==
  ASSUME TypeOK, TimerOrder,
         GridPress \/ GridFades \/ GridArms \/ WindowMoves \/ WindowChanges \/ WindowArms
  PROVE  /\ UNCHANGED <<globalVars, windowVars, intentVars, methodVars, capture, answered, texts>>
         /\ UNCHANGED mainQueue \/ (FadeInDue' /\ PostsOne(Vanishing))
         /\ FadeInDue => FadeInDue'
         /\ \A t \in Timers : timer'[t].at \in {"decided", "freed"} =>
              timer'[t].at = timer[t].at /\ timer'[t].show = timer[t].show
<1>1. CASE GridPress \/ GridFades \/ WindowMoves
  <2>1. /\ UNCHANGED <<globalVars, windowVars, intentVars, methodVars, capture, timer, windowTracker,
                       answered, texts>>
        /\ GridArming => GridArming'
        /\ GridFades => GridArming'
    BY <1>1 DEF GridPress, GridFades, WindowMoves, overlayVars, moveVars, gridVars, GridArming, textVars
  <2>2. GridFades => PostsOne(Vanishing)
    BY DispatchPosts DEF GridFades, NoPost, PostsOne, Vanishing, Selectors
  <2>3. GridPress \/ WindowMoves => UNCHANGED mainQueue
    BY DEF GridPress, WindowMoves, overlayVars
  <2> QED BY <1>1, <2>1, <2>2, <2>3 DEF FadeInDue, WindowArming
<1>2. CASE WindowChanges
  <2>1. /\ UNCHANGED <<globalVars, windowVars, intentVars, methodVars, capture, answered, texts>>
        /\ WindowArming'
    BY <1>2 DEF WindowChanges, WindowArming, textVars
  <2>2. PostsOne(Vanishing)
    BY <1>2, DispatchPosts DEF WindowChanges, NoPost, PostsOne, Vanishing, Selectors
  <2>3. \A t \in Timers : timer'[t].show = timer[t].show /\ timer'[t].at = timer[t].at
    BY <1>2 DEF WindowChanges, TypeOK, TimerTypeOK
  <2> QED BY <2>1, <2>2, <2>3 DEF FadeInDue
<1>3. CASE GridArms \/ WindowArms
  <2>1. /\ UNCHANGED <<globalVars, windowVars, intentVars, methodVars, capture, mainQueue, answered, texts>>
    BY <1>3 DEF GridArms, WindowArms, overlayVars, textVars
  <2>2. ASSUME NEW t \in Timers, NEW spot, Arm(t, spot)
        PROVE  /\ FadeInDue'
               /\ \A u \in Timers : timer'[u].at \in {"decided", "freed"} =>
                    timer'[u].at = timer[u].at /\ timer'[u].show = timer[u].show
    <3>1. timer'[t].at = "armed"
      BY <2>2, ArmedTimers
    <3>2. ASSUME NEW u \in Timers, timer'[u].at \in {"decided", "freed"}
          PROVE  timer'[u].at = timer[u].at /\ timer'[u].show = timer[u].show
      <4>1. u # t /\ timer'[u].at = timer[u].at /\ timer[u].at # "armed"
        BY <2>2, <3>1, <3>2, ArmedTimers
      <4>2. timer'[u] = timer[u]
        BY <2>2, <4>1 DEF Arm
      <4> QED BY <4>2
    <3> QED BY <3>1, <3>2 DEF FadeInDue
  <2>3. \E t \in Timers : \E spot : Arm(t, spot)
    <3>1. CASE GridArms
      <4>1. Arm(<<"grid", presses>>, gridSpot) /\ GridArming
        BY <3>1 DEF GridArms, GridArming
      <4>2. <<"grid", presses>> \in Timers
        BY <4>1, LatestTimers DEF TimerOrder, TimersInOrder
      <4> QED BY <4>1, <4>2
    <3>2. CASE WindowArms
      <4>1. Arm(<<"window", windowChanges>>, timer[<<"window", windowChanges>>].spot) /\ WindowArming
        BY <3>2 DEF WindowArms, WindowArming
      <4>2. <<"window", windowChanges>> \in Timers
        BY <4>1, LatestTimers DEF TimerOrder, TimersInOrder
      <4> QED BY <4>1, <4>2
    <3> QED BY <1>3, <3>1, <3>2
  <2> QED BY <2>1, <2>2, <2>3
<1> QED BY <1>1, <1>2, <1>3

LEMMA TextsPost ==
  ASSUME TypeOK, Answer \/ Display \/ OpacityKey \/ FontKey \/ SendsReposition
  PROVE  /\ UNCHANGED <<globalVars, windowVars, intentVars, methodVars, gridVars, moveVars, timer, capture>>
         /\ PostsOne({"reposition"}) \/ (Display /\ PostsOne({"updateText"}))
<1>1. UNCHANGED <<globalVars, windowVars, intentVars, methodVars, gridVars, moveVars, timer, capture>>
  BY DEF Answer, Display, OpacityKey, FontKey, Adjusts, SendsReposition, overlayVars,
         SetFontSize, ResetFontSize
<1>2. Answer \/ FontKey => UNCHANGED mainQueue
  BY DEF Answer, FontKey, overlayVars, SetFontSize, ResetFontSize
<1>3. OpacityKey \/ SendsReposition => PostsOne({"reposition"})
  BY DispatchPosts DEF OpacityKey, SendsReposition, Selectors
<1>4. Display => PostsOne({"updateText"})
  <2>1. texts + 1 \in Nat
    BY ZeroText, ScenarioType DEF TypeOK, TextTypeOK
  <2> QED BY <2>1, DispatchPosts DEF Display, Selectors
<1> QED BY <1>1, <1>2, <1>3, <1>4 DEF PostsOne

LEMMA CallsPost ==
  ASSUME TypeOK, NEW c \in Callers, OverlayCall(c)
  PROVE  /\ PostsOne(Turning)
         /\ UNCHANGED <<gMoveInProgress, windowVars, intendedVisible, toggles, methodVars, gridVars,
                        moveVars, timer, textVars, capture>>
<1>1. CASE SetsIntent(c) \/ ChecksMove(c)
  BY <1>1 DEF SetsIntent, ChecksMove, SetIntent, overlayVars, globalVars, PostsOne
<1>2. CASE SendsIntent(c)
  <2>1. PICK shown \in BOOLEAN : DispatchIntent(shown)
    BY <1>2 DEF SendsIntent
  <2>2. PostsOne(Turning)
    BY <2>1, DispatchPosts DEF DispatchIntent, Turning, Selectors
  <2> QED BY <1>2, <2>1, <2>2 DEF SendsIntent, DispatchIntent, globalVars
<1> QED BY <1>1, <1>2 DEF OverlayCall

LEMMA CapturesHideInvariant ==
  TypeOK /\ TimerOrder /\ CapturesHide /\ [Next]_vars => CapturesHide'
<1> SUFFICES ASSUME TypeOK, TimerOrder, CapturesHide, [Next]_vars PROVE CapturesHide'
  OBVIOUS
<1>1. QueueTypeOK
  BY DEF TypeOK, OverlayTypeOK
<1>2. CASE UNCHANGED vars
  BY <1>2 DEF vars, goVars, overlayVars, CapturesHide
<1>3. CASE MainThread /\ UNCHANGED goVars
  <2>1. UNCHANGED capture
    BY <1>3 DEF goVars
  <2>2. CASE UNCHANGED mainQueue
    BY <2>1, <2>2 DEF CapturesHide
  <2>3. CASE PerformSelector
    <3>1. \A k \in DOMAIN mainQueue' : k + 1 \in DOMAIN mainQueue /\ mainQueue'[k] = mainQueue[k + 1]
      BY <1>1, <2>3, QueueShrinks DEF PerformSelector
    <3> QED BY <2>1, <3>1 DEF CapturesHide
  <2>4. CASE (\E c \in completions : HideCompletes(c) \/ TextCompletes(c)) \/ FadeInEnds
    BY <2>2, <2>4 DEF HideCompletes, TextCompletes, FadeInEnds
  <2> QED BY <1>3, <2>3, <2>4 DEF MainThread
<1>4. ASSUME NEW c \in Callers, OverlayCall(c) PROVE CapturesHide'
  BY <1>1, <1>4, CallsPost, CapturesHideStays DEF Turning
<1>5. CASE Toggle \/ \E c \in Clients : SetOutputMethod(c)
  <2>1. UNCHANGED <<mainQueue, capture>>
    BY <1>5 DEF Toggle, SetOutputMethod, SetRequest, StoresMethod, SetsPoller, SwitchesOverlay, overlayVars
  <2> QED BY <2>1 DEF CapturesHide
<1>6. CASE GridPress \/ GridFades \/ GridArms \/ WindowMoves \/ WindowChanges \/ WindowArms
  <2>1. UNCHANGED capture /\ PostsOne(Vanishing)
    BY <1>6, TrackersPost DEF PostsOne
  <2> QED BY <1>1, <2>1, CapturesHideStays DEF Vanishing
<1>7. CASE Answer \/ Display \/ OpacityKey \/ FontKey \/ SendsReposition
  <2>1. UNCHANGED capture /\ (PostsOne({"reposition"}) \/ PostsOne({"updateText"}))
    BY <1>7, TextsPost
  <2> QED BY <1>1, <2>1, CapturesHideStays
<1>8. ASSUME NEW t \in Timers, Fires(t) \/ Callback(t) PROVE CapturesHide'
  <2>1. UNCHANGED capture /\ (PostsOne({"doCommitMove"}) \/ PostsOne({"doFadeInAfterMove"}))
    BY <1>8, TimersPost, TimerSteps DEF Publishes
  <2> QED BY <1>1, <2>1, CapturesHideStays
<1>9. ASSUME NEW i \in Captures, FetchesWindow(i) \/ CaptureProceeds(i) PROVE CapturesHide'
  <2>1. \A j \in Captures : j # i => capture'[j] = capture[j]
    BY <1>9, CapturesPost
  <2>2. CASE UNCHANGED mainQueue /\ capture[i].at # "hiding"
    BY <2>1, <2>2 DEF CapturesHide
  <2>3. CASE UNCHANGED mainQueue /\ Performed("orderOutForCapture", i)
    BY <2>1, <2>3 DEF CapturesHide, Performed
  <2>4. ASSUME NEW sel \in {"orderOutForCapture", "orderInAfterCapture"},
               mainQueue' = Append(mainQueue, Item(sel, i)), capture[i].at # "hiding",
               sel = "orderOutForCapture" => capture'[i].at = "hiding"
        PROVE  CapturesHide'
    <3>1. PICK item \in Items : item = Item(sel, i) /\ item.sel = sel
      BY CaptureItem DEF Selectors
    <3>2. /\ \A k \in DOMAIN mainQueue : k \in DOMAIN mainQueue' /\ mainQueue'[k] = mainQueue[k]
          /\ \A k \in DOMAIN mainQueue' : k \in DOMAIN mainQueue \/ mainQueue'[k] = item
      BY <1>1, <2>4, <3>1, QueueGrows
    <3>3. ASSUME NEW k \in DOMAIN mainQueue', mainQueue'[k].sel = "orderOutForCapture"
          PROVE  \E j \in Captures : mainQueue'[k] = Item("orderOutForCapture", j) /\ capture'[j].at = "hiding"
      <4>1. CASE k \in DOMAIN mainQueue
        <5>1. PICK j \in Captures : mainQueue[k] = Item("orderOutForCapture", j) /\ capture[j].at = "hiding"
          BY <3>2, <3>3, <4>1 DEF CapturesHide
        <5>2. j # i
          BY <2>4, <5>1
        <5> QED BY <2>1, <3>2, <4>1, <5>1, <5>2
      <4>2. CASE mainQueue'[k] = item
        BY <2>4, <3>1, <3>3, <4>2
      <4> QED BY <3>2, <4>1, <4>2
    <3> QED BY <3>3 DEF CapturesHide
  <2> QED BY <1>9, <2>2, <2>3, <2>4, CapturesPost
<1> QED BY <1>2, <1>3, <1>4, <1>5, <1>6, <1>7, <1>8, <1>9, ShowSteps DEF Next

(***************************************************************************)
(* Nobody asks for the overlay to be shown or hidden, but moves, captures  *)
(* and texts hide it and bring it back.                                    *)
(***************************************************************************)
Unasked == toggles = 0 /\ switches = 0

UnaskedIntent ==
  /\ \A c \in Callers : call[c] = NoCall
  /\ \A c \in Clients : switching[c] = NoRequest
  /\ intendedVisible = limits.visible /\ gIntendedVisible = limits.visible
  /\ outputMethod = "teleprompter"
  /\ \A t \in Timers : timer[t].at \in {"decided", "freed"} => timer[t].show = limits.visible

NeverHides == ~InQueue("hideWindow") /\ \A c \in completions : c.kind = "text"
AlphaFollows ==
  gOverlayInterpolation = 1 => alphaValue = 1 \/ \E c \in completions : c.gen = generation

StaysHidden == ~visible /\ ~InQueue("showWindow") /\ ~InQueue("doFadeInAfterMove")

\* Will the window be faded in after the first k selectors?
FadesInAfter(k) ==
  FadeInDue \/ \E m \in DOMAIN mainQueue : m > k /\ mainQueue[m].sel = "doFadeInAfterMove"
MoveEnds ==
  /\ gMoveInProgress => FadesInAfter(0)
  /\ \A k \in DOMAIN mainQueue : mainQueue[k].sel \in Vanishing => FadesInAfter(k)
ComesBack ==
  gMoveInProgress \/ InQueue("showWindow")
    \/ (gOverlayInterpolation = 1 /\ (visible \/ OutForCapture))

ShownUnasked ==
  Unasked =>
    /\ UnaskedIntent /\ NeverHides /\ AlphaFollows
    /\ ~limits.visible => StaysHidden
    /\ limits.visible => MoveEnds /\ ComesBack

\* What a step of the Go side does to the window's future.
PostsFadeIn ==
  \E item \in Items : item.sel = "doFadeInAfterMove" /\ mainQueue' = Append(mainQueue, item)
Unturned == Selectors \ Turning
Brings ==
  /\ UNCHANGED <<windowVars, globalVars>>
  /\ PostsOne(Unturned \ Vanishing) \/ (FadeInDue' /\ PostsOne(Unturned))
  /\ limits.visible /\ FadeInDue => FadeInDue' \/ PostsFadeIn
  /\ OutForCapture => OutForCapture'

LEMMA StillHidden ==
  ASSUME QueueTypeOK, UNCHANGED visible, StaysHidden, PostsOne(Unturned), ~PostsFadeIn
  PROVE  StaysHidden'
<1>1. CASE UNCHANGED mainQueue
  BY <1>1 DEF StaysHidden, InQueue
<1>2. ASSUME NEW item \in Items, item.sel \in Unturned, mainQueue' = Append(mainQueue, item)
      PROVE  StaysHidden'
  <2>1. item.sel \notin {"showWindow", "doFadeInAfterMove"}
    BY <1>2 DEF Unturned, Turning, PostsFadeIn
  <2> QED BY <1>2, <2>1, QueueGrows DEF StaysHidden, InQueue
<1> QED BY <1>1, <1>2 DEF PostsOne

LEMMA StillNeverHides ==
  ASSUME QueueTypeOK, UNCHANGED <<completions, generation, gOverlayInterpolation, alphaValue>>,
         NeverHides, AlphaFollows, PostsOne(Unturned)
  PROVE  NeverHides' /\ AlphaFollows'
<1>1. ~InQueue("hideWindow")'
  <2>1. CASE UNCHANGED mainQueue
    BY <2>1 DEF NeverHides, InQueue
  <2>2. ASSUME NEW item \in Items, item.sel \in Unturned, mainQueue' = Append(mainQueue, item)
        PROVE  ~InQueue("hideWindow")'
    BY <2>2, QueueGrows DEF NeverHides, InQueue, Unturned, Turning
  <2> QED BY <2>1, <2>2 DEF PostsOne
<1> QED BY <1>1 DEF NeverHides, AlphaFollows

LEMMA StillComesBack ==
  ASSUME QueueTypeOK, limits.visible, MoveEnds, ComesBack, Brings
  PROVE  MoveEnds' /\ ComesBack'
<1>1. PostsOne(Unturned)
  BY DEF Brings, PostsOne
<1>2. ASSUME NEW k, FadesInAfter(k), k \in DOMAIN mainQueue \cup {0}
      PROVE  FadesInAfter(k)'
  <2>1. CASE FadeInDue'
    BY <2>1 DEF FadesInAfter
  <2>2. ASSUME NEW item \in Items, item.sel = "doFadeInAfterMove", mainQueue' = Append(mainQueue, item)
        PROVE  FadesInAfter(k)'
    <3>1. /\ mainQueue \in Seq(Items)
          /\ mainQueue' \in Seq(Items) /\ Len(mainQueue') = Len(mainQueue) + 1
          /\ mainQueue'[Len(mainQueue) + 1] = item
      BY <2>2, AppendProperties DEF QueueTypeOK
    <3>2. Len(mainQueue) + 1 \in DOMAIN mainQueue' /\ Len(mainQueue) + 1 > k
      BY <1>2, <3>1, LenProperties
    <3> QED BY <2>2, <3>1, <3>2 DEF FadesInAfter
  <2>3. CASE ~FadeInDue
    <3>1. PICK m \in DOMAIN mainQueue : m > k /\ mainQueue[m].sel = "doFadeInAfterMove"
      BY <1>2, <2>3 DEF FadesInAfter
    <3>2. m \in DOMAIN mainQueue' /\ mainQueue'[m] = mainQueue[m]
      BY <1>1, QueueGrows DEF PostsOne
    <3> QED BY <3>1, <3>2 DEF FadesInAfter
  <2> QED BY <2>1, <2>2, <2>3 DEF Brings, PostsFadeIn
<1>3. gMoveInProgress' => FadesInAfter(0)'
  BY <1>2 DEF MoveEnds, Brings, globalVars
<1>4. ASSUME NEW k \in DOMAIN mainQueue', mainQueue'[k].sel \in Vanishing
      PROVE  FadesInAfter(k)'
  <2>1. CASE FadeInDue'
    BY <2>1 DEF FadesInAfter
  <2>2. CASE PostsOne(Unturned \ Vanishing)
    <3>1. k \in DOMAIN mainQueue /\ mainQueue'[k] = mainQueue[k]
      BY <1>4, <2>2, QueueGrows DEF PostsOne
    <3> QED BY <1>2, <1>4, <3>1 DEF MoveEnds
  <2> QED BY <2>1, <2>2 DEF Brings
<1>5. InQueue("showWindow") => InQueue("showWindow")'
  <2>1. CASE UNCHANGED mainQueue
    BY <2>1 DEF InQueue
  <2> QED BY <1>1, <2>1, StaysInQueue DEF PostsOne
<1>6. ComesBack'
  BY <1>5 DEF ComesBack, Brings, globalVars, windowVars
<1> QED BY <1>3, <1>4, <1>6 DEF MoveEnds

\* The steps of the Go side as long as nobody has asked.
LEMMA UnaskedBefore ==
  ASSUME TypeOK, Unasked', Daemon \/ Environment
  PROVE  Unasked /\ ~Toggle /\ \A c \in Clients : ~SetRequest(c)
<1>1. toggles \in Nat /\ switches \in Nat
  BY ScenarioType DEF TypeOK, IntentTypeOK, MethodTypeOK
<1>2. ~Toggle /\ \A c \in Clients : ~SetRequest(c)
  BY <1>1 DEF Toggle, SetRequest, Unasked
<1> DEFINE kept == UNCHANGED <<toggles, switches>>
<1>3. ASSUME NEW c \in Callers, OverlayCall(c) PROVE kept
  BY <1>3, CallsPost DEF methodVars
<1>4. ASSUME NEW c \in Clients, SetOutputMethod(c) PROVE kept
  BY <1>2, <1>4 DEF SetOutputMethod, StoresMethod, SetsPoller, SwitchesOverlay, intentVars
<1>5. MainThread /\ UNCHANGED goVars => kept
  BY DEF goVars, intentVars, methodVars
<1>6. ASSUME NEW t \in Timers, Fires(t) \/ Callback(t) PROVE kept
  BY <1>6 DEF Fires, Callback, WindowSteady, SettlesWindow, SettlesCanvas, LocatesSpot, CommitsMove,
     ReadsIntended, EndsFading, FadesInAfterMove, timerOnly, timerPosts, timerFrame, intentVars, methodVars
<1>7. ASSUME NEW i \in Captures, FetchesWindow(i) \/ CaptureProceeds(i) PROVE kept
  BY <1>7, CapturesPost DEF intentVars, methodVars
<1>8. GridPress \/ GridFades \/ GridArms \/ WindowMoves \/ WindowChanges \/ WindowArms => kept
  BY DEF GridPress, GridFades, GridArms, WindowMoves, WindowChanges, WindowArms, intentVars, methodVars
<1>9. Answer \/ Display \/ OpacityKey \/ FontKey \/ SendsReposition => kept
  BY TextsPost DEF intentVars, methodVars
<1>10. kept
  BY <1>2, <1>3, <1>4, <1>5, <1>6, <1>7, <1>8, <1>9, ShowSteps
<1> QED BY <1>2, <1>10 DEF Unasked

LEMMA UnaskedGoes ==
  ASSUME TypeOK, TimerOrder, Unasked, UnaskedIntent, UNCHANGED limits,
         ~Toggle, \A c \in Clients : ~SetRequest(c),
         Daemon \/ Environment, ~(MainThread /\ UNCHANGED goVars)
  PROVE  Brings /\ UnaskedIntent' /\ (~limits.visible => ~PostsFadeIn)
<1> USE DEF Unturned, Turning, Vanishing, Selectors
<1>1. QueueTypeOK
  BY DEF TypeOK, OverlayTypeOK
<1>2. \A c \in Callers : ~OverlayCall(c)
  <2>1. ASSUME NEW c \in Callers, OverlayCall(c) PROVE call[c][1] # "none"
    BY <2>1 DEF OverlayCall, SetsIntent, ChecksMove, SendsIntent
  <2>2. \A c \in Callers : call[c][1] = "none"
    <3>1. NoCall[1] = "none"
      BY DEF NoCall
    <3> QED BY <3>1 DEF UnaskedIntent
  <2> QED BY <2>1, <2>2
<1>3. \A c \in Clients : ~SetOutputMethod(c)
  BY DEF UnaskedIntent, SetOutputMethod, StoresMethod, SetsPoller, SwitchesOverlay, NoRequest
<1>4. ASSUME PostsOne(Unturned \ {"doFadeInAfterMove"}) PROVE ~PostsFadeIn
  <2>1. \A item, other \in Items :
          mainQueue' = Append(mainQueue, item) /\ mainQueue' = Append(mainQueue, other) => item = other
    <3>1. ASSUME NEW item \in Items, NEW other \in Items,
                 mainQueue' = Append(mainQueue, item), mainQueue' = Append(mainQueue, other)
          PROVE  item = other
      <4>1. mainQueue'[Len(mainQueue) + 1] = item /\ mainQueue'[Len(mainQueue) + 1] = other
        <5>1. mainQueue \in Seq(Items)
          BY <1>1 DEF QueueTypeOK
        <5>2. /\ Append(mainQueue, item)[Len(mainQueue) + 1] = item
              /\ Append(mainQueue, other)[Len(mainQueue) + 1] = other
          BY <5>1, AppendProperties
        <5> QED BY <3>1, <5>2
      <4> QED BY <4>1
    <3> QED BY <3>1
  <2>2. \A item \in Items : mainQueue' = Append(mainQueue, item) => mainQueue' # mainQueue
    BY <1>1, AppendProperties, LenProperties DEF QueueTypeOK
  <2> QED BY <1>4, <2>1, <2>2 DEF PostsOne, PostsFadeIn
<1>5. CASE GridPress \/ GridFades \/ GridArms \/ WindowMoves \/ WindowChanges \/ WindowArms
  <2>1. /\ UNCHANGED <<globalVars, windowVars, intentVars, methodVars, capture>>
        /\ UNCHANGED mainQueue \/ (FadeInDue' /\ PostsOne(Vanishing))
        /\ FadeInDue => FadeInDue'
        /\ \A t \in Timers : timer'[t].at \in {"decided", "freed"} =>
             timer'[t].at = timer[t].at /\ timer'[t].show = timer[t].show
    BY <1>5, TrackersPost
  <2>2. PostsOne(Unturned \ Vanishing) \/ (FadeInDue' /\ PostsOne(Unturned))
    BY <2>1 DEF PostsOne
  <2>3. PostsOne(Unturned \ {"doFadeInAfterMove"})
    BY <2>1 DEF PostsOne
  <2>4. OutForCapture => OutForCapture'
    <3>1. InQueue("orderInAfterCapture") => InQueue("orderInAfterCapture")'
      BY <1>1, <2>3, StaysInQueue DEF PostsOne, InQueue
    <3> QED BY <2>1, <3>1 DEF OutForCapture
  <2>5. UnaskedIntent'
    BY <2>1 DEF UnaskedIntent, intentVars, methodVars, globalVars
  <2> QED BY <1>4, <2>1, <2>2, <2>3, <2>4, <2>5 DEF Brings
<1>6. CASE Answer \/ Display \/ OpacityKey \/ FontKey \/ SendsReposition
  <2>1. /\ UNCHANGED <<globalVars, windowVars, intentVars, methodVars, gridVars, moveVars, timer, capture>>
        /\ PostsOne({"reposition"}) \/ PostsOne({"updateText"})
    BY <1>6, TextsPost
  <2>2. PostsOne(Unturned \ Vanishing) /\ PostsOne(Unturned \ {"doFadeInAfterMove"})
    BY <2>1 DEF PostsOne
  <2>3. OutForCapture => OutForCapture'
    <3>1. InQueue("orderInAfterCapture") => InQueue("orderInAfterCapture")'
      BY <1>1, <2>2, StaysInQueue DEF PostsOne, InQueue
    <3> QED BY <2>1, <3>1 DEF OutForCapture
  <2>4. FadeInDue => FadeInDue'
    BY <2>1 DEF FadeInDue, GridArming, WindowArming, gridVars, moveVars
  <2>5. UnaskedIntent'
    BY <2>1 DEF UnaskedIntent, intentVars, methodVars, globalVars
  <2> QED BY <1>4, <2>1, <2>2, <2>3, <2>4, <2>5 DEF Brings
<1>7. ASSUME NEW t \in Timers, Fires(t) \/ Callback(t)
      PROVE  Brings /\ UnaskedIntent' /\ (~limits.visible => ~PostsFadeIn)
  <2>1. TimerStep(t) /\ Publishes(t)
    BY <1>7, TimerSteps
  <2>2. UNCHANGED <<globalVars, intentVars, methodVars>>
    BY <1>7 DEF Fires, Callback, WindowSteady, SettlesWindow, SettlesCanvas, LocatesSpot, CommitsMove,
     ReadsIntended, EndsFading, FadesInAfterMove, timerOnly, timerPosts, timerFrame,
     SetWindowBounds, SetCanvasBounds
  <2>3. PostsOne({"doCommitMove"}) \/ PostsOne({"doFadeInAfterMove"})
    BY <1>7, TimersPost
  <2>4. ~limits.visible => PostsOne({"doCommitMove"})
    BY <1>7, TimersPost DEF UnaskedIntent
  <2>5. PostsOne(Unturned \ Vanishing) /\ (~limits.visible => ~PostsFadeIn)
    <3>1. PostsOne({"doCommitMove"}) => PostsOne(Unturned \ {"doFadeInAfterMove"})
      BY DEF PostsOne
    <3>2. PostsOne(Unturned \ Vanishing)
      BY <2>3 DEF PostsOne
    <3> QED BY <1>4, <2>4, <3>1, <3>2
  <2>6. OutForCapture => OutForCapture'
    <3>1. InQueue("orderInAfterCapture") => InQueue("orderInAfterCapture")'
      BY <1>1, <2>5, StaysInQueue DEF PostsOne, InQueue
    <3> QED BY <2>1, <3>1 DEF OutForCapture, Publishes
  <2>7. limits.visible /\ FadeInDue => FadeInDue' \/ PostsFadeIn
    <3> SUFFICES ASSUME limits.visible, FadeInDue PROVE FadeInDue' \/ PostsFadeIn
      OBVIOUS
    <3>1. CASE timer'[t].at # "done"
      <4>1. timer'[t].at \in Running \cup {"armed"}
        BY <2>1, <3>1 DEF TimerStep, Running, Dormant, TimerStages
      <4> QED BY <4>1 DEF FadeInDue
    <3>2. CASE timer'[t].at = "done"
      <4>1. Dispatch("doFadeInAfterMove", 0)
        BY <1>7, <3>2, TimersPost DEF UnaskedIntent
      <4>2. Item("doFadeInAfterMove", 0) \in Items /\ Item("doFadeInAfterMove", 0).sel = "doFadeInAfterMove"
        BY ItemType
      <4> QED BY <4>1, <4>2 DEF Dispatch, Post, PostsFadeIn
    <3> QED BY <3>1, <3>2
  <2>8. UnaskedIntent'
    <3>1. ASSUME NEW u \in Timers, timer'[u].at \in {"decided", "freed"}
          PROVE  timer'[u].show = limits.visible
      <4>1. CASE u # t
        BY <2>1, <3>1, <4>1 DEF TimerStep, UnaskedIntent
      <4>2. CASE u = t
        BY <1>7, <3>1, <4>2, TimersPost DEF UnaskedIntent
      <4> QED BY <4>1, <4>2
    <3> QED BY <2>2, <3>1 DEF UnaskedIntent, intentVars, methodVars, globalVars
  <2> QED BY <2>1, <2>2, <2>5, <2>6, <2>7, <2>8 DEF Brings, Publishes
<1>8. ASSUME NEW i \in Captures, FetchesWindow(i) \/ CaptureProceeds(i)
      PROVE  Brings /\ UnaskedIntent' /\ (~limits.visible => ~PostsFadeIn)
  <2>1. UNCHANGED <<globalVars, intentVars, methodVars, windowVars, timer, gridTracker, windowTracker>>
    BY <1>8, CaptureEffects, CapturesPost DEF CaptureDoes, gridVars
  <2>2. PostsOne({"orderOutForCapture", "orderInAfterCapture"})
    BY <1>8, CapturesPost, CaptureItem DEF PostsOne
  <2>3. PostsOne(Unturned \ Vanishing) /\ PostsOne(Unturned \ {"doFadeInAfterMove"})
    BY <2>2 DEF PostsOne
  <2>4. OutForCapture => OutForCapture'
    BY <1>8, OutOn
  <2>5. FadeInDue => FadeInDue'
    BY <2>1 DEF FadeInDue, GridArming, WindowArming
  <2>6. UnaskedIntent'
    BY <2>1 DEF UnaskedIntent, intentVars, methodVars, globalVars
  <2> QED BY <1>4, <2>1, <2>3, <2>4, <2>5, <2>6 DEF Brings
<1> QED BY <1>2, <1>3, <1>5, <1>6, <1>7, <1>8, ShowSteps

\* A selector as the main thread executes it: moves it takes out, and what was due after it.
LEMMA UnaskedMain ==
  ASSUME TypeOK, CapturesHide, Unasked, UnaskedIntent, NeverHides, AlphaFollows,
         MainThread, UNCHANGED <<limits, goVars>>
  PROVE  /\ gIntendedVisible' = limits.visible
         /\ NeverHides' /\ AlphaFollows'
         /\ ~limits.visible /\ StaysHidden => StaysHidden'
         /\ limits.visible /\ MoveEnds /\ ComesBack => MoveEnds' /\ ComesBack'
<1>1. QueueTypeOK /\ generation \in Nat /\ alphaValue \in {0, 1} /\ gOverlayInterpolation \in {0, 1}
  BY DEF TypeOK, OverlayTypeOK, FadeTypeOK
<1>2. gIntendedVisible = limits.visible
  BY DEF UnaskedIntent
<1>3. UNCHANGED capture /\ (FadeInDue => FadeInDue') /\ UNCHANGED gIntendedVisible
  <2>1. UNCHANGED <<capture, gridTracker, windowTracker, timer>>
    BY DEF goVars, gridVars, moveVars
  <2>2. FadeInDue => FadeInDue'
    BY <2>1 DEF FadeInDue, GridArming, WindowArming
  <2>3. UNCHANGED gIntendedVisible
    BY DEF MainThread, PerformSelector, Execute, HideCompletes, TextCompletes, FadeInEnds, showWindow,
       hideWindow, updateText, orderOutForCapture, orderInAfterCapture, doFadeOutForMove,
       doHideForWindowChange, doCommitMove, doFadeInAfterMove, reposition, globalVars
  <2> QED BY <2>1, <2>2, <2>3
<1>4. CASE PerformSelector
  <2> DEFINE first == Head(mainQueue)
  <2>1. /\ \A k \in DOMAIN mainQueue' : k + 1 \in DOMAIN mainQueue /\ mainQueue'[k] = mainQueue[k + 1]
        /\ 1 \in DOMAIN mainQueue /\ first = mainQueue[1]
        /\ mainQueue # <<>> /\ mainQueue' = Tail(mainQueue)
    BY <1>1, <1>4, QueueShrinks DEF PerformSelector
  <2>2. \A sel : (InQueue(sel)' => InQueue(sel)) /\ (InQueue(sel) => first.sel = sel \/ InQueue(sel)')
    <3>1. ASSUME NEW sel, InQueue(sel)' PROVE InQueue(sel)
      BY <2>1, <3>1 DEF InQueue
    <3>2. ASSUME NEW sel, InQueue(sel), first.sel # sel PROVE InQueue(sel)'
      BY <1>1, <2>1, <3>2, StaysInQueue
    <3> QED BY <3>1, <3>2
  <2>3. first.sel # "hideWindow" /\ Execute(first)
    BY <1>4, <2>1 DEF NeverHides, InQueue, PerformSelector
  <2>4. ASSUME NEW k \in Nat, FadesInAfter(k + 1) PROVE FadesInAfter(k)'
    <3>1. CASE FadeInDue
      BY <1>3, <3>1 DEF FadesInAfter
    <3>2. ASSUME NEW m \in DOMAIN mainQueue, m > k + 1, mainQueue[m].sel = "doFadeInAfterMove"
          PROVE  FadesInAfter(k)'
      <4>1. mainQueue \in Seq(Items)
        BY <1>1 DEF QueueTypeOK
      <4>2. /\ mainQueue' \in Seq(Items) /\ Len(mainQueue') = Len(mainQueue) - 1
            /\ \A i \in 1 .. Len(mainQueue') : mainQueue'[i] = mainQueue[i + 1]
        BY <2>1, <4>1, HeadTailProperties
      <4>3. m - 1 \in 1 .. Len(mainQueue') /\ (m - 1) + 1 = m /\ m - 1 > k
        BY <3>2, <4>1, <4>2, LenProperties
      <4>4. m - 1 \in DOMAIN mainQueue' /\ mainQueue'[m - 1].sel = "doFadeInAfterMove"
        BY <3>2, <4>2, <4>3, LenProperties
      <4> QED BY <4>3, <4>4 DEF FadesInAfter
    <3> QED BY <2>4, <3>1, <3>2 DEF FadesInAfter
  <2>5. first.sel # "doFadeInAfterMove" => (FadesInAfter(0) => FadesInAfter(1))
    <3>1. ASSUME NEW m \in DOMAIN mainQueue, m > 0, m # 1 PROVE m > 1
      BY <1>1, <3>1, LenProperties DEF QueueTypeOK
    <3> QED BY <2>1, <3>1 DEF FadesInAfter
  <2> HIDE DEF first
  <2>6. /\ ~InQueue("hideWindow")'
        /\ completions' \subseteq completions \cup [kind : {"text"}, gen : Nat, text : Texts]
    <3>1. ~InQueue("hideWindow")'
      BY <2>2 DEF NeverHides
    <3>2. CASE first.sel = "updateText" /\ updateText(first.arg)
      <4>1. first.arg \in Texts
        BY <1>1, <2>1, <3>2 DEF QueueTypeOK
      <4> QED BY <1>1, <3>1, <3>2, <4>1 DEF updateText, OnCompletion
    <3>3. CASE first.sel # "updateText"
      <4>1. UNCHANGED completions
        BY <2>3, <3>3 DEF Execute, showWindow, orderOutForCapture, orderInAfterCapture, doFadeOutForMove,
           doHideForWindowChange, doCommitMove, doFadeInAfterMove, reposition
      <4> QED BY <3>1, <4>1
    <3> QED BY <2>3, <3>1, <3>2, <3>3 DEF Execute
  <2>7. NeverHides'
    BY <2>6 DEF NeverHides
  <2>8. AlphaFollows'
    <3>1. CASE first.sel = "updateText" /\ updateText(first.arg)
      <4>1. UNCHANGED gOverlayInterpolation
        BY <3>1 DEF updateText
      <4>2. CASE gFadeDuration > 0 /\ visible
        <5> DEFINE end == [kind |-> "text", gen |-> generation + 1, text |-> first.arg]
        <5>1. generation' = generation + 1 /\ completions' = completions \cup {end}
          BY <3>1, <4>2 DEF updateText, FadeOut, OnCompletion
        <5>2. end.gen = generation' /\ end \in completions'
          BY <5>1
        <5> QED BY <5>2 DEF AlphaFollows
      <4>3. CASE ~(gFadeDuration > 0 /\ visible)
        BY <3>1, <4>1, <4>3 DEF AlphaFollows, updateText
      <4> QED BY <4>2, <4>3
    <3>2. CASE first.sel \in Vanishing
      BY <1>1, <2>3, <3>2 DEF AlphaFollows, Vanishing, Execute, doFadeOutForMove, doHideForWindowChange
    <3>3. CASE first.sel \in {"showWindow", "doFadeInAfterMove"}
      BY <1>1, <2>3, <3>3 DEF AlphaFollows, Execute, showWindow, doFadeInAfterMove, FadeIn
    <3>4. CASE first.sel \in {"orderOutForCapture", "orderInAfterCapture", "doCommitMove", "reposition"}
      BY <1>1, <2>3, <3>4 DEF AlphaFollows, Execute, orderOutForCapture, orderInAfterCapture,
                              doCommitMove, reposition
    <3> QED BY <2>3, <3>1, <3>2, <3>3, <3>4 DEF Execute, Vanishing
  <2>9. ASSUME ~limits.visible, StaysHidden PROVE StaysHidden'
    <3>1. ~InQueue("showWindow")' /\ ~InQueue("doFadeInAfterMove")'
          /\ first.sel \notin {"showWindow", "doFadeInAfterMove"}
      BY <2>1, <2>2, <2>9 DEF StaysHidden, InQueue
    <3>2. ~visible'
      BY <1>2, <2>3, <2>9, <3>1 DEF Execute, StaysHidden, updateText, orderOutForCapture, orderInAfterCapture,
         doFadeOutForMove, doHideForWindowChange, doCommitMove, reposition
    <3> QED BY <3>1, <3>2 DEF StaysHidden
  <2>10. ASSUME limits.visible, MoveEnds, ComesBack PROVE MoveEnds' /\ ComesBack'
    <3>1. ASSUME NEW k \in DOMAIN mainQueue', mainQueue'[k].sel \in Vanishing
          PROVE  FadesInAfter(k)'
      <4>1. k + 1 \in DOMAIN mainQueue /\ mainQueue[k + 1].sel \in Vanishing
        BY <2>1, <3>1
      <4>2. k \in Nat
        <5>1. mainQueue' \in Seq(Items)
          BY <1>1, <2>1, HeadTailProperties DEF QueueTypeOK
        <5> QED BY <5>1, LenProperties
      <4> QED BY <2>4, <2>10, <4>1, <4>2 DEF MoveEnds
    <3>2. gMoveInProgress' => FadesInAfter(0)'
      <4>1. CASE first.sel \in Vanishing
        <5>1. FadesInAfter(1)
          BY <2>1, <2>10, <4>1 DEF MoveEnds
        <5> QED BY <2>4, <5>1
      <4>2. CASE first.sel = "doFadeInAfterMove"
        BY <2>3, <4>2 DEF Execute, doFadeInAfterMove
      <4>3. CASE first.sel \notin Vanishing \cup {"doFadeInAfterMove"}
        <5>1. UNCHANGED gMoveInProgress
          BY <2>3, <4>3 DEF Execute, Vanishing, showWindow, updateText, orderOutForCapture,
                            orderInAfterCapture,
             doCommitMove, reposition, globalVars
        <5>2. gMoveInProgress => FadesInAfter(1)
          BY <2>5, <2>10, <4>3 DEF MoveEnds
        <5> QED BY <2>4, <5>1, <5>2
      <4> QED BY <4>1, <4>2, <4>3
    <3>3. ComesBack'
      <4>1. CASE first.sel \in Vanishing
        BY <2>3, <4>1 DEF Execute, Vanishing, doFadeOutForMove, doHideForWindowChange, ComesBack
      <4>2. CASE first.sel \in {"showWindow", "doFadeInAfterMove"}
        BY <1>1, <1>2, <2>3, <2>10, <4>2 DEF Execute, showWindow, doFadeInAfterMove, ComesBack
      <4>3. CASE first.sel = "orderInAfterCapture"
        <5>1. orderInAfterCapture
          BY <2>3, <4>3 DEF Execute
        <5>2. gMoveInProgress' \/ visible'
          BY <1>2, <2>10, <5>1 DEF orderInAfterCapture, globalVars
        <5>3. InQueue("showWindow") => InQueue("showWindow")'
          BY <2>2, <4>3
        <5> QED BY <2>10, <5>1, <5>2, <5>3 DEF ComesBack, orderInAfterCapture, globalVars
      <4>4. CASE first.sel = "orderOutForCapture"
        <5>1. PICK i \in Captures : capture[i].at = "hiding"
          BY <2>1, <4>4 DEF CapturesHide
        <5>2. OutForCapture'
          BY <1>3, <5>1 DEF OutForCapture
        <5>3. InQueue("showWindow") => InQueue("showWindow")'
          BY <2>2, <4>4
        <5>4. UNCHANGED <<gMoveInProgress, gOverlayInterpolation>>
          BY <2>3, <4>4 DEF Execute, orderOutForCapture, globalVars
        <5> QED BY <2>10, <5>2, <5>3, <5>4 DEF ComesBack
      <4>5. CASE first.sel \in {"updateText", "doCommitMove", "reposition"}
        <5>1. UNCHANGED <<gMoveInProgress, gOverlayInterpolation, visible>>
          BY <2>3, <4>5 DEF Execute, updateText, doCommitMove, reposition, globalVars
        <5>2. /\ InQueue("showWindow") => InQueue("showWindow")'
              /\ InQueue("orderInAfterCapture") => InQueue("orderInAfterCapture")'
          BY <2>2, <4>5
        <5> QED BY <1>3, <2>10, <5>1, <5>2 DEF ComesBack, OutForCapture
      <4> QED BY <2>3, <4>1, <4>2, <4>3, <4>4, <4>5 DEF Execute, Vanishing
    <3> QED BY <3>1, <3>2, <3>3 DEF MoveEnds
  <2> QED BY <1>2, <1>3, <2>7, <2>8, <2>9, <2>10
<1>5. CASE (\E c \in completions : TextCompletes(c)) \/ FadeInEnds
  <2>1. UNCHANGED <<mainQueue, gMoveInProgress, gOverlayInterpolation, visible, generation>>
        /\ completions' \subseteq completions
    BY <1>5 DEF TextCompletes, FadeInEnds, globalVars
  <2>2. AlphaFollows'
    <3>1. CASE FadeInEnds
      BY <3>1 DEF FadeInEnds, AlphaFollows
    <3>2. ASSUME NEW c \in completions, TextCompletes(c) PROVE AlphaFollows'
      BY <3>2 DEF TextCompletes, AlphaFollows
    <3> QED BY <1>5, <3>1, <3>2
  <2>3. NeverHides'
    BY <2>1 DEF NeverHides, InQueue
  <2>4. StaysHidden => StaysHidden'
    BY <2>1 DEF StaysHidden, InQueue
  <2>5. MoveEnds /\ ComesBack => MoveEnds' /\ ComesBack'
    BY <1>3, <2>1 DEF MoveEnds, ComesBack, FadesInAfter, InQueue, OutForCapture
  <2> QED BY <1>2, <1>3, <2>2, <2>3, <2>4, <2>5
<1>6. \A c \in completions : ~HideCompletes(c)
  BY DEF NeverHides, HideCompletes
<1> QED BY <1>4, <1>5, <1>6 DEF MainThread

LEMMA ShownUnaskedInvariant ==
  TypeOK /\ TimerOrder /\ CapturesHide /\ ShownUnasked /\ [Next]_vars => ShownUnasked'
<1> SUFFICES ASSUME TypeOK, TimerOrder, CapturesHide, ShownUnasked, [Next]_vars, Unasked'
             PROVE  /\ UnaskedIntent' /\ NeverHides' /\ AlphaFollows'
                    /\ ~limits.visible' => StaysHidden'
                    /\ limits.visible' => MoveEnds' /\ ComesBack'
  BY DEF ShownUnasked
<1>1. QueueTypeOK
  BY DEF TypeOK, OverlayTypeOK
<1>2. CASE UNCHANGED vars
  <2>1. Unasked /\ UNCHANGED <<FadeInDue, OutForCapture>>
    BY <1>2 DEF vars, goVars, intentVars, methodVars, gridVars, moveVars, overlayVars, Unasked, FadeInDue,
       GridArming, WindowArming, OutForCapture, InQueue
  <2>2. UNCHANGED <<UnaskedIntent, NeverHides, AlphaFollows, StaysHidden>>
    BY <1>2 DEF vars, goVars, intentVars, methodVars, overlayVars, globalVars, windowVars, UnaskedIntent,
       NeverHides, AlphaFollows, StaysHidden, InQueue
  <2>3. UNCHANGED <<MoveEnds, ComesBack>>
    BY <1>2, <2>1 DEF vars, overlayVars, globalVars, windowVars, MoveEnds, ComesBack, FadesInAfter, InQueue
  <2> QED BY <1>2, <2>1, <2>2, <2>3 DEF ShownUnasked, vars
<1>3. CASE Next
  <2>1. Unasked /\ ~Toggle /\ \A c \in Clients : ~SetRequest(c)
    BY <1>3, UnaskedBefore DEF Next
  <2>2. /\ UnaskedIntent /\ NeverHides /\ AlphaFollows /\ UNCHANGED limits
        /\ ~limits.visible => StaysHidden
        /\ limits.visible => MoveEnds /\ ComesBack
    BY <1>3, <2>1 DEF ShownUnasked, Next
  <2>3. CASE MainThread /\ UNCHANGED goVars
    <3>1. UnaskedIntent'
      BY <2>1, <2>2, <2>3, UnaskedMain DEF UnaskedIntent, goVars, intentVars, methodVars
    <3> QED BY <2>1, <2>2, <2>3, <3>1, UnaskedMain
  <2>4. CASE ~(MainThread /\ UNCHANGED goVars)
    <3>1. Brings /\ UnaskedIntent' /\ (~limits.visible => ~PostsFadeIn)
      BY <1>3, <2>1, <2>2, <2>4, UnaskedGoes DEF Next
    <3>2. PostsOne(Unturned) /\ UNCHANGED windowVars
      BY <3>1 DEF Brings, PostsOne
    <3>3. NeverHides' /\ AlphaFollows'
      BY <1>1, <2>2, <3>2, StillNeverHides DEF windowVars
    <3>4. ~limits.visible => StaysHidden'
      BY <1>1, <2>2, <3>1, <3>2, StillHidden DEF windowVars
    <3>5. limits.visible => MoveEnds' /\ ComesBack'
      BY <1>1, <2>2, <3>1, StillComesBack
    <3> QED BY <2>2, <3>1, <3>3, <3>4, <3>5
  <2> QED BY <2>3, <2>4
<1> QED BY <1>2, <1>3

LEMMA InitialShown == Init => ShownUnasked /\ CapturesHide
<1> SUFFICES ASSUME Init PROVE ShownUnasked /\ CapturesHide
  OBVIOUS
<1>1. /\ mainQueue = IF limits.visible THEN <<Item("showWindow", 0), Commit(InitialSpot)>>
                                       ELSE <<Commit(InitialSpot)>>
      /\ gIntendedVisible = limits.visible /\ intendedVisible = limits.visible
      /\ gMoveInProgress = FALSE /\ visible = FALSE /\ gOverlayInterpolation = 0 /\ completions = {}
      /\ outputMethod = "teleprompter"
      /\ \A t \in Timers : timer[t].at = "unarmed"
      /\ \A c \in Callers : call[c] = NoCall
      /\ \A c \in Clients : switching[c] = NoRequest
  BY DEF Init, OverlayInit
<1>2. UnaskedIntent /\ AlphaFollows
  BY <1>1 DEF UnaskedIntent, AlphaFollows
<1>3. CASE limits.visible
  <2>1. mainQueue = <<Item("showWindow", 0), Commit(InitialSpot)>>
    BY <1>1, <1>3
  <2>2. /\ \A k \in DOMAIN mainQueue : mainQueue[k].sel \in {"showWindow", "doCommitMove"}
        /\ InQueue("showWindow")
    BY <2>1 DEF InQueue, Item, Commit
  <2> QED BY <1>1, <1>2, <1>3, <2>2 DEF ShownUnasked, CapturesHide, NeverHides, InQueue,
                                        MoveEnds, ComesBack, Vanishing
<1>4. CASE ~limits.visible
  <2>1. mainQueue = <<Commit(InitialSpot)>>
    BY <1>1, <1>4
  <2>2. \A k \in DOMAIN mainQueue : mainQueue[k].sel = "doCommitMove"
    BY <2>1 DEF Commit
  <2> QED BY <1>1, <1>2, <1>4, <2>2 DEF ShownUnasked, CapturesHide, NeverHides, StaysHidden, InQueue
<1> QED BY <1>3, <1>4

\* What moves, captures and texts do is undone: as long as nobody toggles the overlay or
\* switches the output method, it is on the screen, once everything has come to rest,
\* exactly when it was configured to start visible (doFadeOutForMove, doFadeInAfterMove,
\* orderOutForCapture, orderInAfterCapture, updateText).
THEOREM UnaskedAlwaysShown == Safety => [](Unasked => ShownAsIntended)
<1> DEFINE Inv == TypeOK /\ TimerOrder /\ CapturesHide /\ ShownUnasked
<1>1. Init => Inv
  BY InitType, InitialShown, InitialFrame DEF FrameInv
<1>2. Inv /\ [Next]_vars => Inv'
  BY StepType, TimerOrderInvariant, CapturesHideInvariant, ShownUnaskedInvariant
<1>3. Inv => (Unasked => ShownAsIntended)
  <2> SUFFICES ASSUME Inv, Unasked, Quiescent
               PROVE  Shown <=> intendedVisible /\ outputMethod = "teleprompter"
    BY DEF ShownAsIntended
  <2>1. /\ UnaskedIntent /\ AlphaFollows
        /\ ~limits.visible => StaysHidden
        /\ limits.visible => MoveEnds /\ ComesBack
    BY DEF ShownUnasked
  <2>2. /\ \A sel : ~InQueue(sel)
        /\ DOMAIN mainQueue = {} /\ completions = {} /\ ~OutForCapture /\ ~FadeInDue
    BY DEF Quiescent, InQueue, OutForCapture, FadeInDue, GridArming, WindowArming, Running, Dormant
  <2>3. limits.visible => visible /\ alphaValue = 1
    BY <2>1, <2>2 DEF MoveEnds, ComesBack, FadesInAfter, AlphaFollows
  <2>4. ~limits.visible => ~visible
    BY <2>1 DEF StaysHidden
  <2> QED BY <2>1, <2>3, <2>4 DEF UnaskedIntent, Shown
<1> QED BY <1>1, <1>2, <1>3, PTL DEF Safety

(***************************************************************************)
(* The user or one client asks for the overlay to be shown or hidden while *)
(* captures and texts go on, and nothing moves.                            *)
(***************************************************************************)
StoodStill == presses = 0 /\ windowMoves = 0
SoleCaller == switches = 0 \/ (toggles = 0 /\ \A c, d \in limits.clients : c = d)
Asked == StoodStill /\ SoleCaller /\ (gFadeDuration = 0 \/ texts = 0)

NoMoveDue ==
  /\ \A t \in Timers : timer[t].at = "unarmed"
  /\ ~GridArming /\ ~WindowArming
  /\ lastWindowBounds \in {Nil, RectAfter(0)}
  /\ \A i \in Captures : capture[i].saw = 0

\* What the toggles and the method ask for, and who has yet to pass it on.
Wanted   == intendedVisible /\ outputMethod = "teleprompter"
Switched == intendedVisible /\ \E c \in Clients : switching[c][1] \in {"activate", "overlay"}
Calling  == \E c \in Callers : call[c][1] # "none"
CallsWanted ==
  /\ switches = 0 => outputMethod = "teleprompter"
                       /\ \A c \in Clients : call[c] = NoCall /\ switching[c] = NoRequest
  /\ toggles = 0 => call["toggleKey"] = NoCall
  /\ \A c \in Clients :
       /\ c \notin limits.clients => call[c] = NoCall /\ switching[c] = NoRequest
       /\ switching[c] = NoRequest \/ call[c] = NoCall
       /\ switching[c][1] \in {"activate", "overlay"} => switching[c][2] = outputMethod
  /\ \A c \in Callers : call[c][1] # "none" => call[c][2] = Wanted
  /\ Switched \/ (\E c \in Callers : call[c][1] = "set") \/ gIntendedVisible = Wanted

\* No move hides the window, and no fade-out that was overtaken orders it out.
Unmoved ==
  /\ ~gMoveInProgress
  /\ \A k \in DOMAIN mainQueue : mainQueue[k].sel \notin Vanishing \cup {"doFadeInAfterMove"}
  /\ gFadeDuration = 0 \/ ~InQueue("updateText")
  /\ alphaValue = gOverlayInterpolation
  /\ \A c \in completions : /\ c.kind = "hide" /\ c.gen <= generation
                            /\ alphaValue = 1 => c.gen # generation

\* The selector that comes last shows or hides it, or it is as it should be.
NoTurns == \A k \in DOMAIN mainQueue : mainQueue[k].sel \notin Turning
LastTurnIs(sel) ==
  \E k \in DOMAIN mainQueue :
    mainQueue[k].sel = sel /\ \A m \in DOMAIN mainQueue : m > k => mainQueue[m].sel \notin Turning
TurnsOn  == LastTurnIs("showWindow")
              \/ (NoTurns /\ gOverlayInterpolation = 1 /\ (visible \/ OutForCapture))
TurnsOff == LastTurnIs("hideWindow") \/ (NoTurns /\ ~Shown)
TurnsAsWanted == Switched \/ Calling \/ IF Wanted THEN TurnsOn ELSE TurnsOff

ShownAsked ==
  /\ StoodStill => NoMoveDue
  /\ Asked => CallsWanted /\ Unmoved /\ TurnsAsWanted

LEMMA TurnsStay ==
  ASSUME QueueTypeOK, UNCHANGED windowVars, PostsOne(Unturned), OutForCapture => OutForCapture'
  PROVE  (TurnsOn => TurnsOn') /\ (TurnsOff => TurnsOff')
<1>1. /\ \A k \in DOMAIN mainQueue : k \in DOMAIN mainQueue' /\ mainQueue'[k] = mainQueue[k]
      /\ \A k \in DOMAIN mainQueue' : k \in DOMAIN mainQueue \/ mainQueue'[k].sel \in Unturned
  BY QueueGrows DEF PostsOne
<1>2. (NoTurns => NoTurns') /\ \A sel : LastTurnIs(sel) => LastTurnIs(sel)'
  BY <1>1 DEF NoTurns, LastTurnIs, Unturned
<1> QED BY <1>2 DEF TurnsOn, TurnsOff, Shown, windowVars

LEMMA TurnPosted ==
  ASSUME QueueTypeOK, NEW sel \in Turning, Dispatch(sel, 0)
  PROVE  LastTurnIs(sel)'
<1> DEFINE item == Item(sel, 0)
<1>1. item \in Items /\ item.sel = sel /\ mainQueue' = Append(mainQueue, item)
  BY ItemType DEF Turning, Selectors, Dispatch, Post
<1> HIDE DEF item
<1>2. /\ mainQueue \in Seq(Items)
      /\ mainQueue' \in Seq(Items) /\ Len(mainQueue') = Len(mainQueue) + 1
      /\ mainQueue'[Len(mainQueue) + 1] = item
  BY <1>1, AppendProperties DEF QueueTypeOK
<1>3. /\ Len(mainQueue) + 1 \in DOMAIN mainQueue'
      /\ \A m \in DOMAIN mainQueue' : ~(m > Len(mainQueue) + 1)
  BY <1>2, LenProperties
<1> QED BY <1>1, <1>2, <1>3 DEF LastTurnIs

LEMMA TurnExecuted ==
  ASSUME QueueTypeOK, mainQueue # <<>>, mainQueue' = Tail(mainQueue)
  PROVE  /\ NoTurns => NoTurns' /\ Head(mainQueue).sel \notin Turning
         /\ \A sel : LastTurnIs(sel) => LastTurnIs(sel)' \/ (Head(mainQueue).sel = sel /\ NoTurns')
<1>1. /\ \A k \in DOMAIN mainQueue' : k + 1 \in DOMAIN mainQueue /\ mainQueue'[k] = mainQueue[k + 1]
      /\ 1 \in DOMAIN mainQueue /\ Head(mainQueue) = mainQueue[1]
  BY QueueShrinks
<1>2. NoTurns => NoTurns' /\ Head(mainQueue).sel \notin Turning
  BY <1>1 DEF NoTurns
<1>3. ASSUME NEW sel, NEW k \in DOMAIN mainQueue, mainQueue[k].sel = sel,
             \A m \in DOMAIN mainQueue : m > k => mainQueue[m].sel \notin Turning
      PROVE  LastTurnIs(sel)' \/ (Head(mainQueue).sel = sel /\ NoTurns')
  <2>1. mainQueue \in Seq(Items) /\ mainQueue' \in Seq(Items) /\ Len(mainQueue') = Len(mainQueue) - 1
    BY HeadTailProperties DEF QueueTypeOK
  <2>2. /\ DOMAIN mainQueue = 1 .. Len(mainQueue) /\ DOMAIN mainQueue' = 1 .. Len(mainQueue) - 1
        /\ Len(mainQueue) \in Nat
    BY <2>1, LenProperties
  <2>3. \A m \in DOMAIN mainQueue' : m \in Nat /\ m >= 1
    BY <2>2
  <2>4. CASE k = 1
    <3>1. \A m \in DOMAIN mainQueue' : m + 1 > k
      BY <2>3, <2>4
    <3>2. NoTurns'
      BY <1>1, <1>3, <3>1 DEF NoTurns
    <3> QED BY <1>1, <1>3, <2>4, <3>2
  <2>5. CASE k # 1
    <3>1. k - 1 \in DOMAIN mainQueue' /\ (k - 1) + 1 = k
      BY <2>2, <2>5
    <3>2. mainQueue'[k - 1].sel = sel
      BY <1>1, <1>3, <3>1
    <3>3. \A m \in DOMAIN mainQueue' : m > k - 1 => m + 1 > k
      BY <2>2, <2>3
    <3>4. \A m \in DOMAIN mainQueue' : m > k - 1 => mainQueue'[m].sel \notin Turning
      BY <1>1, <1>3, <3>3
    <3> QED BY <3>1, <3>2, <3>4 DEF LastTurnIs
  <2> QED BY <2>4, <2>5
<1> QED BY <1>2, <1>3 DEF LastTurnIs

LEMMA StillUnmoved ==
  ASSUME QueueTypeOK, UNCHANGED <<windowVars, gMoveInProgress, gFadeDuration>>, Unmoved, NEW S, PostsOne(S),
         S \cap (Vanishing \cup {"doFadeInAfterMove"}) = {}, gFadeDuration = 0 \/ "updateText" \notin S
  PROVE  Unmoved'
<1>1. \A k \in DOMAIN mainQueue' :
         \/ k \in DOMAIN mainQueue /\ mainQueue'[k] = mainQueue[k]
         \/ mainQueue'[k].sel \in S
  BY QueueGrows DEF PostsOne
<1>2. \A k \in DOMAIN mainQueue' : mainQueue'[k].sel \notin Vanishing \cup {"doFadeInAfterMove"}
  BY <1>1 DEF Unmoved
<1>3. gFadeDuration = 0 \/ ~InQueue("updateText")'
  BY <1>1 DEF Unmoved, InQueue
<1> QED BY <1>2, <1>3 DEF Unmoved, windowVars

\* What a step of the main thread does.
LEMMA AskedMain ==
  ASSUME TypeOK, CapturesHide, NoMoveDue, CallsWanted, Unmoved, TurnsAsWanted,
         MainThread, UNCHANGED <<limits, gFadeDuration, goVars>>
  PROVE  NoMoveDue' /\ CallsWanted' /\ Unmoved' /\ TurnsAsWanted'
<1>1. QueueTypeOK /\ generation \in Nat /\ alphaValue \in {0, 1} /\ gOverlayInterpolation \in {0, 1}
      /\ visible \in BOOLEAN
  BY DEF TypeOK, OverlayTypeOK, FadeTypeOK
<1>2. UNCHANGED gIntendedVisible /\ UNCHANGED <<intentVars, methodVars, capture>>
  BY DEF MainThread, PerformSelector, Execute, HideCompletes, TextCompletes, FadeInEnds, showWindow,
     hideWindow, updateText, orderOutForCapture, orderInAfterCapture, doFadeOutForMove,
     doHideForWindowChange, doCommitMove, doFadeInAfterMove, reposition, globalVars, goVars
<1>3. NoMoveDue' /\ CallsWanted'
  BY <1>2 DEF NoMoveDue, CallsWanted, GridArming, WindowArming, Switched, Wanted, goVars, gridVars, moveVars,
     intentVars, methodVars
<1>4. UNCHANGED <<Switched, Calling, Wanted>>
  BY <1>2 DEF Switched, Calling, Wanted, intentVars, methodVars
<1>5. ~Switched /\ ~Calling => gIntendedVisible = Wanted
  BY DEF CallsWanted, Calling
<1>6. CASE PerformSelector
  <2> DEFINE first == Head(mainQueue)
  <2>1. /\ \A k \in DOMAIN mainQueue' : k + 1 \in DOMAIN mainQueue /\ mainQueue'[k] = mainQueue[k + 1]
        /\ 1 \in DOMAIN mainQueue /\ first = mainQueue[1]
        /\ mainQueue # <<>> /\ mainQueue' = Tail(mainQueue)
    BY <1>1, <1>6, QueueShrinks DEF PerformSelector
  <2>2. /\ NoTurns => NoTurns' /\ first.sel \notin Turning
        /\ \A sel : LastTurnIs(sel) => LastTurnIs(sel)' \/ (first.sel = sel /\ NoTurns')
    BY <1>1, <2>1, TurnExecuted
  <2>3. /\ Execute(first) /\ first.sel \notin Vanishing \cup {"doFadeInAfterMove"}
        /\ first.sel = "updateText" => gFadeDuration = 0
    BY <1>6, <2>1 DEF PerformSelector, Unmoved, InQueue
  <2>4. InQueue("orderInAfterCapture") => first.sel = "orderInAfterCapture" \/ InQueue("orderInAfterCapture")'
    BY <1>1, <2>1, StaysInQueue
  <2>5. /\ \A k \in DOMAIN mainQueue' : mainQueue'[k].sel \notin Vanishing \cup {"doFadeInAfterMove"}
        /\ gFadeDuration' = 0 \/ ~InQueue("updateText")'
    BY <2>1 DEF Unmoved, InQueue
  <2> HIDE DEF first
  <2>6. CASE first.sel = "showWindow"
    <3>1. showWindow
      BY <2>3, <2>6 DEF Execute
    <3>2. gOverlayInterpolation' = 1 /\ visible'
      BY <3>1 DEF showWindow
    <3>3. Unmoved'
      <4>1. CASE gOverlayInterpolation = 1 /\ visible
        BY <2>5, <3>1, <4>1 DEF Unmoved, showWindow, globalVars
      <4>2. CASE ~(gOverlayInterpolation = 1 /\ visible)
        <5>1. /\ alphaValue' = 1 /\ gOverlayInterpolation' = 1 /\ generation' = generation + 1
              /\ UNCHANGED completions
          BY <3>1, <4>2 DEF showWindow, FadeIn
        <5>2. \A c \in completions : c.gen \in Nat
          BY DEF TypeOK, OverlayTypeOK, FadeTypeOK
        <5>3. \A c \in completions : c.kind = "hide" /\ c.gen <= generation' /\ c.gen # generation'
          BY <1>1, <5>1, <5>2 DEF Unmoved
        <5> QED BY <2>5, <3>1, <5>1, <5>3 DEF Unmoved, showWindow, globalVars
      <4> QED BY <4>1, <4>2
    <3>4. (TurnsOn => TurnsOn') /\ (TurnsOff => TurnsOff')
      BY <2>2, <2>6, <3>2 DEF TurnsOn, TurnsOff, Turning
    <3> QED BY <1>3, <1>4, <3>3, <3>4 DEF TurnsAsWanted
  <2>7. CASE first.sel = "hideWindow"
    <3>1. hideWindow
      BY <2>3, <2>7 DEF Execute
    <3>2. ~Shown'
      BY <3>1 DEF hideWindow, Shown, FadeOut
    <3>3. Unmoved'
      <4>1. CASE visible
        <5>1. /\ alphaValue' = 0 /\ gOverlayInterpolation' = 0 /\ generation' = generation + 1
              /\ completions' = completions \cup {[kind |-> "hide", gen |-> generation + 1, text |-> 0]}
          BY <3>1, <4>1 DEF hideWindow, FadeOut, OnCompletion
        <5>2. \A c \in completions' : c.kind = "hide" /\ c.gen <= generation'
          <6>1. \A c \in completions : c.gen \in Nat
            BY DEF TypeOK, OverlayTypeOK, FadeTypeOK
          <6> QED BY <1>1, <5>1, <6>1 DEF Unmoved
        <5> QED BY <2>5, <3>1, <5>1, <5>2 DEF Unmoved, hideWindow, globalVars
      <4>2. CASE ~visible
        BY <2>5, <3>1, <4>2 DEF Unmoved, hideWindow, globalVars
      <4> QED BY <4>1, <4>2
    <3>4. (TurnsOn => TurnsOn') /\ (TurnsOff => TurnsOff')
      BY <2>2, <2>7, <3>2 DEF TurnsOn, TurnsOff, Turning
    <3> QED BY <1>3, <1>4, <3>3, <3>4 DEF TurnsAsWanted
  <2>8. CASE first.sel \in {"updateText", "doCommitMove", "reposition"}
    <3>1. UNCHANGED <<gMoveInProgress, gOverlayInterpolation, visible, alphaValue, generation, completions>>
      BY <2>3, <2>8 DEF Execute, updateText, doCommitMove, reposition, globalVars
    <3>2. Unmoved'
      BY <2>5, <3>1 DEF Unmoved
    <3>3. OutForCapture => OutForCapture'
      BY <1>2, <2>4, <2>8 DEF OutForCapture
    <3>4. (TurnsOn => TurnsOn') /\ (TurnsOff => TurnsOff')
      BY <2>2, <2>8, <3>1, <3>3 DEF TurnsOn, TurnsOff, Turning, Shown
    <3> QED BY <1>3, <1>4, <3>2, <3>4 DEF TurnsAsWanted
  <2>9. CASE first.sel = "orderOutForCapture"
    <3>1. UNCHANGED <<gMoveInProgress, gOverlayInterpolation, alphaValue, generation, completions>> /\ ~visible'
      BY <2>3, <2>9 DEF Execute, orderOutForCapture, globalVars
    <3>2. Unmoved'
      BY <2>5, <3>1 DEF Unmoved
    <3>3. OutForCapture'
      <4>1. PICK i \in Captures : capture[i].at = "hiding"
        BY <2>1, <2>9 DEF CapturesHide
      <4> QED BY <1>2, <4>1 DEF OutForCapture
    <3>4. (TurnsOn => TurnsOn') /\ (TurnsOff => TurnsOff')
      BY <2>2, <2>9, <3>1, <3>3 DEF TurnsOn, TurnsOff, Turning, Shown
    <3> QED BY <1>3, <1>4, <3>2, <3>4 DEF TurnsAsWanted
  <2>10. CASE first.sel = "orderInAfterCapture"
    <3>1. /\ UNCHANGED <<gMoveInProgress, gOverlayInterpolation, alphaValue, generation, completions>>
          /\ IF gIntendedVisible THEN visible' ELSE UNCHANGED visible
      BY <2>3, <2>10 DEF Execute, orderInAfterCapture, globalVars, Unmoved
    <3>2. Unmoved'
      BY <2>5, <3>1 DEF Unmoved
    <3>3. (gIntendedVisible /\ TurnsOn => TurnsOn') /\ (~gIntendedVisible /\ TurnsOff => TurnsOff')
      BY <2>2, <2>10, <3>1 DEF TurnsOn, TurnsOff, Turning, Shown
    <3> QED BY <1>3, <1>4, <1>5, <3>2, <3>3 DEF TurnsAsWanted
  <2> QED BY <2>3, <2>6, <2>7, <2>8, <2>9, <2>10 DEF Execute, Vanishing
<1>7. ASSUME NEW c \in completions, HideCompletes(c)
      PROVE  Unmoved' /\ TurnsAsWanted'
  <2>1. UNCHANGED <<mainQueue, gMoveInProgress, gOverlayInterpolation, alphaValue, generation>>
        /\ completions' = completions \ {c} /\ visible' = (IF c.gen = generation THEN FALSE ELSE visible)
    BY <1>7 DEF HideCompletes, globalVars
  <2>2. alphaValue = 1 => UNCHANGED visible
    BY <2>1 DEF Unmoved
  <2>3. (TurnsOn => TurnsOn') /\ (TurnsOff => TurnsOff')
    <3>1. UNCHANGED <<NoTurns, OutForCapture>> /\ \A sel : UNCHANGED LastTurnIs(sel)
      BY <1>2, <2>1 DEF NoTurns, OutForCapture, InQueue, LastTurnIs
    <3>2. alphaValue = gOverlayInterpolation
      BY DEF Unmoved
    <3> QED BY <2>1, <2>2, <3>1, <3>2 DEF TurnsOn, TurnsOff, Shown
  <2>4. Unmoved'
    BY <2>1 DEF Unmoved, InQueue
  <2> QED BY <1>4, <2>3, <2>4 DEF TurnsAsWanted
<1>8. CASE FadeInEnds
  <2>1. UNCHANGED <<mainQueue, gMoveInProgress, gOverlayInterpolation, alphaValue, generation,
                    completions, visible>>
    BY <1>8 DEF FadeInEnds, globalVars
  <2>2. Unmoved' /\ (TurnsOn => TurnsOn') /\ (TurnsOff => TurnsOff')
    BY <1>2, <2>1 DEF Unmoved, TurnsOn, TurnsOff, NoTurns, OutForCapture, InQueue, LastTurnIs, Shown
  <2> QED BY <1>3, <1>4, <2>2 DEF TurnsAsWanted
<1>9. \A c \in completions : ~TextCompletes(c)
  BY DEF Unmoved, TextCompletes
<1> QED BY <1>3, <1>6, <1>7, <1>8, <1>9 DEF MainThread

\* What has not moved before does not begin to.
LEMMA StoodBefore ==
  ASSUME TypeOK, StoodStill', Daemon \/ Environment
  PROVE  StoodStill /\ ~GridPress /\ ~WindowMoves
<1>1. presses \in Nat /\ windowMoves \in Nat
  BY ScenarioType, LatestTimers DEF TypeOK, MoveTypeOK
<1>2. ~GridPress /\ ~WindowMoves
  BY <1>1 DEF GridPress, WindowMoves, StoodStill
<1>3. ASSUME NEW i \in Captures, FetchesWindow(i) \/ CaptureProceeds(i)
      PROVE  UNCHANGED <<presses, windowMoves>>
  BY <1>3, CaptureEffects DEF CaptureDoes, gridVars
<1>4. ASSUME NEW t \in Timers, Fires(t) \/ Callback(t)
      PROVE  UNCHANGED <<presses, windowMoves>>
  BY <1>4, TimerSteps DEF Publishes
<1>5. UNCHANGED <<presses, windowMoves>>
  BY <1>2, <1>3, <1>4, StepKinds
  DEF goVars, gridVars, moveVars, GridFades, GridArms, WindowChanges, WindowArms, FontKey, Adjusts,
      SendsReposition, Quiet
<1> QED BY <1>2, <1>5 DEF StoodStill

LEMMA NoMoveBefore ==
  ASSUME TypeOK, StoodStill => NoMoveDue, StoodStill', Daemon \/ Environment
  PROVE  /\ StoodStill /\ NoMoveDue'
         /\ ~(GridPress \/ GridFades \/ GridArms \/ WindowMoves \/ WindowChanges \/ WindowArms)
         /\ \A t \in Timers : ~(Fires(t) \/ Callback(t))
<1>1. StoodStill /\ NoMoveDue /\ ~GridPress /\ ~WindowMoves
  BY StoodBefore
<1>2. \A t \in Timers : ~(Fires(t) \/ Callback(t))
  BY <1>1, TimerSteps DEF TimerStep, NoMoveDue, Running, Dormant
<1>3. ~GridFades /\ ~GridArms /\ ~WindowArms /\ ~WindowChanges
  BY <1>1 DEF GridFades, GridArms, WindowArms, WindowChanges, StoodStill, NoMoveDue, GridArming, WindowArming
<1>4. NoMoveDue'
  <2>1. ASSUME NEW i \in Captures, FetchesWindow(i) \/ CaptureProceeds(i)
        PROVE  NoMoveDue'
    <3>1. /\ capture'[i].saw \in {capture[i].saw, windowMoves}
          /\ \A j \in Captures : j # i => capture'[j] = capture[j]
          /\ lastWindowBounds' \in {lastWindowBounds, RectAfter(capture[i].saw)}
          /\ UNCHANGED <<gridTracker, windowTracker, timer>>
      BY <2>1, CaptureEffects DEF CaptureDoes, gridVars
    <3> QED BY <1>1, <3>1 DEF NoMoveDue, StoodStill, GridArming, WindowArming
  <2>2. (MainThread /\ UNCHANGED goVars) \/ FontKey \/ SendsReposition \/ Quiet => NoMoveDue'
    BY <1>1 DEF goVars, gridVars, moveVars, FontKey, Adjusts, SendsReposition, Quiet, NoMoveDue,
                GridArming, WindowArming
  <2> QED BY <1>1, <1>2, <1>3, <2>1, <2>2, StepKinds
<1> QED BY <1>1, <1>2, <1>3, <1>4

\* Neither toggles, nor switches, nor texts are taken back.
LEMMA AskedBefore ==
  ASSUME TypeOK, StoodStill => NoMoveDue, Asked', Daemon \/ Environment, UNCHANGED <<limits, gFadeDuration>>
  PROVE  /\ Asked /\ NoMoveDue'
         /\ gFadeDuration # 0 => ~Display
         /\ \/ MainThread /\ UNCHANGED goVars
            \/ \E c \in Callers : OverlayCall(c)
            \/ Toggle
            \/ \E c \in Clients : SetOutputMethod(c) /\ (SetRequest(c) => c \in limits.clients)
            \/ Answer \/ Display \/ OpacityKey \/ FontKey \/ SendsReposition
            \/ \E i \in Captures : FetchesWindow(i) \/ CaptureProceeds(i)
<1>1. toggles \in Nat /\ switches \in Nat /\ texts \in Nat
  BY ScenarioType, ZeroText DEF TypeOK, IntentTypeOK, MethodTypeOK, TextTypeOK
<1>2. /\ StoodStill /\ NoMoveDue'
      /\ ~(GridPress \/ GridFades \/ GridArms \/ WindowMoves \/ WindowChanges \/ WindowArms)
      /\ \A t \in Timers : ~(Fires(t) \/ Callback(t))
  BY NoMoveBefore DEF Asked
<1> DEFINE kept == UNCHANGED <<toggles, switches, texts>>
<1> DEFINE step == \/ MainThread /\ UNCHANGED goVars
                   \/ \E c \in Callers : OverlayCall(c)
                   \/ Toggle
                   \/ \E c \in Clients : SetOutputMethod(c) /\ (SetRequest(c) => c \in limits.clients)
                   \/ Answer \/ Display \/ OpacityKey \/ FontKey \/ SendsReposition
                   \/ \E i \in Captures : FetchesWindow(i) \/ CaptureProceeds(i)
<1>3. step
  BY <1>2, ShowSteps
<1>4. ASSUME NEW c \in Callers, OverlayCall(c) PROVE kept
  BY <1>4, CallsPost DEF methodVars, textVars
<1>5. ASSUME NEW c \in Clients, SetOutputMethod(c)
      PROVE  kept \/ (UNCHANGED <<toggles, texts>> /\ switches' = switches + 1)
  BY <1>5 DEF SetOutputMethod, SetRequest, StoresMethod, SetsPoller, SwitchesOverlay, intentVars, textVars
<1>6. ASSUME NEW i \in Captures, FetchesWindow(i) \/ CaptureProceeds(i) PROVE kept
  <2>1. captureFrame
    BY <1>6 DEF CaptureProceeds, FetchesWindow, StoresWindow, PublishesWindow, PublishesCanvas,
       HidesForCapture, Grabs, Restores, CaptureEnds, CaptureGoes
  <2> QED BY <2>1 DEF captureFrame, intentVars, methodVars, textVars
<1>7. Toggle => UNCHANGED <<switches, texts>> /\ toggles' = toggles + 1
  BY DEF Toggle, methodVars, textVars
<1>8. Display => UNCHANGED <<toggles, switches>> /\ texts' = texts + 1
  BY DEF Display, methodVars, intentVars
<1>9. (MainThread /\ UNCHANGED goVars) \/ Answer \/ OpacityKey \/ FontKey \/ SendsReposition => kept
  BY DEF goVars, Answer, OpacityKey, FontKey, Adjusts, SendsReposition, methodVars, intentVars, textVars
<1>10. \/ kept
       \/ UNCHANGED <<toggles, texts>> /\ switches' = switches + 1
       \/ UNCHANGED <<switches, texts>> /\ toggles' = toggles + 1
       \/ UNCHANGED <<toggles, switches>> /\ texts' = texts + 1
  BY <1>3, <1>4, <1>5, <1>6, <1>7, <1>8, <1>9
<1>11. Asked
  BY <1>1, <1>2, <1>10 DEF Asked, SoleCaller
<1>12. gFadeDuration # 0 => ~Display
  BY <1>1, <1>8 DEF Asked
<1> QED BY <1>2, <1>3, <1>11, <1>12

\* One caller at most is about to show or hide the overlay, or switches the method.
Busy(c) == call[c] # NoCall \/ (c \in Clients /\ switching[c] # NoRequest)

LEMMA SoleBusy ==
  ASSUME TypeOK, CallsWanted, SoleCaller, NEW c \in Callers, NEW d \in Callers, Busy(c), Busy(d)
  PROVE  c = d
<1>1. CASE switches = 0
  <2>1. \A e \in Callers : Busy(e) => e = "toggleKey"
    BY <1>1 DEF CallsWanted, Busy, Callers
  <2> QED BY <2>1
<1>2. CASE switches # 0
  <2>1. \A e \in Callers : Busy(e) => e \in limits.clients
    BY <1>2 DEF CallsWanted, Busy, Callers, SoleCaller
  <2> QED BY <1>2, <2>1 DEF SoleCaller
<1> QED BY <1>1, <1>2

LEMMA CallStages ==
  ASSUME TypeOK, NEW c \in Callers
  PROVE  /\ call[c] = NoCall <=> call[c][1] = "none"
         /\ \A new : call' = [call EXCEPT ![c] = new] =>
              call'[c] = new /\ \A d \in Callers : d # c => call'[d] = call[d]
<1>1. call \in [Callers -> CallStates]
  BY DEF TypeOK, IntentTypeOK, CallStates
<1>2. call[c] \in CallStates
  BY <1>1
<1>3. NoCall[1] = "none"
  BY DEF NoCall
<1>4. \A s \in {"set", "check", "send"} \X BOOLEAN : s[1] # "none"
  OBVIOUS
<1>5. \A new : call' = [call EXCEPT ![c] = new] =>
         call'[c] = new /\ \A d \in Callers : d # c => call'[d] = call[d]
  BY <1>1
<1>6. call[c] = NoCall <=> call[c][1] = "none"
  BY <1>2, <1>3, <1>4 DEF CallStates
<1> QED BY <1>5, <1>6

LEMMA OthersIdle ==
  ASSUME TypeOK, CallsWanted, SoleCaller, NEW c \in Callers, Busy(c)
  PROVE  /\ \A d \in Callers : d # c => call[d] = NoCall
         /\ \A d \in Clients : d # c => switching[d] = NoRequest
         /\ c \in Clients => switching[c] = NoRequest \/ call[c] = NoCall
<1>1. \A d \in Callers : d # c => ~Busy(d)
  BY SoleBusy
<1> QED BY <1>1 DEF Busy, Callers, CallsWanted

\* A call goes on or returns, and what it asks for is intended.
LEMMA CallGoesOn ==
  ASSUME TypeOK, CallsWanted, SoleCaller, NEW c \in Callers, call[c] # NoCall,
         NEW new, new = NoCall \/ (new[1] # "none" /\ new[2] = Wanted),
         call' = [call EXCEPT ![c] = new], gIntendedVisible' = Wanted,
         UNCHANGED <<limits, intendedVisible, toggles, methodVars>>
  PROVE  CallsWanted' /\ UNCHANGED <<Switched, Wanted>>
<1>1. call'[c] = new /\ \A d \in Callers : d # c => call'[d] = call[d]
  BY CallStages
<1>2. UNCHANGED <<switching, switches, outputMethod>>
  BY DEF methodVars
<1>3. UNCHANGED <<Switched, Wanted>>
  BY <1>2 DEF Switched, Wanted
<1>4. /\ switches' = 0 => outputMethod' = "teleprompter"
                       /\ \A d \in Clients : call'[d] = NoCall /\ switching'[d] = NoRequest
      /\ toggles' = 0 => call'["toggleKey"] = NoCall
  BY <1>1, <1>2 DEF CallsWanted, Callers
<1>5. \A d \in Clients :
        /\ d \notin limits'.clients => call'[d] = NoCall /\ switching'[d] = NoRequest
        /\ switching'[d] = NoRequest \/ call'[d] = NoCall
        /\ switching'[d][1] \in {"activate", "overlay"} => switching'[d][2] = outputMethod'
  BY <1>1, <1>2 DEF CallsWanted, Callers
<1>6. \A d \in Callers : call'[d][1] # "none" => call'[d][2] = Wanted'
  <2>1. NoCall[1] = "none"
    BY DEF NoCall
  <2>2. \A d \in Callers : call[d][1] # "none" => call[d][2] = Wanted
    BY DEF CallsWanted
  <2>3. call'[c][1] # "none" => call'[c][2] = Wanted
    BY <1>1, <2>1
  <2>4. \A d \in Callers : call'[d][1] # "none" => call'[d][2] = Wanted
    BY <1>1, <2>2, <2>3
  <2> QED BY <1>3, <2>4
<1>7. gIntendedVisible' = Wanted'
  BY <1>3
<1> QED BY <1>3, <1>4, <1>5, <1>6, <1>7 DEF CallsWanted

LEMMA AskedCalls ==
  ASSUME TypeOK, CallsWanted, SoleCaller, Unmoved, NEW c \in Callers, OverlayCall(c),
         UNCHANGED <<limits, gFadeDuration>>
  PROVE  CallsWanted' /\ Unmoved' /\ TurnsAsWanted'
<1>1. QueueTypeOK
  BY DEF TypeOK, OverlayTypeOK
<1>2. PICK stage \in {"set", "check", "send"}, shown \in BOOLEAN : call[c] = <<stage, shown>>
  BY DEF OverlayCall, SetsIntent, ChecksMove, SendsIntent
<1>3. call[c][1] = stage /\ call[c][2] = shown /\ call[c] # NoCall /\ shown = Wanted
  <2>1. call[c][1] = stage /\ call[c][2] = shown
    BY <1>2
  <2> QED BY <2>1, CallStages DEF CallsWanted
<1>4. /\ \A d \in Callers : d # c => call[d] = NoCall
      /\ \A d \in Clients : switching[d] = NoRequest
  BY <1>3, OthersIdle DEF Busy
<1>5. ~Switched
  BY <1>4 DEF Switched, NoRequest
<1>6. stage # "set" => gIntendedVisible = Wanted
  <2>1. NoCall[1] = "none"
    BY DEF NoCall
  <2>2. \A d \in Callers : d # c => call[d][1] = "none"
    BY <1>4, <2>1
  <2>3. stage # "set" => \A d \in Callers : call[d][1] # "set"
    BY <1>3, <2>2
  <2> QED BY <1>5, <2>3 DEF CallsWanted
<1>7. PostsOne(Turning) /\ UNCHANGED <<gMoveInProgress, windowVars, intendedVisible, toggles, methodVars>>
  BY CallsPost
<1>8. Unmoved'
  BY <1>1, <1>7, StillUnmoved DEF Turning, Vanishing
<1>9. CASE SetsIntent(c)
  <2>1. PICK s \in BOOLEAN : /\ call[c] = <<"set", s>> /\ SetIntent(s)
                             /\ call' = [call EXCEPT ![c] = <<"check", s>>]
    BY <1>9 DEF SetsIntent
  <2>2. s = Wanted /\ gIntendedVisible' = s
    BY <1>3, <2>1 DEF SetIntent
  <2> DEFINE new == <<"check", s>>
  <2>3. new[1] = "check" /\ new[2] = s
    OBVIOUS
  <2>4. call' = [call EXCEPT ![c] = new]
    BY <2>1
  <2> HIDE DEF new
  <2>5. CallsWanted'
    BY <1>3, <1>7, <2>2, <2>3, <2>4, CallGoesOn
  <2>6. Calling'
    BY <2>3, <2>4, CallStages DEF Calling
  <2> QED BY <1>8, <2>5, <2>6 DEF TurnsAsWanted
<1>10. CASE ChecksMove(c)
  <2>1. PICK s \in BOOLEAN : /\ call[c] = <<"check", s>> /\ UNCHANGED overlayVars
                             /\ call' = [call EXCEPT ![c] = IF gMoveInProgress THEN NoCall ELSE <<"send", s>>]
    BY <1>10 DEF ChecksMove
  <2>2. s = Wanted /\ stage = "check"
    BY <1>3, <2>1
  <2>3. gIntendedVisible' = Wanted
    BY <1>6, <2>1, <2>2 DEF overlayVars, globalVars
  <2> DEFINE new == <<"send", s>>
  <2>4. new[1] = "send" /\ new[2] = s
    OBVIOUS
  <2>5. call' = [call EXCEPT ![c] = new]
    BY <2>1 DEF Unmoved
  <2> HIDE DEF new
  <2>6. CallsWanted'
    BY <1>3, <1>7, <2>2, <2>3, <2>4, <2>5, CallGoesOn
  <2>7. Calling'
    BY <2>4, <2>5, CallStages DEF Calling
  <2> QED BY <1>8, <2>6, <2>7 DEF TurnsAsWanted
<1>11. CASE SendsIntent(c)
  <2>1. PICK s \in BOOLEAN : /\ call[c] = <<"send", s>> /\ DispatchIntent(s)
                             /\ call' = [call EXCEPT ![c] = NoCall]
    BY <1>11 DEF SendsIntent
  <2>2. s = Wanted /\ stage = "send"
    BY <1>3, <2>1
  <2>3. gIntendedVisible' = Wanted
    BY <1>6, <2>1, <2>2 DEF DispatchIntent, globalVars
  <2>4. CallsWanted' /\ UNCHANGED Wanted
    BY <1>3, <1>7, <2>1, <2>3, CallGoesOn
  <2>5. IF Wanted THEN LastTurnIs("showWindow")' ELSE LastTurnIs("hideWindow")'
    <3>1. Dispatch(IF Wanted THEN "showWindow" ELSE "hideWindow", 0)
      BY <2>1, <2>2 DEF DispatchIntent
    <3>2. CASE Wanted
      <4>1. Dispatch("showWindow", 0)
        BY <3>1, <3>2
      <4> QED BY <1>1, <3>2, <4>1, TurnPosted DEF Turning
    <3>3. CASE ~Wanted
      <4>1. Dispatch("hideWindow", 0)
        BY <3>1, <3>3
      <4> QED BY <1>1, <3>3, <4>1, TurnPosted DEF Turning
    <3> QED BY <3>2, <3>3
  <2> QED BY <1>8, <2>4, <2>5 DEF TurnsAsWanted, TurnsOn, TurnsOff
<1> QED BY <1>9, <1>10, <1>11 DEF OverlayCall

LEMMA AskedToggle ==
  ASSUME TypeOK, CallsWanted, SoleCaller', Unmoved, Toggle, UNCHANGED <<limits, gFadeDuration>>
  PROVE  CallsWanted' /\ Unmoved' /\ TurnsAsWanted'
<1>1. toggles' # 0 /\ UNCHANGED <<overlayVars, methodVars>> /\ call["toggleKey"] = NoCall
  <2>1. toggles \in Nat
    BY ScenarioType DEF TypeOK, IntentTypeOK
  <2> QED BY <2>1 DEF Toggle
<1>2. UNCHANGED <<switching, switches, outputMethod>>
  BY <1>1 DEF methodVars
<1>3. /\ switches = 0 /\ outputMethod = "teleprompter"
      /\ \A c \in Clients : call[c] = NoCall /\ switching[c] = NoRequest
  BY <1>1, <1>2 DEF SoleCaller, CallsWanted
<1>4. intendedVisible' = ~intendedVisible /\ call' = [call EXCEPT !["toggleKey"] = <<"set", ~intendedVisible>>]
  BY <1>3 DEF Toggle, Calls
<1> DEFINE new == <<"set", ~intendedVisible>>
<1>5. new[1] = "set" /\ new[2] = ~intendedVisible
  OBVIOUS
<1>6. call' = [call EXCEPT !["toggleKey"] = new]
  BY <1>4
<1> HIDE DEF new
<1>7. call'["toggleKey"] = new /\ \A c \in Clients : call'[c] = NoCall
  <2>1. "toggleKey" \in Callers /\ \A c \in Clients : c \in Callers /\ c # "toggleKey"
    BY OverlayAssumption DEF Callers
  <2> QED BY <1>3, <1>6, <2>1, CallStages
<1>8. Wanted' = ~intendedVisible
  BY <1>2, <1>3, <1>4 DEF Wanted
<1>9. NoCall[1] = "none"
  BY DEF NoCall
<1>10. \A c \in Callers : call'[c][1] # "none" => call'[c][2] = Wanted'
  <2>1. call'["toggleKey"][2] = Wanted'
    BY <1>5, <1>7, <1>8
  <2>2. \A c \in Callers : c = "toggleKey" \/ call'[c][1] = "none"
    BY <1>7, <1>9 DEF Callers
  <2> QED BY <2>1, <2>2
<1>11. call'["toggleKey"][1] = "set" /\ "toggleKey" \in Callers
  BY <1>5, <1>7 DEF Callers
<1>12. CallsWanted'
  <2>1. \A c \in Clients : call'[c] = NoCall /\ switching'[c] = NoRequest
    BY <1>2, <1>3, <1>7
  <2>2. \A c \in Clients : switching'[c][1] \notin {"activate", "overlay"}
    BY <2>1 DEF NoRequest
  <2> QED BY <1>1, <1>2, <1>3, <1>10, <1>11, <2>1, <2>2 DEF CallsWanted
<1>13. Unmoved'
  BY <1>1 DEF Unmoved, InQueue, overlayVars, windowVars, globalVars
<1>14. Calling'
  BY <1>11 DEF Calling
<1> QED BY <1>12, <1>13, <1>14 DEF TurnsAsWanted

\* The client's request; what the other callers do not, and the queue, stays.
LEMMA AskedSwitch ==
  ASSUME TypeOK, CallsWanted, TurnsAsWanted, Unmoved, SoleCaller, SoleCaller',
         NEW c \in Clients, SetOutputMethod(c), SetRequest(c) => c \in limits.clients,
         UNCHANGED <<limits, gFadeDuration>>
  PROVE  CallsWanted' /\ Unmoved' /\ TurnsAsWanted'
<1>1. UNCHANGED <<overlayVars, intendedVisible, toggles, capture>>
  BY DEF SetOutputMethod, SetRequest, StoresMethod, SetsPoller, SwitchesOverlay, intentVars
<1>2. Unmoved' /\ UNCHANGED <<TurnsOn, TurnsOff, gIntendedVisible>>
  BY <1>1 DEF Unmoved, TurnsOn, TurnsOff, NoTurns, LastTurnIs, OutForCapture, Shown, InQueue,
     overlayVars, windowVars, globalVars
<1>3. c \in Callers /\ c # "toggleKey"
  BY OverlayAssumption DEF Callers
<1>4. switching \in [Clients -> {NoRequest} \cup ({"store", "activate", "overlay"} \X Methods)]
  BY DEF TypeOK, MethodTypeOK
<1>5. \A new : switching' = [switching EXCEPT ![c] = new] =>
         switching'[c] = new /\ \A d \in Clients : d # c => switching'[d] = switching[d]
  BY <1>4
<1>6. NoRequest[1] = "none" /\ NoCall[1] = "none"
  BY DEF NoRequest, NoCall
<1>7. CASE SetRequest(c)
  <2>1. PICK m \in Methods : switching' = [switching EXCEPT ![c] = <<"store", m>>]
    BY <1>7 DEF SetRequest
  <2>2. /\ switching[c] = NoRequest /\ call[c] = NoCall /\ switches' = switches + 1
        /\ UNCHANGED <<outputMethod, call>>
    BY <1>7 DEF SetRequest, intentVars
  <2>3. switches' # 0
    BY <2>2, ScenarioType DEF TypeOK, MethodTypeOK
  <2>4. switching'[c][1] = "store" /\ \A d \in Clients : d # c => switching'[d] = switching[d]
    BY <1>5, <2>1
  <2>5. switching[c][1] = "none"
    BY <1>6, <2>2
  <2>6. UNCHANGED <<Switched, Calling, Wanted>>
    BY <1>1, <2>2, <2>4, <2>5 DEF Switched, Calling, Wanted
  <2>7. \A d \in Clients :
          /\ d \notin limits.clients => call[d] = NoCall /\ switching'[d] = NoRequest
          /\ switching'[d] = NoRequest \/ call[d] = NoCall
          /\ switching'[d][1] \in {"activate", "overlay"} => switching'[d][2] = outputMethod
    BY <1>7, <2>2, <2>4 DEF CallsWanted
  <2>8. CallsWanted'
    BY <1>1, <1>2, <2>2, <2>3, <2>6, <2>7 DEF CallsWanted
  <2> QED BY <1>2, <2>6, <2>8 DEF TurnsAsWanted
<1>8. ASSUME switching[c] # NoRequest
      PROVE  /\ \A d \in Callers : call[d] = NoCall
             /\ \A d \in Clients : d # c => switching[d] = NoRequest
             /\ switches # 0 /\ c \in limits.clients /\ ~Calling
  <2>1. /\ \A d \in Callers : d # c => call[d] = NoCall
        /\ \A d \in Clients : d # c => switching[d] = NoRequest
        /\ call[c] = NoCall
    BY <1>3, <1>8, OthersIdle DEF Busy
  <2>2. switches # 0 /\ c \in limits.clients
    BY <1>8 DEF CallsWanted
  <2> QED BY <1>6, <2>1, <2>2 DEF Calling
<1>9. CASE StoresMethod(c)
  <2>1. PICK m \in Methods : /\ switching[c] = <<"store", m>> /\ outputMethod' = m
                             /\ switching' = [switching EXCEPT ![c] = <<"activate", m>>]
    BY <1>9 DEF StoresMethod
  <2>2. switching[c][1] = "store" /\ switching[c] # NoRequest /\ UNCHANGED <<switches, call>>
    BY <1>6, <1>9, <2>1 DEF StoresMethod, intentVars
  <2>3. /\ switching'[c][1] = "activate" /\ switching'[c][2] = outputMethod'
        /\ \A d \in Clients : d # c => switching'[d] = switching[d]
    BY <1>5, <2>1
  <2>4. \A d \in Callers : call'[d] = NoCall /\ call'[d][1] = "none" /\ call[d][1] = "none"
    BY <1>6, <1>8, <2>2
  <2>5. \A d \in Clients :
          d # c => switching'[d] = NoRequest /\ switching'[d][1] = "none" /\ switching[d][1] = "none"
    BY <1>6, <1>8, <2>2, <2>3
  <2>6. Switched' \/ (gIntendedVisible = Wanted /\ ~Wanted /\ ~Wanted' /\ ~Switched)
    <3>1. CASE intendedVisible
      BY <1>1, <2>3, <3>1 DEF Switched
    <3>2. CASE ~intendedVisible
      BY <1>1, <2>4, <3>2 DEF Switched, Wanted, CallsWanted
    <3> QED BY <3>1, <3>2
  <2>7. CallsWanted'
    <3>1. \A d \in Clients :
            /\ d \notin limits'.clients => call'[d] = NoCall /\ switching'[d] = NoRequest
            /\ switching'[d] = NoRequest \/ call'[d] = NoCall
            /\ switching'[d][1] \in {"activate", "overlay"} => switching'[d][2] = outputMethod'
      BY <1>8, <2>2, <2>3, <2>4, <2>5 DEF Callers
    <3>2. Switched' \/ gIntendedVisible' = Wanted'
      <4>1. UNCHANGED gIntendedVisible
        BY <1>2
      <4>2. ~Wanted /\ ~Wanted' => (Wanted <=> Wanted')
        OBVIOUS
      <4> QED BY <2>6, <4>1, <4>2, Zenon DEF Wanted
    <3> QED BY <1>8, <2>2, <2>4, <3>1, <3>2 DEF CallsWanted, Callers
  <2>8. Switched' \/ TurnsOff'
    BY <1>2, <1>8, <2>2, <2>6 DEF TurnsAsWanted
  <2> QED BY <1>2, <2>6, <2>7, <2>8 DEF TurnsAsWanted
<1>10. CASE SetsPoller(c)
  <2>1. PICK m \in Methods : /\ switching[c] = <<"activate", m>>
                             /\ switching' = [switching EXCEPT ![c] = <<"overlay", m>>]
    BY <1>10 DEF SetsPoller
  <2>2. /\ switching[c][1] = "activate" /\ switching[c][2] = m /\ switching[c] # NoRequest
        /\ UNCHANGED <<switches, outputMethod, call>>
    BY <1>6, <1>10, <2>1 DEF SetsPoller, intentVars
  <2>3. /\ switching'[c][1] = "overlay" /\ switching'[c][2] = m
        /\ \A d \in Clients : d # c => switching'[d] = switching[d]
    BY <1>5, <2>1
  <2>4. UNCHANGED <<Switched, Calling, Wanted>>
    BY <1>1, <2>2, <2>3 DEF Switched, Calling, Wanted
  <2>5. \A d \in Clients :
          /\ d \notin limits.clients => call[d] = NoCall /\ switching'[d] = NoRequest
          /\ switching'[d] = NoRequest \/ call[d] = NoCall
          /\ switching'[d][1] \in {"activate", "overlay"} => switching'[d][2] = outputMethod
    BY <1>3, <1>8, <2>2, <2>3 DEF CallsWanted
  <2>6. CallsWanted'
    BY <1>1, <1>2, <1>8, <2>2, <2>4, <2>5 DEF CallsWanted
  <2> QED BY <1>2, <2>4, <2>6 DEF TurnsAsWanted
<1>11. CASE SwitchesOverlay(c)
  <2>1. PICK m \in Methods : /\ switching[c] = <<"overlay", m>>
                             /\ switching' = [switching EXCEPT ![c] = NoRequest]
                             /\ IF m = "teleprompter" /\ ~intendedVisible
                                THEN UNCHANGED call ELSE Calls(c, m = "teleprompter")
    BY <1>11 DEF SwitchesOverlay
  <2>2. /\ switching[c][1] = "overlay" /\ switching[c][2] = m /\ switching[c] # NoRequest
        /\ UNCHANGED <<switches, outputMethod>>
    BY <1>6, <1>11, <2>1 DEF SwitchesOverlay
  <2>3. m = outputMethod
    BY <2>2 DEF CallsWanted
  <2>4. \A d \in Clients : switching'[d] = NoRequest /\ switching'[d][1] = "none"
    BY <1>5, <1>6, <1>8, <2>1, <2>2
  <2>5. UNCHANGED Wanted /\ ~Switched'
    BY <1>1, <2>2, <2>4 DEF Wanted, Switched
  <2>6. CASE m = "teleprompter" /\ ~intendedVisible
    <3>1. UNCHANGED call /\ ~Switched /\ UNCHANGED Calling
      BY <2>1, <2>6 DEF Switched, Calling
    <3>2. CallsWanted'
      BY <1>1, <1>2, <1>8, <2>2, <2>4, <2>5, <3>1 DEF CallsWanted
    <3> QED BY <1>2, <2>5, <3>1, <3>2 DEF TurnsAsWanted
  <2>7. CASE ~(m = "teleprompter" /\ ~intendedVisible)
    <3>1. PICK shown \in BOOLEAN : shown = (m = "teleprompter")
      BY Zenon
    <3>2. call' = [call EXCEPT ![c] = <<"set", shown>>]
      BY <2>1, <2>7, <3>1 DEF Calls
    <3> DEFINE new == <<"set", shown>>
    <3>3. new[1] = "set" /\ new[2] = shown
      OBVIOUS
    <3>4. call' = [call EXCEPT ![c] = new]
      BY <3>2
    <3> HIDE DEF new
    <3>5. call'[c] = new /\ \A d \in Callers : d # c => call'[d] = NoCall /\ call'[d][1] = "none"
      BY ZenonT(30), <1>3, <1>6, <1>8, <2>2, <3>4, CallStages
    <3>6. shown = Wanted
      BY <2>3, <2>7, <3>1 DEF Wanted
    <3>7. \A d \in Callers : call'[d][1] # "none" => call'[d][2] = Wanted'
      BY <2>5, <3>3, <3>5, <3>6
    <3>8. \A d \in Clients :
            /\ d \notin limits'.clients => call'[d] = NoCall /\ switching'[d] = NoRequest
            /\ switching'[d] = NoRequest \/ call'[d] = NoCall
            /\ switching'[d][1] \in {"activate", "overlay"} => switching'[d][2] = outputMethod'
      BY <1>8, <2>2, <2>4, <3>5 DEF Callers
    <3>9. CallsWanted'
      BY <1>3, <1>8, <2>2, <3>3, <3>5, <3>7, <3>8 DEF CallsWanted, Callers
    <3>10. Calling'
      BY <1>3, <3>3, <3>5 DEF Calling
    <3> QED BY <1>2, <3>9, <3>10 DEF TurnsAsWanted
  <2> QED BY <2>6, <2>7
<1> QED BY <1>7, <1>9, <1>10, <1>11 DEF SetOutputMethod

\* Captures and texts change nothing about what is asked.
LEMMA AskedOthers ==
  ASSUME TypeOK, CallsWanted, Unmoved, TurnsAsWanted, NEW S, PostsOne(S),
         S \subseteq Unturned \ (Vanishing \cup {"doFadeInAfterMove"}),
         gFadeDuration = 0 \/ "updateText" \notin S, OutForCapture => OutForCapture',
         UNCHANGED <<limits, gFadeDuration, windowVars, globalVars, intentVars, methodVars>>
  PROVE  CallsWanted' /\ Unmoved' /\ TurnsAsWanted'
<1>1. QueueTypeOK /\ PostsOne(Unturned)
  BY DEF TypeOK, OverlayTypeOK, PostsOne
<1>2. CallsWanted' /\ UNCHANGED <<Switched, Calling, Wanted>>
  BY DEF CallsWanted, Switched, Calling, Wanted, intentVars, methodVars, globalVars
<1>3. Unmoved'
  BY <1>1, StillUnmoved DEF globalVars
<1>4. (TurnsOn => TurnsOn') /\ (TurnsOff => TurnsOff')
  BY <1>1, TurnsStay
<1> QED BY <1>2, <1>3, <1>4 DEF TurnsAsWanted

LEMMA ShownAskedInvariant ==
  TypeOK /\ CapturesHide /\ ShownAsked /\ [Next]_vars => ShownAsked'
<1> SUFFICES ASSUME TypeOK, CapturesHide, ShownAsked, [Next]_vars PROVE ShownAsked'
  OBVIOUS
<1>1. CASE UNCHANGED vars
  <2>1. UNCHANGED <<Asked, StoodStill, NoMoveDue>>
    BY <1>1 DEF vars, goVars, intentVars, methodVars, gridVars, moveVars, textVars, Asked,
                StoodStill, SoleCaller,
       NoMoveDue, GridArming, WindowArming
  <2>2. UNCHANGED <<CallsWanted, Switched, Calling, Wanted>>
    BY <1>1 DEF vars, goVars, overlayVars, globalVars, intentVars, methodVars, CallsWanted,
                Switched, Calling, Wanted
  <2>3. UNCHANGED <<Unmoved, TurnsOn, TurnsOff>>
    BY <1>1 DEF vars, goVars, overlayVars, globalVars, windowVars, Unmoved, TurnsOn, TurnsOff,
       NoTurns, LastTurnIs, OutForCapture, InQueue, Shown
  <2> QED BY <2>1, <2>2, <2>3 DEF ShownAsked, TurnsAsWanted
<1>2. CASE Next
  <2>1. (Daemon \/ Environment) /\ UNCHANGED <<limits, gFadeDuration>>
    BY <1>2 DEF Next
  <2>2. StoodStill' => NoMoveDue'
    BY <2>1, NoMoveBefore DEF ShownAsked
  <2> SUFFICES ASSUME Asked' PROVE CallsWanted' /\ Unmoved' /\ TurnsAsWanted'
    BY <2>2 DEF ShownAsked
  <2>4. /\ Asked /\ (gFadeDuration # 0 => ~Display)
        /\ \/ MainThread /\ UNCHANGED goVars
           \/ \E c \in Callers : OverlayCall(c)
           \/ Toggle
           \/ \E c \in Clients : SetOutputMethod(c) /\ (SetRequest(c) => c \in limits.clients)
           \/ Answer \/ Display \/ OpacityKey \/ FontKey \/ SendsReposition
           \/ \E i \in Captures : FetchesWindow(i) \/ CaptureProceeds(i)
    BY <2>1, AskedBefore DEF ShownAsked
  <2>3. NoMoveDue /\ CallsWanted /\ Unmoved /\ TurnsAsWanted
    BY <2>4 DEF ShownAsked, Asked
  <2>5. SoleCaller /\ SoleCaller'
    BY <2>4 DEF Asked
  <2>6. CASE MainThread /\ UNCHANGED goVars
    BY <2>1, <2>3, <2>6, AskedMain
  <2>7. ASSUME NEW c \in Callers, OverlayCall(c) PROVE CallsWanted' /\ Unmoved' /\ TurnsAsWanted'
    BY <2>1, <2>3, <2>5, <2>7, AskedCalls
  <2>8. CASE Toggle
    BY <2>1, <2>3, <2>4, <2>5, <2>8, AskedToggle
  <2>9. ASSUME NEW c \in Clients, SetOutputMethod(c), SetRequest(c) => c \in limits.clients
        PROVE  CallsWanted' /\ Unmoved' /\ TurnsAsWanted'
    BY <2>1, <2>3, <2>5, <2>9, AskedSwitch
  <2>10. CASE Answer \/ Display \/ OpacityKey \/ FontKey \/ SendsReposition
    <3>1. /\ UNCHANGED <<globalVars, windowVars, intentVars, methodVars, capture>>
          /\ PostsOne({"reposition"}) \/ (Display /\ PostsOne({"updateText"}))
      BY <2>10, TextsPost
    <3>2. PICK S \in {{"reposition"}, {"updateText"}} : PostsOne(S) /\ ("updateText" \in S => Display)
      BY <3>1
    <3>3. /\ S \subseteq Unturned \ (Vanishing \cup {"doFadeInAfterMove"})
          /\ gFadeDuration = 0 \/ "updateText" \notin S
      BY <2>4, <3>2 DEF Unturned, Turning, Selectors, Vanishing
    <3>4. OutForCapture => OutForCapture'
      <4>1. QueueTypeOK
        BY DEF TypeOK, OverlayTypeOK
      <4>2. InQueue("orderInAfterCapture") => InQueue("orderInAfterCapture")'
        <5>1. CASE UNCHANGED mainQueue
          BY <5>1 DEF InQueue
        <5> QED BY <3>2, <4>1, <5>1, StaysInQueue DEF PostsOne
      <4> QED BY <3>1, <4>2 DEF OutForCapture
    <3> QED BY <2>1, <2>3, <2>4, <3>1, <3>2, <3>3, <3>4, AskedOthers
  <2>11. ASSUME NEW i \in Captures, FetchesWindow(i) \/ CaptureProceeds(i)
         PROVE  CallsWanted' /\ Unmoved' /\ TurnsAsWanted'
    <3> DEFINE S == {"orderOutForCapture", "orderInAfterCapture"}
    <3>1. UNCHANGED <<globalVars, windowVars, intentVars, methodVars>>
      BY <2>11, CaptureEffects, CapturesPost DEF CaptureDoes
    <3>2. PostsOne(S)
      BY <2>11, CapturesPost, CaptureItem DEF PostsOne, Selectors
    <3>3. S \subseteq Unturned \ (Vanishing \cup {"doFadeInAfterMove"}) /\ "updateText" \notin S
      BY DEF Unturned, Turning, Selectors, Vanishing
    <3>4. OutForCapture => OutForCapture'
      BY <2>11, OutOn
    <3> HIDE DEF S
    <3> QED BY <2>1, <2>3, <3>1, <3>2, <3>3, <3>4, AskedOthers
  <2> QED BY <2>4, <2>6, <2>7, <2>8, <2>9, <2>10, <2>11
<1> QED BY <1>1, <1>2

LEMMA InitialAsked == Init => ShownAsked
<1> SUFFICES ASSUME Init PROVE ShownAsked
  OBVIOUS
<1>1. /\ gIntendedVisible = limits.visible /\ intendedVisible = limits.visible
      /\ gMoveInProgress = FALSE /\ visible = FALSE /\ gOverlayInterpolation = 0 /\ alphaValue = 0
      /\ completions = {} /\ outputMethod = "teleprompter"
      /\ \A t \in Timers : timer[t].at = "unarmed"
      /\ \A c \in Callers : call[c] = NoCall
      /\ \A c \in Clients : switching[c] = NoRequest
      /\ \A i \in Captures : capture[i].saw = 0
      /\ gridTracker = "receive" /\ windowTracker = "tick"
      /\ lastWindowBounds \in {Nil, RectAfter(0)}
  BY DEF Init, OverlayInit
<1>2. NoMoveDue
  BY <1>1 DEF NoMoveDue, GridArming, WindowArming
<1>3. CallsWanted
  <2>1. NoCall[1] = "none" /\ NoRequest[1] = "none"
    BY DEF NoCall, NoRequest
  <2>2. \A c \in Callers : call[c][1] = "none"
    BY <1>1, <2>1
  <2>3. \A c \in Clients : switching[c][1] = "none"
    BY <1>1, <2>1
  <2>4. "toggleKey" \in Callers /\ Clients \subseteq Callers
    BY DEF Callers
  <2>5. gIntendedVisible = Wanted
    <3>1. intendedVisible \in BOOLEAN
      BY InitType DEF TypeOK, IntentTypeOK
    <3>2. Wanted <=> intendedVisible
      BY <1>1 DEF Wanted
    <3>3. Wanted = intendedVisible
      BY <3>1, <3>2, Zenon DEF Wanted
    <3> QED BY <1>1, <3>3
  <2> QED BY <1>1, <2>2, <2>3, <2>4, <2>5 DEF CallsWanted
<1>4. /\ mainQueue = IF limits.visible THEN <<Item("showWindow", 0), Commit(InitialSpot)>>
                                       ELSE <<Commit(InitialSpot)>>
  BY DEF Init, OverlayInit
<1>5. CASE limits.visible
  <2>1. mainQueue = <<Item("showWindow", 0), Commit(InitialSpot)>>
    BY <1>4, <1>5
  <2>2. /\ 1 \in DOMAIN mainQueue /\ mainQueue[1].sel = "showWindow"
        /\ \A k \in DOMAIN mainQueue : k > 1 => mainQueue[k].sel = "doCommitMove"
        /\ \A k \in DOMAIN mainQueue : mainQueue[k].sel \in {"showWindow", "doCommitMove"}
    BY <2>1 DEF Item, Commit
  <2>3. Unmoved
    BY <1>1, <2>2 DEF Unmoved, InQueue, Vanishing
  <2>4. LastTurnIs("showWindow")
    BY <2>2 DEF LastTurnIs, Turning
  <2> QED BY <1>1, <1>2, <1>3, <1>5, <2>3, <2>4 DEF ShownAsked, TurnsAsWanted, TurnsOn, Wanted
<1>6. CASE ~limits.visible
  <2>1. mainQueue = <<Commit(InitialSpot)>>
    BY <1>4, <1>6
  <2>2. \A k \in DOMAIN mainQueue : mainQueue[k].sel = "doCommitMove"
    BY <2>1 DEF Commit
  <2>3. Unmoved /\ NoTurns
    BY <1>1, <2>2 DEF Unmoved, InQueue, Vanishing, NoTurns, Turning
  <2> QED BY <1>1, <1>2, <1>3, <1>6, <2>3 DEF ShownAsked, TurnsAsWanted, TurnsOff, Wanted, Shown
<1> QED BY <1>5, <1>6

\* Captures and texts do not stand in the way of those who ask: as long as nothing moves,
\* the user alone toggles the overlay or one client alone switches the method, and no text
\* crossfades, the overlay is on the screen, once everything has come to rest, exactly when
\* the last of them asked for it (trackToggles, SetOutputMethod, showOverlay, hideOverlay).
THEOREM AskedAlwaysShown == Safety => [](Asked => ShownAsIntended)
<1> DEFINE Inv == TypeOK /\ TimerOrder /\ CapturesHide /\ ShownAsked
<1>1. Init => Inv
  BY InitType, InitialShown, InitialAsked, InitialFrame DEF FrameInv
<1>2. Inv /\ [Next]_vars => Inv'
  BY StepType, TimerOrderInvariant, CapturesHideInvariant, ShownAskedInvariant
<1>3. Inv => (Asked => ShownAsIntended)
  <2> SUFFICES ASSUME Inv, Asked, Quiescent
               PROVE  Shown <=> intendedVisible /\ outputMethod = "teleprompter"
    BY DEF ShownAsIntended
  <2>1. Unmoved /\ TurnsAsWanted
    BY DEF ShownAsked
  <2>2. DOMAIN mainQueue = {} /\ ~OutForCapture
    BY DEF Quiescent, InQueue, OutForCapture
  <2>3. ~Switched /\ ~Calling
    <3>1. NoCall[1] = "none" /\ NoRequest[1] = "none"
      BY DEF NoCall, NoRequest
    <3>2. (\A c \in Callers : call[c] = NoCall) /\ \A c \in Clients : switching[c] = NoRequest
      BY DEF Quiescent
    <3> QED BY <3>1, <3>2 DEF Switched, Calling
  <2>4. IF Wanted THEN gOverlayInterpolation = 1 /\ visible ELSE ~Shown
    BY <2>1, <2>2, <2>3 DEF TurnsAsWanted, TurnsOn, TurnsOff, LastTurnIs
  <2> QED BY <2>1, <2>4 DEF Unmoved, Wanted, Shown
<1> QED BY <1>1, <1>2, <1>3, PTL DEF Safety
=============================================================================

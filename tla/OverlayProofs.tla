--------------------------- MODULE OverlayProofs ---------------------------
(***************************************************************************)
(* Proofs about Overlay for every set of scenarios, captures and clients,  *)
(* every window and every bound: the types, and the margin of the frames.  *)
(***************************************************************************)
EXTENDS Overlay, GridSpotProofs, SequenceTheorems, FiniteSetTheorems

(***************************************************************************)
(* What stays as it is keeps its type                                      *)
(***************************************************************************)
LEMMA UnchangedWindow ==
  /\ QueueTypeOK /\ UNCHANGED mainQueue => QueueTypeOK'
  /\ GlobalTypeOK /\ UNCHANGED globalVars => GlobalTypeOK'
  /\ SharedTypeOK /\ UNCHANGED sharedVars => SharedTypeOK'
  /\ FrameTypeOK /\ UNCHANGED <<gCurrentText, frameVars>> => FrameTypeOK'
  /\ FadeTypeOK /\ FrameTypeOK /\ UNCHANGED windowVars => FadeTypeOK' /\ FrameTypeOK'
  /\ OverlayTypeOK /\ UNCHANGED overlayVars => OverlayTypeOK'
BY DEF QueueTypeOK, GlobalTypeOK, SharedTypeOK, FadeTypeOK, FrameTypeOK, OverlayTypeOK,
       globalVars, sharedVars, frameVars, windowVars, overlayVars

LEMMA UnchangedGo ==
  ASSUME UNCHANGED limits
  PROVE  /\ MethodTypeOK /\ UNCHANGED methodVars => MethodTypeOK'
         /\ IntentTypeOK /\ UNCHANGED intentVars => IntentTypeOK'
         /\ GridTypeOK /\ UNCHANGED gridVars => GridTypeOK'
         /\ MoveTypeOK /\ UNCHANGED moveVars => MoveTypeOK'
         /\ TimerTypeOK /\ UNCHANGED timer => TimerTypeOK'
         /\ TextTypeOK /\ UNCHANGED textVars => TextTypeOK'
         /\ CaptureTypeOK /\ UNCHANGED capture => CaptureTypeOK'
BY DEF MethodTypeOK, IntentTypeOK, GridTypeOK, MoveTypeOK, TimerTypeOK, TextTypeOK,
       CaptureTypeOK, methodVars, intentVars, gridVars, moveVars, textVars

(***************************************************************************)
(* The constants                                                           *)
(***************************************************************************)
LEMMA ScenarioType ==
  ASSUME limits \in Scenarios
  PROVE  /\ limits.moves \in 0 .. MaxWindowMoves /\ limits.texts \in Texts
         /\ limits.toggles \in Nat /\ limits.switches \in Nat /\ limits.adjusts \in Nat
         /\ limits.visible \in BOOLEAN
         /\ limits.arrows \in Seq(Directions)
<1>1. limits \in Scenario
  BY OverlayAssumption
<1>2. limits.arrows \in Seq(Directions)
  <2>1. limits.arrows \in UNION {[1 .. n -> Directions] : n \in 0 .. MaxPresses}
    BY <1>1 DEF Scenario
  <2>2. PICK n \in 0 .. MaxPresses : limits.arrows \in [1 .. n -> Directions]
    BY <2>1
  <2>3. n \in Nat
    BY <2>2, OverlayAssumption
  <2> QED BY <2>2, <2>3, SeqDef
<1> QED BY <1>1, <1>2 DEF Scenario

LEMMA ZeroText == 0 \in Texts /\ Texts \subseteq Nat
BY OverlayWindowAssumption

LEMMA FontType == FontSizes \subseteq Nat /\ DefaultFont \in FontSizes
BY OverlayWindowAssumption DEF FontSizes

LEMMA BoundsOfWindow ==
  ASSUME NEW n \in 0 .. MaxWindowMoves
  PROVE  RectAfter(n) \in Bounds /\ CanvasAfter(n) \in Bounds
<1>1. WindowAfter[n] \in Windows
  BY OverlayAssumption
<1>2. ASSUME NEW w \in Windows
      PROVE  WindowRect(w) \in Bounds /\ CanvasBounds(w) \in Bounds
  <2>1. w.x \in Int /\ w.y \in Int /\ w.width \in Nat /\ w.height \in Nat /\ Toolbar[w.app] \in Int
    BY ToolbarAssumption DEF Windows
  <2>2. \A a, b, c, d \in Int : Rect(a, b, c, d) \in Rectangles
    BY DEF Rect, Rectangles, Lesser, Greater
  <2>3. /\ w.x + w.width \in Int /\ w.y + w.height \in Int /\ w.y + Toolbar[w.app] \in Int
        /\ w.x \in Int /\ w.y \in Int
    BY <2>1
  <2>4. WindowRect(w) \in Rectangles
    BY <2>2, <2>3 DEF WindowRect
  <2>5. CanvasBounds(w) \in Rectangles \cup {Nil}
    <3>1. Rect(w.x, w.y + Toolbar[w.app], w.x + w.width, w.y + w.height) \in Rectangles
      BY <2>2, <2>3
    <3> QED BY <3>1, Zenon DEF CanvasBounds
  <2> QED BY <2>4, <2>5 DEF Bounds
<1> QED BY <1>1, <1>2 DEF RectAfter, CanvasAfter

LEMMA CentreType == <<GridUnits \div 2, GridUnits \div 2>> \in Spots
<1>1. GridUnits \div 2 \in 0 .. GridUnits
  BY GridAssumption
<1> QED BY <1>1 DEF Spots, Percentages

LEMMA ItemType ==
  /\ \A sel \in Selectors, arg \in Nat : Item(sel, arg) \in Items /\ Item(sel, arg).sel = sel
                                         /\ Item(sel, arg).arg = arg
  /\ \A spot \in Spots : Commit(spot) \in Items /\ Commit(spot).sel = "doCommitMove"
<1>1. <<0, 0>> \in Spots
  BY GridAssumption DEF Spots, Percentages
<1>2. "doCommitMove" \in Selectors /\ 0 \in Nat
  BY DEF Selectors
<1> QED BY <1>1, <1>2 DEF Item, Commit, Items

(***************************************************************************)
(* The queue of the main thread                                            *)
(***************************************************************************)
LEMMA PostType ==
  ASSUME QueueTypeOK, NEW item \in Items, item.sel = "updateText" => item.arg \in Texts,
         mainQueue' = Append(mainQueue, item)
  PROVE  QueueTypeOK'
<1>1. mainQueue \in Seq(Items)
  BY DEF QueueTypeOK
<1>2. /\ mainQueue' \in Seq(Items) /\ Len(mainQueue') = Len(mainQueue) + 1
      /\ \A i \in 1 .. Len(mainQueue) : mainQueue'[i] = mainQueue[i]
      /\ mainQueue'[Len(mainQueue) + 1] = item
  BY <1>1, AppendProperties
<1>3. DOMAIN mainQueue' = 1 .. Len(mainQueue) + 1 /\ DOMAIN mainQueue = 1 .. Len(mainQueue)
  BY <1>1, <1>2, LenProperties
<1>4. Len(mainQueue) \in Nat
  BY <1>1, LenProperties
<1>5. ASSUME NEW i \in DOMAIN mainQueue', mainQueue'[i].sel = "updateText"
      PROVE  mainQueue'[i].arg \in Texts
  <2>1. CASE i \in DOMAIN mainQueue
    BY <1>2, <1>3, <1>5, <2>1 DEF QueueTypeOK
  <2>2. CASE i = Len(mainQueue) + 1
    BY <1>2, <1>5, <2>2
  <2> QED BY <1>3, <1>4, <2>1, <2>2
<1> QED BY <1>2, <1>5 DEF QueueTypeOK

LEMMA TailType ==
  ASSUME QueueTypeOK, mainQueue # <<>>, mainQueue' = Tail(mainQueue)
  PROVE  /\ QueueTypeOK'
         /\ Head(mainQueue) \in Items
         /\ Head(mainQueue).sel = "updateText" => Head(mainQueue).arg \in Texts
<1>1. mainQueue \in Seq(Items)
  BY DEF QueueTypeOK
<1>2. /\ mainQueue' \in Seq(Items) /\ Head(mainQueue) \in Items
      /\ Len(mainQueue') = Len(mainQueue) - 1
      /\ \A i \in 1 .. Len(mainQueue') : mainQueue'[i] = mainQueue[i + 1]
      /\ Head(mainQueue) = mainQueue[1]
  BY <1>1, HeadTailProperties
<1>3. /\ DOMAIN mainQueue' = 1 .. Len(mainQueue') /\ DOMAIN mainQueue = 1 .. Len(mainQueue)
      /\ Len(mainQueue) \in Nat /\ Len(mainQueue) # 0
  BY <1>1, <1>2, LenProperties, EmptySeq
<1>4. ASSUME NEW i \in DOMAIN mainQueue', mainQueue'[i].sel = "updateText"
      PROVE  mainQueue'[i].arg \in Texts
  <2>1. i + 1 \in DOMAIN mainQueue /\ mainQueue'[i] = mainQueue[i + 1]
    BY <1>2, <1>3
  <2> QED BY <1>4, <2>1 DEF QueueTypeOK
<1>5. 1 \in DOMAIN mainQueue
  BY <1>3
<1> QED BY <1>2, <1>4, <1>5 DEF QueueTypeOK

LEMMA PostingType ==
  ASSUME OverlayTypeOK
  PROVE  /\ NoPost => QueueTypeOK' /\ SharedTypeOK'
         /\ \A spot \in Spots : Post(Commit(spot)) => QueueTypeOK' /\ SharedTypeOK'
         /\ \A sel \in Selectors, arg \in Nat :
              Dispatch(sel, arg) /\ (sel = "updateText" => arg \in Texts)
                => QueueTypeOK' /\ SharedTypeOK'
<1>1. NoPost => QueueTypeOK' /\ SharedTypeOK'
  BY UnchangedWindow DEF NoPost, OverlayTypeOK
<1>2. ASSUME NEW item \in Items, item.sel = "updateText" => item.arg \in Texts, Post(item)
      PROVE  QueueTypeOK' /\ SharedTypeOK'
  BY <1>2, PostType, UnchangedWindow DEF Post, OverlayTypeOK
<1>3. ASSUME NEW spot \in Spots, Post(Commit(spot)) PROVE QueueTypeOK' /\ SharedTypeOK'
  <2>1. Commit(spot) \in Items /\ Commit(spot).sel # "updateText"
    BY ItemType
  <2> QED BY <1>2, <1>3, <2>1
<1>4. ASSUME NEW sel \in Selectors, NEW arg \in Nat, Dispatch(sel, arg),
             sel = "updateText" => arg \in Texts
      PROVE  QueueTypeOK' /\ SharedTypeOK'
  BY <1>2, <1>4, ItemType DEF Dispatch
<1> QED BY <1>1, <1>3, <1>4

(***************************************************************************)
(* The main thread                                                         *)
(***************************************************************************)
LEMMA FadingType ==
  ASSUME FadeTypeOK, FadeIn \/ FadeOut
  PROVE  generation' \in Nat /\ alphaValue' \in {0, 1} /\ fadingIn' \in BOOLEAN
<1>1. generation' \in Nat /\ alphaValue' \in {0, 1}
  BY DEF FadeTypeOK, FadeIn, FadeOut
<1>2. fadingIn' \in BOOLEAN
  BY Zenon DEF FadeIn, FadeOut
<1> QED BY <1>1, <1>2

LEMMA CompletionType ==
  ASSUME FadeTypeOK, NEW kind \in {"hide", "text"}, NEW text \in Texts,
         OnCompletion(kind, text)
  PROVE  completions' \subseteq [kind : {"hide", "text"}, gen : Nat, text : Texts]
BY DEF FadeTypeOK, OnCompletion

LEMMA PlacementType ==
  ASSUME OverlayTypeOK, NEW spot \in Spots, NEW text \in Texts, NEW font \in FontSizes
  PROVE  Placement(spot, text, font) \in Placements
BY DEF OverlayTypeOK, SharedTypeOK, Placement, Placements, Bounds

LEMMA AppliesType ==
  ASSUME OverlayTypeOK, NEW text \in Texts, AppliesText(text)
  PROVE  FrameTypeOK'
<1>1. gGridSpot \in Spots /\ gFontSize \in FontSizes
  BY DEF OverlayTypeOK, FrameTypeOK, SharedTypeOK
<1>2. Placement(gGridSpot, text, gFontSize) \in Placements
  BY <1>1, PlacementType
<1> QED BY <1>1, <1>2 DEF AppliesText, FrameTypeOK

LEMMA SelectorType ==
  ASSUME OverlayTypeOK, NEW item \in Items,
         item.sel = "updateText" => item.arg \in Texts, Execute(item)
  PROVE  GlobalTypeOK' /\ FadeTypeOK' /\ FrameTypeOK'
<1> USE DEF OverlayTypeOK
<1>1. CASE showWindow
  <2>1. FadeTypeOK'
    BY <1>1, FadingType DEF showWindow, FadeTypeOK
  <2> QED BY <1>1, <2>1, UnchangedWindow DEF showWindow
<1>2. CASE hideWindow
  <2>1. FadeTypeOK'
    <3>1. completions' \subseteq [kind : {"hide", "text"}, gen : Nat, text : Texts]
      BY <1>2, CompletionType, ZeroText DEF hideWindow, FadeTypeOK
    <3>2. gOverlayInterpolation' \in {0, 1} /\ visible' \in BOOLEAN
      BY <1>2 DEF hideWindow, FadeTypeOK
    <3> QED BY <1>2, <3>1, <3>2, FadingType DEF hideWindow, FadeTypeOK
  <2> QED BY <1>2, <2>1, UnchangedWindow DEF hideWindow
<1>3. ASSUME item.arg \in Texts, updateText(item.arg)
      PROVE  GlobalTypeOK' /\ FadeTypeOK' /\ FrameTypeOK'
  <2>1. FadeTypeOK'
    <3>1. completions' \subseteq [kind : {"hide", "text"}, gen : Nat, text : Texts]
      BY <1>3, CompletionType DEF updateText, FadeTypeOK
    <3> QED BY <1>3, <3>1, FadingType DEF updateText, FadeTypeOK
  <2>2. FrameTypeOK'
    BY <1>3, AppliesType, UnchangedWindow DEF updateText
  <2> QED BY <1>3, <2>1, <2>2, UnchangedWindow DEF updateText
<1>4. CASE orderOutForCapture
  <2>1. FadeTypeOK'
    BY <1>4 DEF orderOutForCapture, FadeTypeOK
  <2> QED BY <1>4, <2>1, UnchangedWindow DEF orderOutForCapture
<1>5. CASE orderInAfterCapture
  <2>1. FadeTypeOK'
    BY <1>5 DEF orderInAfterCapture, FadeTypeOK
  <2> QED BY <1>5, <2>1, UnchangedWindow DEF orderInAfterCapture
<1>6. CASE doFadeOutForMove
  <2>1. FadeTypeOK' /\ GlobalTypeOK'
    BY <1>6, FadingType DEF doFadeOutForMove, FadeTypeOK, GlobalTypeOK
  <2> QED BY <1>6, <2>1, UnchangedWindow DEF doFadeOutForMove
<1>7. CASE doHideForWindowChange
  <2>1. FadeTypeOK' /\ GlobalTypeOK'
    BY <1>7, FadingType DEF doHideForWindowChange, FadeTypeOK, GlobalTypeOK
  <2> QED BY <1>7, <2>1, UnchangedWindow DEF doHideForWindowChange
<1>8. CASE doCommitMove(item.spot)
  <2>1. item.spot \in Spots
    BY DEF Items
  <2>2. FadeTypeOK' /\ GlobalTypeOK'
    BY <1>8 DEF doCommitMove, FadeTypeOK, GlobalTypeOK, globalVars
  <2>3. FrameTypeOK'
    BY <1>8, <2>1, PlacementType DEF doCommitMove, FrameTypeOK
  <2> QED BY <2>2, <2>3
<1>9. CASE doFadeInAfterMove
  <2>1. FadeTypeOK' /\ GlobalTypeOK'
    BY <1>9, FadingType DEF doFadeInAfterMove, FadeTypeOK, GlobalTypeOK
  <2> QED BY <1>9, <2>1, UnchangedWindow DEF doFadeInAfterMove
<1>10. CASE reposition
  <2>1. FadeTypeOK' /\ GlobalTypeOK'
    BY <1>10 DEF reposition, FadeTypeOK, GlobalTypeOK, globalVars
  <2>2. FrameTypeOK'
    BY <1>10, PlacementType DEF reposition, FrameTypeOK, SharedTypeOK
  <2> QED BY <2>1, <2>2
<1> QED BY <1>1, <1>2, <1>3, <1>4, <1>5, <1>6, <1>7, <1>8, <1>9, <1>10 DEF Execute

LEMMA MainThreadType ==
  ASSUME OverlayTypeOK, MainThread
  PROVE  OverlayTypeOK'
<1>1. CASE PerformSelector
  <2>1. /\ Head(mainQueue) \in Items /\ QueueTypeOK'
        /\ Head(mainQueue).sel = "updateText" => Head(mainQueue).arg \in Texts
    BY <1>1, TailType DEF PerformSelector, OverlayTypeOK
  <2>2. GlobalTypeOK' /\ FadeTypeOK' /\ FrameTypeOK'
    BY <1>1, <2>1, SelectorType DEF PerformSelector
  <2> QED BY <1>1, <2>1, <2>2, UnchangedWindow DEF PerformSelector, OverlayTypeOK
<1>2. ASSUME NEW c \in completions, HideCompletes(c)
      PROVE  OverlayTypeOK'
  <2>1. FadeTypeOK'
    BY <1>2 DEF HideCompletes, OverlayTypeOK, FadeTypeOK
  <2> QED BY <1>2, <2>1, UnchangedWindow DEF HideCompletes, OverlayTypeOK
<1>3. ASSUME NEW c \in completions, TextCompletes(c)
      PROVE  OverlayTypeOK'
  <2>1. c.text \in Texts
    BY DEF OverlayTypeOK, FadeTypeOK
  <2>2. FadeTypeOK'
    BY <1>3 DEF TextCompletes, OverlayTypeOK, FadeTypeOK
  <2>3. FrameTypeOK'
    BY <1>3, <2>1, AppliesType, UnchangedWindow DEF TextCompletes, OverlayTypeOK
  <2> QED BY <1>3, <2>2, <2>3, UnchangedWindow DEF TextCompletes, OverlayTypeOK
<1>4. CASE FadeInEnds
  <2>1. FadeTypeOK'
    BY <1>4 DEF FadeInEnds, OverlayTypeOK, FadeTypeOK
  <2> QED BY <1>4, <2>1, UnchangedWindow DEF FadeInEnds, OverlayTypeOK
<1> QED BY <1>1, <1>2, <1>3, <1>4 DEF MainThread

(***************************************************************************)
(* The goroutines                                                          *)
(***************************************************************************)
CallStates == {NoCall} \cup ({"set", "check", "send"} \X BOOLEAN)

LEMMA CallType ==
  ASSUME IntentTypeOK, NEW c \in Callers, NEW k \in {"set", "check", "send"},
         NEW shown \in BOOLEAN
  PROVE  /\ call' = [call EXCEPT ![c] = <<k, shown>>] => call' \in [Callers -> CallStates]
         /\ call' = [call EXCEPT ![c] = NoCall] => call' \in [Callers -> CallStates]
<1>1. <<k, shown>> \in CallStates /\ NoCall \in CallStates
  BY Zenon DEF CallStates
<1>2. call \in [Callers -> CallStates]
  BY Zenon DEF IntentTypeOK, CallStates
<1> QED BY <1>1, <1>2

LEMMA CallerType ==
  ASSUME TypeOK, NEW c \in Callers, OverlayCall(c), UNCHANGED <<limits, gFadeDuration>>
  PROVE  TypeOK'
<1> USE DEF TypeOK, OverlayTypeOK
<1>1. CASE SetsIntent(c)
  <2>1. IntentTypeOK'
    <3>1. call' \in [Callers -> CallStates]
      BY <1>1, CallType DEF SetsIntent
    <3> QED BY <1>1, <3>1 DEF SetsIntent, IntentTypeOK, CallStates
  <2>2. QueueTypeOK' /\ GlobalTypeOK' /\ SharedTypeOK'
    BY <1>1, UnchangedWindow DEF SetsIntent, SetIntent, GlobalTypeOK
  <2> QED BY <1>1, <2>1, <2>2, UnchangedWindow, UnchangedGo DEF SetsIntent
<1>2. CASE ChecksMove(c)
  <2>1. IntentTypeOK'
    <3>1. call' \in [Callers -> CallStates]
      BY <1>2, CallType DEF ChecksMove
    <3> QED BY <1>2, <3>1 DEF ChecksMove, IntentTypeOK, CallStates
  <2> QED BY <1>2, <2>1, UnchangedWindow, UnchangedGo DEF ChecksMove
<1>3. CASE SendsIntent(c)
  <2>1. IntentTypeOK'
    <3>1. call' \in [Callers -> CallStates]
      BY <1>3, CallType DEF SendsIntent
    <3> QED BY <1>3, <3>1 DEF SendsIntent, IntentTypeOK, CallStates
  <2>2. QueueTypeOK' /\ GlobalTypeOK' /\ SharedTypeOK'
    BY <1>3, PostingType, UnchangedWindow DEF SendsIntent, DispatchIntent, Selectors
  <2> QED BY <1>3, <2>1, <2>2, UnchangedWindow, UnchangedGo DEF SendsIntent
<1> QED BY <1>1, <1>2, <1>3 DEF OverlayCall

LEMMA ToggleType ==
  ASSUME TypeOK, Toggle, UNCHANGED <<limits, gFadeDuration>>
  PROVE  TypeOK'
<1>1. toggles' \in 0 .. limits'.toggles
  BY ScenarioType DEF TypeOK, IntentTypeOK, Toggle
<1>2. intendedVisible' \in BOOLEAN
  BY DEF TypeOK, IntentTypeOK, Toggle
<1>3. call' \in [Callers -> CallStates]
  <2>1. (~intendedVisible) \in BOOLEAN /\ "toggleKey" \in Callers
    BY DEF Callers
  <2>2. call \in [Callers -> CallStates]
    BY DEF TypeOK, IntentTypeOK, CallStates
  <2> QED BY <2>1, <2>2, CallType DEF TypeOK, Toggle, Calls
<1>4. IntentTypeOK'
  BY <1>1, <1>2, <1>3 DEF IntentTypeOK, CallStates
<1> QED BY <1>4, UnchangedWindow, UnchangedGo DEF TypeOK, OverlayTypeOK, Toggle

LEMMA SwitchingType ==
  ASSUME TypeOK, NEW c \in Clients, SetOutputMethod(c), UNCHANGED <<limits, gFadeDuration>>
  PROVE  TypeOK'
<1> USE DEF TypeOK
<1>1. CASE SetRequest(c)
  <2>1. MethodTypeOK'
    BY <1>1, ScenarioType DEF SetRequest, MethodTypeOK
  <2> QED BY <1>1, <2>1, UnchangedWindow, UnchangedGo DEF SetRequest
<1>2. CASE StoresMethod(c)
  <2>1. MethodTypeOK'
    BY <1>2 DEF StoresMethod, MethodTypeOK
  <2> QED BY <1>2, <2>1, UnchangedWindow, UnchangedGo DEF StoresMethod
<1>3. CASE SetsPoller(c)
  <2>1. pollerActive' \in BOOLEAN
    BY <1>3, Zenon DEF SetsPoller
  <2>2. MethodTypeOK'
    BY <1>3, <2>1 DEF SetsPoller, MethodTypeOK
  <2> QED BY <1>3, <2>2, UnchangedWindow, UnchangedGo DEF SetsPoller
<1>4. CASE SwitchesOverlay(c)
  <2>1. MethodTypeOK'
    BY <1>4 DEF SwitchesOverlay, MethodTypeOK, NoRequest, Methods
  <2>2. IntentTypeOK'
    <3>1. \A shown \in BOOLEAN : Calls(c, shown) => call' \in [Callers -> CallStates]
      BY CallType DEF Calls, Callers
    <3>2. \A m \in Methods : (m = "teleprompter") \in BOOLEAN
      BY Zenon
    <3>3. call \in [Callers -> CallStates]
      BY DEF IntentTypeOK, CallStates
    <3>4. call' \in [Callers -> CallStates]
      BY <1>4, <3>1, <3>2, <3>3 DEF SwitchesOverlay
    <3> QED BY <1>4, <3>4 DEF SwitchesOverlay, IntentTypeOK, CallStates
  <2> QED BY <1>4, <2>1, <2>2, UnchangedWindow, UnchangedGo DEF SwitchesOverlay
<1> QED BY <1>1, <1>2, <1>3, <1>4 DEF SetOutputMethod

LEMMA CapturesType ==
  ASSUME TypeOK, NEW i \in Captures, FetchesWindow(i) \/ CaptureProceeds(i),
         UNCHANGED <<limits, gFadeDuration>>
  PROVE  TypeOK'
<1>1. capture[i].saw \in 0 .. MaxWindowMoves /\ i \in Nat
  BY ScenarioType, OverlayAssumption DEF TypeOK, CaptureTypeOK
<1>2. CaptureTypeOK'
  <2>1. ASSUME NEW from \in CaptureStages, NEW to \in CaptureStages, CaptureGoes(i, from, to)
        PROVE  CaptureTypeOK'
    BY <2>1 DEF CaptureGoes, TypeOK, CaptureTypeOK
  <2>2. CASE FetchesWindow(i)
    BY <2>2 DEF FetchesWindow, TypeOK, CaptureTypeOK, CaptureStages, MoveTypeOK
  <2> QED
    BY <2>1, <2>2 DEF CaptureProceeds, StoresWindow, PublishesWindow, PublishesCanvas,
       HidesForCapture, Grabs, Restores, CaptureEnds, CaptureStages
<1>3. captureFrame
  BY DEF CaptureProceeds, FetchesWindow, StoresWindow, PublishesWindow, PublishesCanvas,
         HidesForCapture, Grabs, Restores, CaptureEnds, CaptureGoes
<1>4. MoveTypeOK'
  <2>1. CASE StoresWindow(i)
    BY <1>1, <2>1, BoundsOfWindow DEF StoresWindow, TypeOK, MoveTypeOK
  <2>2. CASE UNCHANGED moveVars
    BY <2>2, UnchangedGo DEF TypeOK
  <2> QED
    BY <2>1, <2>2 DEF CaptureProceeds, FetchesWindow, PublishesWindow, PublishesCanvas,
       HidesForCapture, Grabs, Restores, CaptureEnds
<1>5. QueueTypeOK' /\ SharedTypeOK'
  <2>1. CASE PublishesWindow(i)
    BY <1>1, <2>1, BoundsOfWindow, UnchangedWindow
    DEF PublishesWindow, SetWindowBounds, TypeOK, OverlayTypeOK, SharedTypeOK
  <2>2. CASE PublishesCanvas(i)
    BY <1>1, <2>2, BoundsOfWindow, UnchangedWindow
    DEF PublishesCanvas, SetCanvasBounds, TypeOK, OverlayTypeOK, SharedTypeOK
  <2>3. CASE HidesForCapture(i) \/ Restores(i)
    BY <1>1, <2>3, PostingType DEF HidesForCapture, Restores, TypeOK, Selectors
  <2>4. CASE NoPost
    BY <2>4, PostingType DEF TypeOK
  <2> QED
    BY <2>1, <2>2, <2>3, <2>4 DEF CaptureProceeds, FetchesWindow, StoresWindow, Grabs,
       CaptureEnds
<1> QED BY <1>2, <1>3, <1>4, <1>5, UnchangedWindow, UnchangedGo
        DEF captureFrame, TypeOK, OverlayTypeOK

LEMMA TextsType ==
  ASSUME TypeOK, Answer \/ Display \/ OpacityKey \/ FontKey \/ SendsReposition,
         UNCHANGED <<limits, gFadeDuration>>
  PROVE  TypeOK'
<1> USE DEF TypeOK, OverlayTypeOK
<1>1. CASE Answer
  <2>1. limits.texts \in Nat
    BY ScenarioType, ZeroText
  <2>2. TextTypeOK'
    BY <1>1, <2>1 DEF Answer, TextTypeOK
  <2> QED BY <1>1, <2>2, UnchangedWindow, UnchangedGo DEF Answer
<1>2. CASE Display
  <2>1. texts + 1 \in Texts /\ texts + 1 \in Nat
    <3>1. texts + 1 \in 0 .. limits.texts
      <4>1. limits.texts \in Nat
        BY ScenarioType, ZeroText
      <4> QED BY <1>2, <4>1 DEF Display, TextTypeOK
    <3> QED BY <3>1, ScenarioType, OverlayAssumption
  <2>2. TextTypeOK'
    BY <1>2 DEF Display, TextTypeOK
  <2>3. QueueTypeOK' /\ SharedTypeOK'
    BY <1>2, <2>1, PostingType DEF Display, Selectors
  <2> QED BY <1>2, <2>2, <2>3, UnchangedWindow, UnchangedGo DEF Display
<1>3. ASSUME Adjusts, fontTracker' \in {"receive", "send"}
      PROVE  TextTypeOK'
  BY <1>3, ScenarioType DEF Adjusts, TextTypeOK
<1>4. CASE OpacityKey
  <2>1. TextTypeOK'
    BY <1>3, <1>4 DEF OpacityKey, TextTypeOK
  <2>2. QueueTypeOK' /\ SharedTypeOK'
    BY <1>4, PostingType DEF OpacityKey, Selectors
  <2> QED BY <1>4, <2>1, <2>2, UnchangedWindow, UnchangedGo DEF OpacityKey, Adjusts
<1>5. CASE FontKey
  <2>1. TextTypeOK'
    BY <1>3, <1>5 DEF FontKey
  <2>2. QueueTypeOK' /\ GlobalTypeOK'
    BY <1>5, UnchangedWindow DEF FontKey, SetFontSize, ResetFontSize
  <2>3. SharedTypeOK'
    <3>1. ASSUME NEW size \in Int, SetFontSize(size) PROVE SharedTypeOK'
      <4>1. Lesser(Greater(size, MinFont), MaxFont) \in FontSizes
        BY OverlayWindowAssumption DEF FontSizes, Lesser, Greater
      <4> QED BY <3>1, <4>1 DEF SetFontSize, SharedTypeOK
    <3>2. CASE ResetFontSize
      BY <3>2, FontType DEF ResetFontSize, SharedTypeOK
    <3>3. gFontSize + 1 \in Int /\ gFontSize - 1 \in Int
      BY FontType DEF SharedTypeOK
    <3> QED BY <1>5, <3>1, <3>2, <3>3 DEF FontKey
  <2> QED BY <1>5, <2>1, <2>2, <2>3, UnchangedWindow, UnchangedGo DEF FontKey, Adjusts
<1>6. CASE SendsReposition
  <2>1. TextTypeOK'
    BY <1>6 DEF SendsReposition, TextTypeOK
  <2>2. QueueTypeOK' /\ SharedTypeOK'
    BY <1>6, PostingType DEF SendsReposition, Selectors
  <2> QED BY <1>6, <2>1, <2>2, UnchangedWindow, UnchangedGo DEF SendsReposition
<1> QED BY <1>1, <1>2, <1>4, <1>5, <1>6

(***************************************************************************)
(* The trackers and their timers                                           *)
(***************************************************************************)
LEMMA ArmType ==
  ASSUME TimerTypeOK, UNCHANGED limits, NEW t, NEW spot, t \in Timers => spot \in Spots,
         Arm(t, spot)
  PROVE  TimerTypeOK'
<1> DEFINE States == [at : TimerStages, spot : Spots, settled : 0 .. limits.moves,
                      show : BOOLEAN]
           Armed(u) == IF u = t THEN [timer[u] EXCEPT !.at = "armed", !.spot = spot]
                       ELSE IF u[1] = t[1] /\ timer[u].at = "armed"
                            THEN [timer[u] EXCEPT !.at = "stopped"]
                            ELSE timer[u]
<1>1. ASSUME NEW u \in Timers PROVE Armed(u) \in States
  <2>1. timer[u] \in States /\ "armed" \in TimerStages /\ "stopped" \in TimerStages
    BY DEF TimerTypeOK, TimerStages
  <2> HIDE DEF TimerStages
  <2> QED BY <2>1
<1>2. timer' = [u \in Timers |-> Armed(u)]
  BY DEF Arm
<1> HIDE DEF Armed
<1>3. timer' \in [Timers -> States]
  BY <1>1, <1>2
<1> QED BY <1>3 DEF TimerTypeOK

LEMMA MovesTimerType ==
  ASSUME TimerTypeOK, UNCHANGED limits, NEW t \in Timers, NEW from, NEW to \in TimerStages,
         Moves(t, from, to)
  PROVE  TimerTypeOK'
BY DEF TimerTypeOK, Moves

LEMMA DecidesTimerType ==
  ASSUME TimerTypeOK, UNCHANGED limits, NEW t \in Timers
  PROVE  /\ \A spot \in Spots :
              timer' = [timer EXCEPT ![t].at = "located", ![t].spot = spot] => TimerTypeOK'
         /\ \A show \in BOOLEAN :
              timer' = [timer EXCEPT ![t].at = "decided", ![t].show = show] => TimerTypeOK'
<1>1. "located" \in TimerStages /\ "decided" \in TimerStages
  BY DEF TimerStages
<1> DEFINE States == [at : TimerStages, spot : Spots, settled : 0 .. limits.moves,
                      show : BOOLEAN]
<1>2. timer \in [Timers -> States] /\ (TimerTypeOK' <=> timer' \in [Timers -> States])
  BY DEF TimerTypeOK
<1>3. ASSUME NEW spot \in Spots, timer' = [timer EXCEPT ![t].at = "located", ![t].spot = spot]
      PROVE  timer' \in [Timers -> States]
  BY <1>1, <1>2, <1>3
<1>4. ASSUME NEW show \in BOOLEAN, timer' = [timer EXCEPT ![t].at = "decided", ![t].show = show]
      PROVE  timer' \in [Timers -> States]
  BY <1>1, <1>2, <1>4
<1> QED BY <1>2, <1>3, <1>4

LEMMA TrackerType ==
  ASSUME TypeOK, GridPress \/ GridTracker \/ WindowMoves \/ WindowChanges \/ WindowArms,
         UNCHANGED <<limits, gFadeDuration>>
  PROVE  TypeOK'
<1> USE DEF TypeOK, OverlayTypeOK
<1>1. CASE GridPress
  <2>1. limits.arrows \in Seq(Directions) /\ Len(limits.arrows) \in Nat
    BY ScenarioType, LenProperties
  <2>2. limits.arrows[presses + 1] \in Directions
    <3>1. presses + 1 \in 1 .. Len(limits.arrows)
      BY <1>1, <2>1 DEF GridPress, GridTypeOK
    <3> QED BY <2>1, <3>1, ElementOfSeq
  <2>3. gridSpot' \in Spots
    <3>1. ASSUME NEW v \in Int PROVE WrapPercent(v) \in Percentages
      BY <3>1, WrapIsModulo, GridAssumption DEF Percentages
    <3>2. ASSUME NEW d \in Directions
          PROVE  d[1] \in Int /\ d[2] \in Int
      BY DEF Directions
    <3>3. gridSpot[1] \in Int /\ gridSpot[2] \in Int
      BY GridAssumption DEF GridTypeOK, Spots, Percentages
    <3>4. Step \in Int
      BY OverlayAssumption
    <3>5. ASSUME NEW d \in Directions
          PROVE  /\ gridSpot[1] + d[1] * Step \in Int
                 /\ gridSpot[2] + d[2] * Step \in Int
      BY <3>2, <3>3, <3>4
    <3>6. ASSUME NEW d \in Directions
          PROVE  <<WrapPercent(gridSpot[1] + d[1] * Step),
                   WrapPercent(gridSpot[2] + d[2] * Step)>> \in Spots
      BY <3>1, <3>5 DEF Spots
    <3> QED BY <1>1, <2>2, <3>6, Zenon DEF GridPress
  <2>4. presses' \in 0 .. Len(limits'.arrows)
    BY <1>1, <2>1 DEF GridPress, GridTypeOK
  <2>5. GridTypeOK'
    BY <1>1, <2>3, <2>4 DEF GridPress, GridTypeOK
  <2> QED BY <1>1, <2>5, UnchangedWindow, UnchangedGo DEF GridPress
<1>2. CASE GridFades
  <2>1. GridTypeOK'
    BY <1>2 DEF GridFades, GridTypeOK
  <2>2. QueueTypeOK' /\ SharedTypeOK'
    BY <1>2, PostingType DEF GridFades, Selectors
  <2> QED BY <1>2, <2>1, <2>2, UnchangedWindow, UnchangedGo DEF GridFades
<1>3. CASE GridArms
  <2>1. GridTypeOK'
    BY <1>3 DEF GridArms, GridTypeOK
  <2>2. TimerTypeOK'
    <3>1. gridSpot \in Spots /\ Arm(<<"grid", presses>>, gridSpot)
      BY <1>3 DEF GridArms, GridTypeOK
    <3> QED BY <3>1, ArmType
  <2> QED BY <1>3, <2>1, <2>2, UnchangedWindow, UnchangedGo DEF GridArms
<1>4. CASE WindowMoves
  <2>1. limits.moves \in Nat
    BY ScenarioType, OverlayAssumption
  <2>2. MoveTypeOK'
    BY <1>4, <2>1 DEF WindowMoves, MoveTypeOK
  <2> QED BY <1>4, <2>2, UnchangedWindow, UnchangedGo DEF WindowMoves
<1>5. CASE WindowChanges
  <2>1. RectAfter(windowMoves) \in Bounds
    BY ScenarioType, BoundsOfWindow, OverlayAssumption DEF MoveTypeOK
  <2>2. MoveTypeOK'
    BY <1>5, <2>1, OverlayAssumption DEF WindowChanges, MoveTypeOK
  <2>3. TimerTypeOK'
    <3>1. windowMoves \in 0 .. limits.moves
      BY DEF MoveTypeOK
    <3> QED BY <1>5, <3>1 DEF WindowChanges, TimerTypeOK
  <2>4. QueueTypeOK' /\ SharedTypeOK'
    BY <1>5, PostingType DEF WindowChanges, Selectors
  <2> QED BY <1>5, <2>2, <2>3, <2>4, UnchangedWindow, UnchangedGo DEF WindowChanges
<1>6. CASE WindowArms
  <2>1. MoveTypeOK'
    BY <1>6 DEF WindowArms, MoveTypeOK
  <2>2. TimerTypeOK'
    <3> DEFINE t == <<"window", windowChanges>>
    <3>1. t \in Timers => timer[t].spot \in Spots
      BY DEF TimerTypeOK
    <3>2. Arm(t, timer[t].spot)
      BY <1>6 DEF WindowArms
    <3> HIDE DEF t
    <3> QED BY <3>1, <3>2, ArmType
  <2> QED BY <1>6, <2>1, <2>2, UnchangedWindow, UnchangedGo DEF WindowArms
<1> QED BY <1>1, <1>2, <1>3, <1>4, <1>5, <1>6 DEF GridTracker

LEMMA TimerStepType ==
  ASSUME TypeOK, NEW t \in Timers, Fires(t) \/ Callback(t),
         UNCHANGED <<limits, gFadeDuration>>
  PROVE  TypeOK'
<1> USE DEF TypeOK, OverlayTypeOK
<1>1. timer[t].settled \in 0 .. MaxWindowMoves /\ timer[t].spot \in Spots
  BY ScenarioType, OverlayAssumption DEF TimerTypeOK
<1>2. TimerTypeOK'
  <2>1. CASE LocatesSpot(t)
    <3>1. gridSpot \in Spots
      BY DEF GridTypeOK
    <3>2. timer' = [timer EXCEPT ![t].at = "located", ![t].spot = gridSpot]
      BY <2>1 DEF LocatesSpot
    <3> QED BY <3>1, <3>2, DecidesTimerType
  <2>2. CASE ReadsIntended(t)
    <3>1. intendedVisible \in BOOLEAN
      BY DEF IntentTypeOK
    <3>2. timer' = [timer EXCEPT ![t].at = "decided", ![t].show = intendedVisible]
      BY <2>2 DEF ReadsIntended
    <3> QED BY <3>1, <3>2, DecidesTimerType
  <2>3. CASE Fires(t)
    BY <2>3, MovesTimerType DEF Fires, TimerStages
  <2> QED
    BY <2>1, <2>2, <2>3, MovesTimerType DEF Callback, WindowSteady, SettlesWindow,
       SettlesCanvas, CommitsMove, EndsFading, FadesInAfterMove, TimerStages
<1>3. timerFrame
  BY DEF Fires, Callback, WindowSteady, SettlesWindow, SettlesCanvas, LocatesSpot,
         CommitsMove, ReadsIntended, EndsFading, FadesInAfterMove, timerOnly, timerPosts
<1>4. fading' \in BOOLEAN /\ unstable' \in BOOLEAN
  BY DEF Fires, Callback, WindowSteady, SettlesWindow, SettlesCanvas, LocatesSpot,
         CommitsMove, ReadsIntended, EndsFading, FadesInAfterMove, timerOnly, timerPosts,
         GridTypeOK, MoveTypeOK
<1>5. GridTypeOK' /\ MoveTypeOK'
  BY <1>3, <1>4 DEF timerFrame, GridTypeOK, MoveTypeOK
<1>6. QueueTypeOK' /\ SharedTypeOK' /\ GlobalTypeOK'
  <2>1. CASE SettlesWindow(t)
    BY <1>1, <2>1, BoundsOfWindow, UnchangedWindow
    DEF SettlesWindow, SetWindowBounds, SharedTypeOK
  <2>2. CASE SettlesCanvas(t)
    BY <1>1, <2>2, BoundsOfWindow, UnchangedWindow
    DEF SettlesCanvas, SetCanvasBounds, SharedTypeOK
  <2>3. CASE CommitsMove(t)
    BY <1>1, <2>3, PostingType, UnchangedWindow DEF CommitsMove, timerPosts
  <2>4. CASE FadesInAfterMove(t)
    BY <2>4, PostingType, UnchangedWindow DEF FadesInAfterMove, timerPosts, Selectors
  <2>5. CASE NoPost /\ UNCHANGED globalVars
    BY <2>5, PostingType, UnchangedWindow
  <2> QED
    BY <2>1, <2>2, <2>3, <2>4, <2>5 DEF Fires, Callback, WindowSteady, LocatesSpot,
       ReadsIntended, EndsFading, timerOnly, timerPosts
<1> QED BY <1>2, <1>3, <1>5, <1>6, UnchangedWindow, UnchangedGo DEF timerFrame

(***************************************************************************)
(* The specification                                                       *)
(***************************************************************************)
LEMMA InitType == Init => TypeOK
<1> SUFFICES ASSUME Init PROVE TypeOK
  OBVIOUS
<1> USE DEF Init
<1>1. /\ limits \in Scenarios /\ gFadeDuration \in {0, 1} /\ InitialSpot \in Spots
      /\ limits.visible \in BOOLEAN /\ limits.moves \in Nat /\ limits.texts \in Nat
      /\ Len(limits.arrows) \in Nat /\ limits.toggles \in Nat /\ limits.switches \in Nat
      /\ limits.adjusts \in Nat
  <2>1. limits \in Scenarios /\ gFadeDuration \in {0, 1} /\ InitialSpot \in Spots
    BY OverlayAssumption
  <2> HIDE DEF Init
  <2>2. /\ limits.arrows \in Seq(Directions) /\ limits.moves \in 0 .. MaxWindowMoves
        /\ limits.texts \in Texts
    BY <2>1, ScenarioType
  <2>3. Len(limits.arrows) \in Nat
    BY <2>2, LenProperties
  <2>4. limits.moves \in Nat /\ limits.texts \in Nat
    <3>1. limits.moves \in Nat
      <4>1. MaxWindowMoves \in Nat
        BY OverlayAssumption
      <4> QED BY <2>2, <4>1
    <3>2. limits.texts \in Nat
      BY <2>2, ZeroText, Zenon
    <3> QED BY <3>1, <3>2
  <2> QED BY <2>1, <2>3, <2>4, ScenarioType
<1>2. gWindow \in Bounds /\ gCanvas \in Bounds
  <2>1. 0 \in 0 .. MaxWindowMoves
    BY OverlayAssumption
  <2> QED BY <2>1, BoundsOfWindow DEF Bounds
<1>3. QueueTypeOK
  <2>1. /\ Commit(InitialSpot) \in Items /\ Commit(InitialSpot).sel # "updateText"
        /\ Item("showWindow", 0) \in Items /\ Item("showWindow", 0).sel # "updateText"
    BY <1>1, ItemType DEF Selectors
  <2>2. \/ mainQueue = <<Commit(InitialSpot)>>
        \/ mainQueue = <<Item("showWindow", 0), Commit(InitialSpot)>>
    BY DEF OverlayInit
  <2> HIDE DEF Init
  <2>3. ASSUME NEW a \in Items, a.sel # "updateText", mainQueue = <<a>>
        PROVE  QueueTypeOK
    <3>1. mainQueue \in Seq(Items) /\ DOMAIN mainQueue = {1} /\ mainQueue[1] = a
      BY <2>3
    <3> QED BY <2>3, <3>1 DEF QueueTypeOK
  <2>4. ASSUME NEW a \in Items, NEW b \in Items, a.sel # "updateText",
               b.sel # "updateText", mainQueue = <<a, b>>
        PROVE  QueueTypeOK
    <3>1. /\ mainQueue \in Seq(Items) /\ DOMAIN mainQueue = {1, 2}
          /\ mainQueue[1] = a /\ mainQueue[2] = b
      BY <2>4
    <3> QED BY <2>4, <3>1 DEF QueueTypeOK
  <2> QED BY <2>1, <2>2, <2>3, <2>4
<1>4. GlobalTypeOK /\ SharedTypeOK
  BY <1>1, <1>2, FontType DEF OverlayInit, GlobalTypeOK, SharedTypeOK
<1>5. FadeTypeOK /\ FrameTypeOK
  BY FontType, CentreType, ZeroText DEF OverlayInit, FadeTypeOK, FrameTypeOK
<1>6. MethodTypeOK /\ IntentTypeOK
  <2>1. /\ intendedVisible \in BOOLEAN /\ toggles \in 0 .. limits.toggles
        /\ switches \in 0 .. limits.switches
    BY <1>1
  <2>2. /\ outputMethod \in Methods /\ pollerActive \in BOOLEAN
        /\ switching \in [Clients -> {NoRequest} \cup ({"store", "activate", "overlay"} \X Methods)]
    BY DEF Methods
  <2>3. call \in [Callers -> {NoCall} \cup ({"set", "check", "send"} \X BOOLEAN)]
    OBVIOUS
  <2> QED BY <2>1, <2>2, <2>3 DEF MethodTypeOK, IntentTypeOK
<1>7. GridTypeOK /\ MoveTypeOK /\ TextTypeOK
  <2>1. /\ presses \in 0 .. Len(limits.arrows) /\ windowMoves \in 0 .. limits.moves
        /\ answered \in 0 .. limits.texts /\ texts \in 0 .. answered
        /\ adjusts \in 0 .. limits.adjusts /\ windowChanges \in 0 .. MaxChanges
    BY <1>1, OverlayAssumption
  <2>2. /\ gridSpot \in Spots /\ fading \in BOOLEAN /\ gridTracker \in {"receive", "fade", "arm"}
        /\ lastWindowBounds \in Bounds /\ unstable \in BOOLEAN
        /\ windowTracker \in {"tick", "arm"} /\ fontTracker \in {"receive", "send"}
    BY <1>1, <1>2
  <2> QED BY <2>1, <2>2 DEF GridTypeOK, MoveTypeOK, TextTypeOK
<1>8. TimerTypeOK /\ CaptureTypeOK
  BY <1>1 DEF TimerTypeOK, CaptureTypeOK, TimerStages, CaptureStages
<1> QED BY <1>1, <1>3, <1>4, <1>5, <1>6, <1>7, <1>8 DEF TypeOK, OverlayTypeOK

LEMMA StepType == TypeOK /\ [Next]_vars => TypeOK'
<1> SUFFICES ASSUME TypeOK, [Next]_vars PROVE TypeOK'
  OBVIOUS
<1>1. CASE UNCHANGED vars
  BY <1>1, UnchangedWindow, UnchangedGo DEF vars, goVars, TypeOK
<1>2. ASSUME UNCHANGED <<limits, gFadeDuration>>, MainThread, UNCHANGED goVars
      PROVE  TypeOK'
  BY <1>2, MainThreadType, UnchangedGo DEF goVars, TypeOK
<1>3. ASSUME UNCHANGED <<limits, gFadeDuration>>, NEW c \in Clients,
             StoresMethod(c) \/ SetsPoller(c) \/ SwitchesOverlay(c) \/ SetRequest(c)
      PROVE  TypeOK'
  BY <1>3, SwitchingType DEF SetOutputMethod
<1>4. limits \in Scenario
  BY OverlayAssumption DEF TypeOK
<1>5. limits.clients \subseteq Clients /\ limits.captures \subseteq Captures
  BY <1>4 DEF Scenario
<1> QED
  BY <1>1, <1>2, <1>3, <1>5, CallerType, ToggleType, CapturesType, TextsType, TrackerType,
     TimerStepType DEF Next, Daemon, Environment

\* Every variable keeps its type, whatever the scenarios, windows and texts: texts that
\* are dispatched exist, positions stay on the grid and bounds are rectangles or nil.
THEOREM OverlayTypes == Safety => []TypeOK
<1>1. Init => TypeOK
  BY InitType
<1>2. TypeOK /\ [Next]_vars => TypeOK'
  BY StepType
<1> QED BY <1>1, <1>2, PTL DEF Safety

\* Whenever the main thread computed the frame of the overlay, from whatever bounds the
\* captures and trackers had written by then, it kept the margin (gridSpotFrame).
THEOREM FrameAlwaysKeepsMargin == Safety => []FrameKeepsMargin
<1>1. TypeOK => FrameKeepsMargin
  <2> SUFFICES ASSUME TypeOK, placed # Nil, Area(placed.window, placed.canvas) # Nil
               PROVE  KeepsMargin(placed.window, placed.canvas, placed.spot,
                                  LabelSize[<<placed.text, placed.font>>])
    BY Zenon DEF FrameKeepsMargin
  <2>1. placed \in Placements
    BY DEF TypeOK, OverlayTypeOK, FrameTypeOK
  <2>2. /\ placed.window \in Bounds /\ placed.canvas \in Bounds /\ placed.spot \in Spots
        /\ placed.text \in Texts /\ placed.font \in FontSizes
    BY <2>1 DEF Placements
  <2>3. LabelSize[<<placed.text, placed.font>>] \in Sizes
    <3>1. <<placed.text, placed.font>> \in Texts \X FontSizes
      BY <2>2
    <3>2. LabelSize \in [Texts \X FontSizes -> Sizes]
      BY OverlayWindowAssumption
    <3> QED BY <3>1, <3>2
  <2> QED BY <2>2, <2>3, MarginIsKept DEF Bounds
<1> QED BY <1>1, OverlayTypes, PTL

(***************************************************************************)
(* The poller                                                              *)
(***************************************************************************)
LEMMA AtMostOne ==
  ASSUME NEW S, IsFiniteSet(S), Cardinality(S) <= 1
  PROVE  \A a, b \in S : a = b
<1>1. Cardinality(S) \in Nat
  BY FS_CardinalityType
<1>2. Cardinality(S) = 0 \/ Cardinality(S) = 1
  BY <1>1
<1> QED BY <1>2, FS_EmptySet, FS_Singleton

\* Of the one client that sends `set` requests: the poller is behind the method only
\* while the client is about to activate it, for the method that is in force.
PollerFollows ==
  /\ \A c \in Clients \ limits.clients : switching[c] = NoRequest
  /\ (\A a, b \in limits.clients : a = b) =>
       /\ (\A c \in limits.clients : switching[c][1] # "activate")
            => (pollerActive <=> outputMethod = "telegram")
       /\ \A c \in limits.clients :
            switching[c][1] = "activate" => outputMethod = switching[c][2]

LEMMA PollerStep ==
  ASSUME TypeOK, PollerFollows, NEW c \in limits.clients, limits.clients \subseteq Clients,
         SetOutputMethod(c), UNCHANGED limits
  PROVE  PollerFollows'
<1>1. /\ switching \in [Clients -> {NoRequest} \cup ({"store", "activate", "overlay"} \X Methods)]
      /\ c \in Clients
  BY DEF TypeOK, MethodTypeOK
<1>2. \A d \in Clients : d # c => switching'[d] = switching[d]
  BY <1>1 DEF SetOutputMethod, SetRequest, StoresMethod, SetsPoller, SwitchesOverlay
<1>3. \A d \in Clients \ limits.clients : switching'[d] = NoRequest
  BY <1>2 DEF PollerFollows
<1>4. SUFFICES ASSUME \A a, b \in limits.clients : a = b
               PROVE  /\ switching'[c][1] # "activate" => (pollerActive' <=> outputMethod' = "telegram")
                      /\ switching'[c][1] = "activate" => outputMethod' = switching'[c][2]
  BY <1>3 DEF PollerFollows
<1>5. /\ switching[c][1] # "activate" => (pollerActive <=> outputMethod = "telegram")
      /\ switching[c][1] = "activate" => outputMethod = switching[c][2]
  BY <1>4 DEF PollerFollows
<1>6. CASE SetRequest(c)
  <2>1. switching[c][1] = "none" /\ switching'[c][1] = "store"
    BY <1>1, <1>6 DEF SetRequest, NoRequest
  <2> QED BY <1>5, <1>6, <2>1 DEF SetRequest
<1>7. CASE StoresMethod(c)
  <2>1. switching'[c][1] = "activate" /\ switching'[c][2] = outputMethod'
    BY <1>1, <1>7 DEF StoresMethod
  <2> QED BY <2>1
<1>8. CASE SetsPoller(c)
  <2>1. PICK m \in Methods : /\ switching[c] = <<"activate", m>>
                             /\ pollerActive' = (m = "telegram")
                             /\ switching' = [switching EXCEPT ![c] = <<"overlay", m>>]
                             /\ outputMethod' = outputMethod
    BY <1>8 DEF SetsPoller
  <2>2. switching'[c][1] = "overlay" /\ outputMethod = m
    BY <1>1, <1>5, <2>1
  <2> QED BY <2>1, <2>2
<1>9. CASE SwitchesOverlay(c)
  <2>1. switching[c][1] = "overlay" /\ switching'[c][1] = "none"
    BY <1>1, <1>9 DEF SwitchesOverlay, NoRequest
  <2> QED BY <1>5, <1>9, <2>1 DEF SwitchesOverlay
<1> QED BY <1>6, <1>7, <1>8, <1>9 DEF SetOutputMethod

LEMMA PollerUnchanged ==
  ASSUME PollerFollows, UNCHANGED <<limits, methodVars>>
  PROVE  PollerFollows'
BY DEF PollerFollows, methodVars

LEMMA PollerInvariant == TypeOK /\ PollerFollows /\ [Next]_vars => PollerFollows'
<1> SUFFICES ASSUME TypeOK, PollerFollows, [Next]_vars PROVE PollerFollows'
  OBVIOUS
<1>1. limits.clients \subseteq Clients
  BY OverlayAssumption DEF TypeOK, Scenario
<1>2. ASSUME NEW c \in Clients, UNCHANGED limits, StoresMethod(c) \/ SetsPoller(c) \/ SwitchesOverlay(c)
      PROVE  PollerFollows'
  <2>1. switching[c] # NoRequest
    BY <1>2 DEF StoresMethod, SetsPoller, SwitchesOverlay, NoRequest
  <2>2. c \in limits.clients
    BY <2>1 DEF PollerFollows
  <2> QED BY <1>1, <1>2, <2>2, PollerStep DEF SetOutputMethod
<1>3. ASSUME NEW c \in limits.clients, UNCHANGED limits, SetRequest(c)
      PROVE  PollerFollows'
  BY <1>1, <1>3, PollerStep DEF SetOutputMethod
<1>4. \/ UNCHANGED <<limits, methodVars>>
      \/ UNCHANGED limits /\ \E c \in Clients : StoresMethod(c) \/ SetsPoller(c) \/ SwitchesOverlay(c)
      \/ UNCHANGED limits /\ \E c \in limits.clients : SetRequest(c)
  <2>1. CASE UNCHANGED vars
    BY <2>1 DEF vars, goVars
  <2>2. CASE Daemon /\ UNCHANGED limits
    BY <2>2
    DEF Daemon, goVars, OverlayCall, SetsIntent, ChecksMove, SendsIntent, CaptureProceeds,
        StoresWindow, PublishesWindow, PublishesCanvas, HidesForCapture, Grabs, Restores,
        CaptureEnds, CaptureGoes, captureFrame, Display, GridTracker, GridFades, GridArms,
        WindowArms, WindowChanges, SendsReposition, Fires, Callback, WindowSteady,
        SettlesWindow, SettlesCanvas, LocatesSpot, CommitsMove, ReadsIntended, EndsFading,
        FadesInAfterMove, timerFrame, timerPosts, timerOnly
  <2>3. CASE Environment /\ UNCHANGED limits
    BY <2>3
    DEF Environment, Toggle, GridPress, WindowMoves, Answer, OpacityKey, FontKey, Adjusts,
        FetchesWindow, captureFrame
  <2> QED BY <2>1, <2>2, <2>3 DEF Next
<1> QED BY <1>2, <1>3, <1>4, PollerUnchanged

\* As long as one client at most sends `set` requests, subscribers are polled for exactly
\* when answers go to telegram, whatever else the daemon does (SetOutputMethod).
THEOREM LonePollerAlwaysMatches == Safety => []LonePollerMatches
<1>1. Init => PollerFollows
  <2> SUFFICES ASSUME Init PROVE PollerFollows
    OBVIOUS
  <2>1. limits.clients \subseteq Clients
    BY OverlayAssumption DEF Init, Scenario
  <2>2. /\ \A c \in Clients : switching[c] = NoRequest
        /\ pollerActive = FALSE /\ outputMethod = "teleprompter"
    BY DEF Init
  <2>3. /\ \A c \in Clients : switching[c][1] # "activate"
        /\ pollerActive <=> outputMethod = "telegram"
    BY <2>2 DEF NoRequest
  <2> QED BY <2>1, <2>2, <2>3 DEF PollerFollows
<1>2. TypeOK /\ PollerFollows => LonePollerMatches
  <2> SUFFICES ASSUME TypeOK, PollerFollows, Cardinality(limits.clients) <= 1,
                      \A c \in Clients : switching[c] = NoRequest
               PROVE  pollerActive <=> outputMethod = "telegram"
    BY DEF LonePollerMatches, PollerMatchesMethod
  <2>1. limits.clients \subseteq Clients /\ IsFiniteSet(Clients)
    BY OverlayAssumption DEF TypeOK, Scenario
  <2>2. IsFiniteSet(limits.clients)
    BY <2>1, FS_Subset
  <2>3. \A a, b \in limits.clients : a = b
    BY <2>2, AtMostOne
  <2>4. \A c \in limits.clients : switching[c][1] # "activate"
    BY <2>1 DEF NoRequest
  <2> QED BY <2>3, <2>4 DEF PollerFollows
<1>3. TypeOK /\ PollerFollows /\ [Next]_vars => PollerFollows'
  BY PollerInvariant
<1> QED BY <1>1, <1>2, <1>3, OverlayTypes, PTL DEF Safety

(***************************************************************************)
(* Screenshots                                                             *)
(***************************************************************************)
LEMMA QueueGrows ==
  ASSUME QueueTypeOK, NEW item \in Items, mainQueue' = Append(mainQueue, item)
  PROVE  /\ \A k \in DOMAIN mainQueue : k \in DOMAIN mainQueue' /\ mainQueue'[k] = mainQueue[k]
         /\ \A k \in DOMAIN mainQueue' : k \in DOMAIN mainQueue \/ mainQueue'[k] = item
         /\ \E k \in DOMAIN mainQueue' : mainQueue'[k] = item
<1>1. mainQueue \in Seq(Items)
  BY DEF QueueTypeOK
<1>2. /\ Len(mainQueue') = Len(mainQueue) + 1 /\ mainQueue' \in Seq(Items)
      /\ \A i \in 1 .. Len(mainQueue) : mainQueue'[i] = mainQueue[i]
      /\ mainQueue'[Len(mainQueue) + 1] = item
  BY <1>1, AppendProperties
<1>3. /\ DOMAIN mainQueue' = 1 .. Len(mainQueue) + 1 /\ DOMAIN mainQueue = 1 .. Len(mainQueue)
      /\ Len(mainQueue) \in Nat
  BY <1>1, <1>2, LenProperties
<1>4. Len(mainQueue) + 1 \in DOMAIN mainQueue'
  BY <1>3
<1>5. \A k \in DOMAIN mainQueue' : k \in DOMAIN mainQueue \/ k = Len(mainQueue) + 1
  BY <1>3
<1>6. \A k \in DOMAIN mainQueue : k \in DOMAIN mainQueue'
  BY <1>3
<1> QED BY <1>2, <1>3, <1>4, <1>5, <1>6

LEMMA QueueShrinks ==
  ASSUME QueueTypeOK, mainQueue # <<>>, mainQueue' = Tail(mainQueue)
  PROVE  /\ \A k \in DOMAIN mainQueue' :
              /\ k + 1 \in DOMAIN mainQueue /\ k + 1 # 1
              /\ mainQueue'[k] = mainQueue[k + 1]
         /\ \A k \in DOMAIN mainQueue :
              k = 1 \/ \E m \in DOMAIN mainQueue' : mainQueue'[m] = mainQueue[k]
         /\ 1 \in DOMAIN mainQueue /\ Head(mainQueue) = mainQueue[1]
<1>1. mainQueue \in Seq(Items)
  BY DEF QueueTypeOK
<1>2. /\ mainQueue' \in Seq(Items)
      /\ Len(mainQueue') = Len(mainQueue) - 1
      /\ \A i \in 1 .. Len(mainQueue') : mainQueue'[i] = mainQueue[i + 1]
      /\ Head(mainQueue) = mainQueue[1]
  BY <1>1, HeadTailProperties
<1>3. /\ DOMAIN mainQueue' = 1 .. Len(mainQueue') /\ DOMAIN mainQueue = 1 .. Len(mainQueue)
      /\ Len(mainQueue) \in Nat /\ Len(mainQueue) # 0
  BY <1>1, <1>2, LenProperties, EmptySeq
<1>4. ASSUME NEW k \in DOMAIN mainQueue, k # 1
      PROVE  \E m \in DOMAIN mainQueue' : mainQueue'[m] = mainQueue[k]
  <2>1. k - 1 \in 1 .. Len(mainQueue') /\ (k - 1) + 1 = k
    BY <1>2, <1>3, <1>4
  <2>2. mainQueue'[k - 1] = mainQueue[k]
    BY <1>2, <2>1
  <2> QED BY <1>3, <2>1, <2>2
<1>5. \A k \in DOMAIN mainQueue' : k + 1 \in DOMAIN mainQueue /\ k + 1 # 1
  BY <1>2, <1>3
<1> QED BY <1>2, <1>3, <1>4, <1>5

\* At most one capture has begun, and nothing has that Undisturbed excludes.
Alone ==
  /\ toggles = 0 /\ switches = 0 /\ presses = 0 /\ windowMoves = 0
  /\ \A i, j \in Captures : capture[i].at # "idle" /\ capture[j].at # "idle" => i = j

\* Then neither a call nor a tracker nor a timer has anything to do,
AloneAtRest ==
  /\ \A c \in Callers : call[c] = NoCall
  /\ \A c \in Clients : switching[c] = NoRequest
  /\ \A t \in Timers : timer[t].at = "unarmed"
  /\ gridTracker = "receive" /\ windowTracker = "tick"
  /\ lastWindowBounds \in {Nil, RectAfter(0)}
  /\ \A i \in Captures : capture[i].saw = 0

\* what is dispatched are texts and the capture's own selectors, after the window was
\* shown at the start,
LoneSelectors == {"showWindow", "doCommitMove", "updateText", "reposition",
                  "orderOutForCapture", "orderInAfterCapture"}
LoneQueue ==
  \A k \in DOMAIN mainQueue :
    /\ mainQueue[k].sel \in LoneSelectors
    /\ mainQueue[k].sel = "showWindow" => k = 1
    /\ mainQueue[k].sel = "orderInAfterCapture" =>
         \E i \in Captures : /\ mainQueue[k] = Item("orderInAfterCapture", i)
                             /\ capture[i].at = "restoring"

\* and the window that was ordered out stays so until the picture has been taken.
OrdersOut(i) == \E k \in DOMAIN mainQueue : mainQueue[k] = Item("orderOutForCapture", i)
StaysOut == ~visible /\ \A k \in DOMAIN mainQueue : mainQueue[k].sel # "showWindow"
LoneHidden ==
  \A i \in Captures :
    /\ capture[i].at = "hiding" => OrdersOut(i) \/ StaysOut
    /\ capture[i].at = "grabbing" => StaysOut

CaptureStaysOut == Alone => AloneAtRest /\ LoneQueue /\ LoneHidden

LEMMA LonePost ==
  ASSUME QueueTypeOK, LoneQueue, LoneHidden, UNCHANGED <<capture, visible>>,
         NEW item \in Items, mainQueue' = Append(mainQueue, item),
         item.sel \in {"updateText", "reposition"}
  PROVE  LoneQueue' /\ LoneHidden'
<1>1. /\ \A k \in DOMAIN mainQueue : k \in DOMAIN mainQueue' /\ mainQueue'[k] = mainQueue[k]
      /\ \A k \in DOMAIN mainQueue' : k \in DOMAIN mainQueue \/ mainQueue'[k] = item
  BY QueueGrows
<1>2. LoneQueue'
  <2> SUFFICES ASSUME NEW k \in DOMAIN mainQueue'
               PROVE  /\ mainQueue'[k].sel \in LoneSelectors
                      /\ mainQueue'[k].sel = "showWindow" => k = 1
                      /\ mainQueue'[k].sel = "orderInAfterCapture" =>
                           \E i \in Captures : /\ mainQueue'[k] = Item("orderInAfterCapture", i)
                                               /\ capture'[i].at = "restoring"
    BY DEF LoneQueue
  <2>1. CASE k \in DOMAIN mainQueue
    BY <1>1, <2>1 DEF LoneQueue
  <2>2. CASE mainQueue'[k] = item
    BY <2>2 DEF LoneSelectors
  <2> QED BY <1>1, <2>1, <2>2
<1>3. StaysOut => StaysOut'
  BY <1>1 DEF StaysOut
<1>4. \A i \in Captures : OrdersOut(i) => OrdersOut(i)'
  BY <1>1 DEF OrdersOut
<1> QED BY <1>2, <1>3, <1>4 DEF LoneHidden

\* The main thread: of the selectors that may be there only showWindow, which is the
\* first, and orderInAfterCapture, whose capture has its picture, order the window in.
LEMMA LoneMainThread ==
  ASSUME QueueTypeOK, Alone, LoneQueue, LoneHidden, MainThread, UNCHANGED capture
  PROVE  LoneQueue' /\ LoneHidden'
<1>1. CASE PerformSelector
  <2> DEFINE first == Head(mainQueue)
  <2>1. /\ \A k \in DOMAIN mainQueue' :
             /\ k + 1 \in DOMAIN mainQueue /\ k + 1 # 1
             /\ mainQueue'[k] = mainQueue[k + 1]
        /\ \A k \in DOMAIN mainQueue :
             k = 1 \/ \E m \in DOMAIN mainQueue' : mainQueue'[m] = mainQueue[k]
        /\ 1 \in DOMAIN mainQueue /\ first = mainQueue[1]
    BY <1>1, QueueShrinks DEF PerformSelector
  <2>2. LoneQueue' /\ \A k \in DOMAIN mainQueue' : mainQueue'[k].sel # "showWindow"
    BY <2>1 DEF LoneQueue
  <2>3. Execute(first) /\ first.sel \in LoneSelectors
    BY <1>1, <2>1 DEF PerformSelector, LoneQueue
  <2> HIDE DEF first
  <2>4. /\ first.sel = "showWindow" \/ first.sel = "orderInAfterCapture" \/ (visible' => visible)
        /\ first.sel = "orderOutForCapture" => ~visible'
    BY <2>3 DEF Execute, LoneSelectors, showWindow, hideWindow, updateText, orderOutForCapture,
                orderInAfterCapture, doCommitMove, reposition
  <2>5. ASSUME NEW i \in Captures, capture[i].at \in {"hiding", "grabbing"}
        PROVE  first.sel # "orderInAfterCapture"
    <3>1. first.sel = "orderInAfterCapture" => \E j \in Captures : capture[j].at = "restoring"
      BY <2>1 DEF LoneQueue
    <3> QED BY <2>5, <3>1 DEF Alone
  <2>6. ASSUME NEW i \in Captures, capture[i].at \in {"hiding", "grabbing"}, StaysOut
        PROVE  StaysOut'
    <3>1. first.sel # "showWindow"
      BY <2>1, <2>6 DEF StaysOut
    <3> QED BY <2>2, <2>4, <2>5, <2>6, <3>1 DEF StaysOut
  <2>7. ASSUME NEW i \in Captures, OrdersOut(i)
        PROVE  OrdersOut(i)' \/ StaysOut'
    <3>1. PICK k \in DOMAIN mainQueue : mainQueue[k] = Item("orderOutForCapture", i)
      BY <2>7 DEF OrdersOut
    <3>2. CASE k = 1
      BY <2>1, <2>2, <2>4, <3>1, <3>2 DEF StaysOut, Item
    <3>3. CASE k # 1
      BY <2>1, <3>1, <3>3 DEF OrdersOut
    <3> QED BY <3>2, <3>3
  <2> QED BY <2>2, <2>6, <2>7 DEF LoneHidden
<1>2. CASE (\E c \in completions : HideCompletes(c) \/ TextCompletes(c)) \/ FadeInEnds
  <2>1. UNCHANGED mainQueue
    BY <1>2 DEF HideCompletes, TextCompletes, FadeInEnds
  <2>2. ~visible => ~visible'
    <3>1. ASSUME NEW c \in completions, HideCompletes(c), ~visible
          PROVE  ~visible'
      <4>1. visible' = IF c.gen = generation THEN FALSE ELSE visible
        BY <3>1 DEF HideCompletes
      <4> QED BY <3>1, <4>1, Zenon
    <3>2. ASSUME NEW c \in completions, TextCompletes(c), ~visible
          PROVE  ~visible'
      BY <3>2 DEF TextCompletes
    <3>3. FadeInEnds /\ ~visible => ~visible'
      BY DEF FadeInEnds
    <3> QED BY <1>2, <3>1, <3>2, <3>3
  <2> QED BY <2>1, <2>2 DEF LoneQueue, LoneHidden, StaysOut, OrdersOut
<1> QED BY <1>1, <1>2 DEF MainThread

LEMMA CaptureState ==
  ASSUME TypeOK, NEW i \in Captures, NEW from, NEW to, CaptureGoes(i, from, to)
  PROVE  /\ capture[i].at = from /\ capture'[i].at = to /\ capture'[i].saw = capture[i].saw
         /\ \A j \in Captures : j # i => capture'[j] = capture[j]
<1>1. capture \in [Captures -> [at : CaptureStages, saw : 0 .. limits.moves]]
  BY DEF TypeOK, CaptureTypeOK
<1> QED BY <1>1 DEF CaptureGoes

LEMMA CaptureItem ==
  ASSUME NEW i \in Captures, NEW sel \in Selectors
  PROVE  Item(sel, i) \in Items /\ Item(sel, i).sel = sel
BY OverlayAssumption, ItemType

\* A step of the only capture.
LEMMA LoneCaptureStep ==
  ASSUME TypeOK, Alone, LoneQueue, LoneHidden, NEW i \in Captures,
         FetchesWindow(i) \/ CaptureProceeds(i)
  PROVE  LoneQueue' /\ LoneHidden'
<1> USE DEF TypeOK, OverlayTypeOK
<1>1. \A j \in Captures : j # i => capture'[j] = capture[j]
  BY CaptureState DEF FetchesWindow, CaptureProceeds, StoresWindow, PublishesWindow,
     PublishesCanvas, HidesForCapture, Grabs, Restores, CaptureEnds, CaptureTypeOK
<1>2. visible' = visible
  BY DEF FetchesWindow, CaptureProceeds, StoresWindow, PublishesWindow, PublishesCanvas,
     HidesForCapture, Grabs, Restores, CaptureEnds, CaptureGoes, captureFrame, windowVars
<1> HIDE DEF TypeOK, OverlayTypeOK
<1>3. ASSUME UNCHANGED mainQueue, capture[i].at # "restoring", capture'[i].at \notin {"hiding", "grabbing"}
      PROVE  LoneQueue' /\ LoneHidden'
  BY <1>1, <1>2, <1>3 DEF LoneQueue, LoneHidden, StaysOut, OrdersOut
<1>4. CASE FetchesWindow(i)
  <2>1. capture[i].at = "idle" /\ capture'[i].at = "fetched" /\ UNCHANGED mainQueue
    BY <1>4 DEF FetchesWindow, NoPost, TypeOK, CaptureTypeOK
  <2> QED BY <1>3, <2>1
<1>5. CASE StoresWindow(i) \/ PublishesWindow(i) \/ PublishesCanvas(i)
  <2>1. /\ capture[i].at \in {"fetched", "stored", "windowSet"}
        /\ capture'[i].at \in {"stored", "windowSet", "canvasSet"}
        /\ UNCHANGED mainQueue
    BY <1>5, CaptureState DEF StoresWindow, PublishesWindow, PublishesCanvas, NoPost,
       SetWindowBounds, SetCanvasBounds
  <2> QED BY <1>3, <2>1
<1>6. CASE HidesForCapture(i)
  <2> DEFINE item == Item("orderOutForCapture", i)
  <2>1. /\ capture[i].at = "canvasSet" /\ capture'[i].at = "hiding"
        /\ mainQueue' = Append(mainQueue, item)
        /\ item \in Items /\ item.sel = "orderOutForCapture"
    BY <1>6, CaptureState, CaptureItem DEF HidesForCapture, Dispatch, Post, Selectors
  <2> HIDE DEF item
  <2>2. /\ \A k \in DOMAIN mainQueue : k \in DOMAIN mainQueue' /\ mainQueue'[k] = mainQueue[k]
        /\ \A k \in DOMAIN mainQueue' : k \in DOMAIN mainQueue \/ mainQueue'[k] = item
        /\ \E k \in DOMAIN mainQueue' : mainQueue'[k] = item
    BY <2>1, QueueGrows DEF TypeOK, OverlayTypeOK
  <2>3. LoneQueue'
    BY <1>1, <2>1, <2>2 DEF LoneQueue, LoneSelectors
  <2>4. OrdersOut(i)'
    BY <2>2 DEF OrdersOut, item
  <2>5. \A j \in Captures : j # i => capture'[j].at = "idle"
    BY <1>1, <2>1 DEF Alone
  <2> QED BY <2>1, <2>3, <2>4, <2>5 DEF LoneHidden
<1>7. CASE Grabs(i)
  <2>1. /\ capture[i].at = "hiding" /\ capture'[i].at = "grabbing" /\ UNCHANGED mainQueue
        /\ ~OrdersOut(i)
    BY <1>7, CaptureState DEF Grabs, NoPost, Performed, OrdersOut
  <2>2. StaysOut'
    BY <1>2, <2>1 DEF LoneHidden, StaysOut
  <2>3. LoneQueue'
    BY <1>1, <2>1 DEF LoneQueue
  <2>4. \A j \in Captures : j # i => capture'[j].at = "idle"
    BY <1>1, <2>1 DEF Alone
  <2> QED BY <2>1, <2>2, <2>3, <2>4 DEF LoneHidden
<1>8. CASE Restores(i)
  <2> DEFINE item == Item("orderInAfterCapture", i)
  <2>1. /\ capture[i].at = "grabbing" /\ capture'[i].at = "restoring"
        /\ mainQueue' = Append(mainQueue, item)
        /\ item \in Items /\ item.sel = "orderInAfterCapture"
    BY <1>8, CaptureState, CaptureItem DEF Restores, Dispatch, Post, Selectors
  <2> HIDE DEF item
  <2>2. /\ \A k \in DOMAIN mainQueue : k \in DOMAIN mainQueue' /\ mainQueue'[k] = mainQueue[k]
        /\ \A k \in DOMAIN mainQueue' : k \in DOMAIN mainQueue \/ mainQueue'[k] = item
    BY <2>1, QueueGrows DEF TypeOK, OverlayTypeOK
  <2>3. LoneQueue'
    <3> SUFFICES ASSUME NEW k \in DOMAIN mainQueue'
                 PROVE  /\ mainQueue'[k].sel \in LoneSelectors
                        /\ mainQueue'[k].sel = "showWindow" => k = 1
                        /\ mainQueue'[k].sel = "orderInAfterCapture" =>
                             \E j \in Captures : /\ mainQueue'[k] = Item("orderInAfterCapture", j)
                                                 /\ capture'[j].at = "restoring"
      BY DEF LoneQueue
    <3>1. CASE k \in DOMAIN mainQueue
      BY <1>1, <2>1, <2>2, <3>1 DEF LoneQueue
    <3>2. CASE mainQueue'[k] = item
      BY <2>1, <3>2 DEF LoneSelectors, item
    <3> QED BY <2>2, <3>1, <3>2
  <2>4. \A j \in Captures : j # i => capture'[j].at = "idle"
    BY <1>1, <2>1 DEF Alone
  <2> QED BY <2>1, <2>3, <2>4 DEF LoneHidden
<1>9. CASE CaptureEnds(i)
  <2>1. /\ capture[i].at = "restoring" /\ capture'[i].at = "done" /\ UNCHANGED mainQueue
        /\ \A k \in DOMAIN mainQueue : mainQueue[k] # Item("orderInAfterCapture", i)
    BY <1>9, CaptureState DEF CaptureEnds, NoPost, Performed
  <2>2. LoneQueue'
    BY <1>1, <2>1 DEF LoneQueue
  <2>3. \A j \in Captures : j # i => capture'[j].at = "idle"
    BY <1>1, <2>1 DEF Alone
  <2> QED BY <2>1, <2>2, <2>3 DEF LoneHidden
<1> QED BY <1>4, <1>5, <1>6, <1>7, <1>8, <1>9 DEF CaptureProceeds

\* What Alone speaks of does not go back: nothing that has begun was not begun.
LEMMA CaptureSteps ==
  ASSUME TypeOK, Daemon \/ Environment
  PROVE  \/ UNCHANGED capture
         \/ \E i \in Captures : FetchesWindow(i) \/ CaptureProceeds(i)
<1>1. limits.captures \subseteq Captures
  BY OverlayAssumption DEF TypeOK, Scenario
<1>2. CASE Daemon
  BY <1>2
  DEF Daemon, goVars, OverlayCall, SetsIntent, ChecksMove, SendsIntent, StoresMethod,
      SetsPoller, SwitchesOverlay, Display, GridTracker, GridFades, GridArms,
      WindowArms, WindowChanges, SendsReposition, Fires, Callback, WindowSteady,
      SettlesWindow, SettlesCanvas, LocatesSpot, CommitsMove, ReadsIntended, EndsFading,
      FadesInAfterMove, timerFrame, timerPosts, timerOnly
<1>3. CASE Environment
  BY <1>1, <1>3
  DEF Environment, Toggle, GridPress, WindowMoves, Answer, OpacityKey, FontKey, Adjusts,
      SetRequest
<1> QED BY <1>2, <1>3

LEMMA AloneBefore ==
  ASSUME TypeOK, Daemon \/ Environment, Alone'
  PROVE  /\ Alone
         /\ UNCHANGED <<toggles, switches, presses, windowMoves>>
<1>1. toggles \in Nat /\ switches \in Nat /\ presses \in Nat /\ windowMoves \in Nat
  <2>1. /\ toggles \in 0 .. limits.toggles /\ switches \in 0 .. limits.switches
        /\ presses \in 0 .. Len(limits.arrows) /\ windowMoves \in 0 .. limits.moves
    BY DEF TypeOK, MethodTypeOK, IntentTypeOK, GridTypeOK, MoveTypeOK
  <2> QED BY <2>1
<1>2. UNCHANGED <<toggles, switches, presses, windowMoves>>
  <2>1. CASE Daemon
    BY <2>1
    DEF Daemon, goVars, OverlayCall, SetsIntent, ChecksMove, SendsIntent, StoresMethod,
        SetsPoller, SwitchesOverlay, CaptureProceeds, StoresWindow, PublishesWindow,
        PublishesCanvas, HidesForCapture, Grabs, Restores, CaptureEnds, CaptureGoes,
        captureFrame, Display, GridTracker, GridFades, GridArms, WindowArms, WindowChanges,
        SendsReposition, Fires, Callback, WindowSteady, SettlesWindow, SettlesCanvas,
        LocatesSpot, CommitsMove, ReadsIntended, EndsFading, FadesInAfterMove, timerFrame,
        timerPosts, timerOnly, intentVars, methodVars, gridVars, moveVars
  <2>2. CASE Environment
    <3>1. toggles' = 0 /\ switches' = 0 /\ presses' = 0 /\ windowMoves' = 0
      BY DEF Alone
    <3>2. ~Toggle /\ ~GridPress /\ ~WindowMoves /\ \A c \in limits.clients : ~SetRequest(c)
      BY <1>1, <3>1 DEF Toggle, GridPress, WindowMoves, SetRequest
    <3> QED
      BY SMTT(30), <2>2, <3>2
      DEF Environment, Answer, OpacityKey, FontKey, Adjusts, FetchesWindow, captureFrame,
          intentVars, methodVars, gridVars, moveVars
  <2> QED BY <2>1, <2>2
<1>3. ASSUME NEW i \in Captures, capture[i].at # "idle"
      PROVE  capture'[i].at # "idle"
  <2>1. CASE UNCHANGED capture
    BY <1>3, <2>1
  <2>2. ASSUME NEW j \in Captures, FetchesWindow(j) \/ CaptureProceeds(j)
        PROVE  capture'[i].at # "idle"
    BY <1>3, <2>2, CaptureState
    DEF CaptureProceeds, StoresWindow, PublishesWindow, PublishesCanvas, HidesForCapture,
        Grabs, Restores, CaptureEnds, FetchesWindow, TypeOK, CaptureTypeOK
  <2> QED BY <2>1, <2>2, CaptureSteps
<1> QED BY <1>2, <1>3 DEF Alone

\* The steps that are possible then.
LEMMA AloneSteps ==
  ASSUME TypeOK, Daemon \/ Environment, Alone', AloneAtRest
  PROVE  \/ MainThread /\ UNCHANGED goVars
         \/ \E i \in Captures : FetchesWindow(i) \/ CaptureProceeds(i)
         \/ Display \/ SendsReposition \/ Answer \/ OpacityKey \/ FontKey
<1>1. /\ UNCHANGED <<toggles, switches, presses, windowMoves>>
      /\ toggles = 0 /\ switches = 0 /\ presses = 0 /\ windowMoves = 0
  BY AloneBefore DEF Alone
<1>2. limits.captures \subseteq Captures
  BY OverlayAssumption DEF TypeOK, Scenario
<1>3. /\ \A c \in Callers : ~OverlayCall(c)
      /\ \A c \in Clients : ~StoresMethod(c) /\ ~SetsPoller(c) /\ ~SwitchesOverlay(c)
  <2>1. ASSUME NEW c \in Callers PROVE ~OverlayCall(c)
    <3>1. NoCall[1] = "none"
      BY DEF NoCall
    <3>2. call[c][1] = "none"
      BY <3>1 DEF AloneAtRest
    <3> QED BY <3>2 DEF OverlayCall, SetsIntent, ChecksMove, SendsIntent
  <2>2. ASSUME NEW c \in Clients
        PROVE  ~StoresMethod(c) /\ ~SetsPoller(c) /\ ~SwitchesOverlay(c)
    <3>1. switching[c][1] = "none"
      BY DEF AloneAtRest, NoRequest
    <3> QED BY <3>1 DEF StoresMethod, SetsPoller, SwitchesOverlay
  <2> QED BY <2>1, <2>2
<1>4. ~GridTracker /\ ~WindowArms /\ ~WindowChanges
  BY <1>1 DEF AloneAtRest, GridTracker, GridFades, GridArms, WindowArms, WindowChanges
<1>5. \A t \in Timers : ~Fires(t) /\ ~Callback(t)
  BY DEF AloneAtRest, Fires, Callback, Moves, WindowSteady, SettlesWindow, SettlesCanvas,
         LocatesSpot, CommitsMove, ReadsIntended, EndsFading, FadesInAfterMove
<1>6. ~Toggle /\ ~GridPress /\ ~WindowMoves /\ \A c \in limits.clients : ~SetRequest(c)
  BY <1>1 DEF Toggle, GridPress, WindowMoves, SetRequest
<1> QED BY <1>2, <1>3, <1>4, <1>5, <1>6 DEF Daemon, Environment

LEMMA CaptureStaysOutStep == TypeOK /\ CaptureStaysOut /\ [Next]_vars => CaptureStaysOut'
<1> SUFFICES ASSUME TypeOK, CaptureStaysOut, [Next]_vars, Alone'
             PROVE  AloneAtRest' /\ LoneQueue' /\ LoneHidden'
  BY DEF CaptureStaysOut
<1>1. CASE UNCHANGED vars
  BY <1>1
  DEF vars, goVars, overlayVars, windowVars, intentVars, methodVars, gridVars, moveVars,
      CaptureStaysOut, Alone, AloneAtRest, LoneQueue, LoneHidden, StaysOut, OrdersOut
<1>2. CASE Next
  <2>1. Daemon \/ Environment
    BY <1>2 DEF Next
  <2>2. /\ Alone /\ AloneAtRest /\ LoneQueue /\ LoneHidden
        /\ UNCHANGED <<toggles, switches, presses, windowMoves>>
    BY <2>1, AloneBefore DEF CaptureStaysOut
  <2>3. QueueTypeOK
    BY DEF TypeOK, OverlayTypeOK
  <2>4. CASE MainThread /\ UNCHANGED goVars
    <3>1. LoneQueue' /\ LoneHidden'
      BY <2>2, <2>3, <2>4, LoneMainThread DEF goVars
    <3>2. AloneAtRest'
      BY <2>2, <2>4 DEF goVars, intentVars, methodVars, gridVars, moveVars, AloneAtRest
    <3> QED BY <3>1, <3>2
  <2>5. ASSUME NEW i \in Captures, FetchesWindow(i) \/ CaptureProceeds(i)
        PROVE  AloneAtRest' /\ LoneQueue' /\ LoneHidden'
    <3>1. LoneQueue' /\ LoneHidden'
      BY <2>2, <2>5, LoneCaptureStep
    <3>2. UNCHANGED <<call, switching, timer, gridTracker, windowTracker>>
      BY <2>5
      DEF FetchesWindow, CaptureProceeds, StoresWindow, PublishesWindow, PublishesCanvas,
          HidesForCapture, Grabs, Restores, CaptureEnds, CaptureGoes, captureFrame,
          intentVars, methodVars, gridVars, moveVars
    <3>3. /\ \A j \in Captures : capture'[j].saw = 0
          /\ lastWindowBounds' \in {Nil, RectAfter(0)}
      <4>1. CASE FetchesWindow(i)
        BY <2>2, <4>1
        DEF FetchesWindow, moveVars, Alone, AloneAtRest, TypeOK, CaptureTypeOK
      <4>2. CASE CaptureProceeds(i)
        <5>1. \A j \in Captures : capture'[j].saw = capture[j].saw
          BY <4>2, CaptureState
          DEF CaptureProceeds, StoresWindow, PublishesWindow, PublishesCanvas,
              HidesForCapture, Grabs, Restores, CaptureEnds
        <5>2. lastWindowBounds' \in {lastWindowBounds, RectAfter(capture[i].saw)}
          BY <4>2
          DEF CaptureProceeds, StoresWindow, PublishesWindow, PublishesCanvas,
              HidesForCapture, Grabs, Restores, CaptureEnds, moveVars
        <5> QED BY <2>2, <5>1, <5>2 DEF AloneAtRest
      <4> QED BY <2>5, <4>1, <4>2
    <3>4. AloneAtRest'
      BY <2>2, <3>2, <3>3 DEF AloneAtRest
    <3> QED BY <3>1, <3>4
  <2>6. CASE Display \/ SendsReposition \/ Answer \/ OpacityKey \/ FontKey
    <3>1. /\ UNCHANGED <<call, switching, timer, gridTracker, windowTracker,
                         lastWindowBounds, capture, visible>>
      BY <2>6
      DEF Display, SendsReposition, Answer, OpacityKey, FontKey, Adjusts, overlayVars,
          windowVars, intentVars, methodVars, gridVars, moveVars
    <3>2. AloneAtRest'
      BY <2>2, <3>1 DEF AloneAtRest
    <3>3. \/ UNCHANGED mainQueue
          \/ Dispatch("reposition", 0)
          \/ Dispatch("updateText", texts + 1) /\ texts + 1 \in Nat
      <4>1. texts \in 0 .. answered /\ answered \in 0 .. limits.texts
        BY DEF TypeOK, TextTypeOK
      <4>2. texts + 1 \in Nat
        BY <4>1
      <4> QED
        BY <2>6, <4>2
        DEF Display, SendsReposition, Answer, OpacityKey, FontKey, Adjusts, overlayVars,
            SetFontSize, ResetFontSize
    <3>4. CASE UNCHANGED mainQueue
      <4>1. LoneQueue'
        BY <2>2, <3>1, <3>4 DEF LoneQueue
      <4>2. StaysOut => StaysOut'
        BY <3>1, <3>4 DEF StaysOut
      <4>3. \A i \in Captures : OrdersOut(i) => OrdersOut(i)'
        BY <3>4 DEF OrdersOut
      <4>4. LoneHidden'
        BY <2>2, <3>1, <4>2, <4>3 DEF LoneHidden
      <4> QED BY <3>2, <4>1, <4>4
    <3>5. ASSUME NEW sel \in {"updateText", "reposition"}, NEW arg \in Nat, Dispatch(sel, arg)
          PROVE  LoneQueue' /\ LoneHidden'
      <4>1. /\ Item(sel, arg) \in Items /\ Item(sel, arg).sel = sel
            /\ mainQueue' = Append(mainQueue, Item(sel, arg))
        BY <3>5, ItemType DEF Dispatch, Post, Selectors
      <4> QED BY <2>2, <2>3, <3>1, <4>1, LonePost
    <3> QED BY <3>2, <3>3, <3>4, <3>5
  <2> QED BY <2>1, <2>2, <2>4, <2>5, <2>6, AloneSteps
<1> QED BY <1>1, <1>2

\* However texts and their crossfades overlap with a capture, no screenshot has the
\* overlay in it while nothing else disturbs it (captureScreenshot, updateText).
THEOREM LoneCaptureAlwaysIsolated == Safety => []LoneCaptureIsolated
<1>1. Init => CaptureStaysOut
  <2> SUFFICES ASSUME Init PROVE AloneAtRest /\ LoneQueue /\ LoneHidden
    BY DEF CaptureStaysOut
  <2>1. AloneAtRest /\ LoneHidden
    BY DEF Init, OverlayInit, AloneAtRest, LoneHidden
  <2>2. \/ mainQueue = <<Commit(InitialSpot)>>
        \/ mainQueue = <<Item("showWindow", 0), Commit(InitialSpot)>>
    BY DEF Init, OverlayInit
  <2>3. LoneQueue
    <3>1. CASE mainQueue = <<Commit(InitialSpot)>>
      <4>1. DOMAIN mainQueue = {1} /\ mainQueue[1].sel = "doCommitMove"
        BY <3>1 DEF Commit
      <4> QED BY <4>1 DEF LoneQueue, LoneSelectors
    <3>2. CASE mainQueue = <<Item("showWindow", 0), Commit(InitialSpot)>>
      <4>1. /\ DOMAIN mainQueue = {1, 2}
            /\ mainQueue[1].sel = "showWindow" /\ mainQueue[2].sel = "doCommitMove"
        BY <3>2 DEF Commit, Item
      <4> QED BY <4>1 DEF LoneQueue, LoneSelectors
    <3> QED BY <2>2, <3>1, <3>2
  <2> QED BY <2>1, <2>3
<1>2. TypeOK /\ CaptureStaysOut => LoneCaptureIsolated
  <2> SUFFICES ASSUME TypeOK, CaptureStaysOut, Undisturbed,
                      NEW i \in Captures, capture[i].at = "grabbing"
               PROVE  ~Shown
    BY DEF LoneCaptureIsolated, CaptureIsolation
  <2> DEFINE begun == {j \in Captures : capture[j].at # "idle"}
  <2>1. IsFiniteSet(begun) /\ Cardinality(begun) <= 1
    BY OverlayAssumption, FS_Subset DEF Undisturbed
  <2>2. \A a, b \in begun : a = b
    <3> HIDE DEF begun
    <3> QED BY <2>1, AtMostOne
  <2>3. Alone
    BY <2>2 DEF Undisturbed, Alone
  <2> QED BY <2>3 DEF CaptureStaysOut, LoneHidden, StaysOut, Shown
<1>3. TypeOK /\ CaptureStaysOut /\ [Next]_vars => CaptureStaysOut'
  BY CaptureStaysOutStep
<1> QED BY <1>1, <1>2, <1>3, OverlayTypes, PTL DEF Safety

(***************************************************************************)
(* Texts                                                                   *)
(***************************************************************************)
\* The text displayed last is the one of the label or, if texts are under way, that of
\* the last updateText; without crossfades no completion handler has another one.
LatestText(k) ==
  /\ mainQueue[k].sel = "updateText" /\ mainQueue[k].arg = texts
  /\ \A m \in DOMAIN mainQueue : m > k => mainQueue[m].sel # "updateText"
NoTextQueued == \A k \in DOMAIN mainQueue : mainQueue[k].sel # "updateText"
LatestTextUnderWay ==
  gFadeDuration = 0 =>
    /\ \A c \in completions : c.kind = "hide"
    /\ \/ gCurrentText = texts /\ NoTextQueued
       \/ \E k \in DOMAIN mainQueue : LatestText(k)

\* A step that is neither Display nor the main thread's leaves the texts alone.
LEMMA QueueSteps ==
  ASSUME TypeOK, Daemon \/ Environment
  PROVE  \/ MainThread /\ UNCHANGED goVars
         \/ Display
         \/ /\ UNCHANGED <<texts, gCurrentText, completions>>
            /\ \/ UNCHANGED mainQueue
               \/ \E item \in Items : /\ item.sel # "updateText"
                                      /\ mainQueue' = Append(mainQueue, item)
<1> DEFINE Posts == \E item \in Items : /\ item.sel # "updateText"
                                        /\ mainQueue' = Append(mainQueue, item)
<1>1. \A sel \in Selectors, arg \in Nat : Dispatch(sel, arg) /\ sel # "updateText" => Posts
  BY ItemType DEF Dispatch, Post
<1>2. \A spot \in Spots : Post(Commit(spot)) => Posts
  BY ItemType DEF Post
<1>3. Captures \subseteq Nat /\ limits.captures \subseteq Captures
  BY OverlayAssumption DEF TypeOK, Scenario
<1>4. \A t \in Timers : timer[t].spot \in Spots
  BY DEF TypeOK, TimerTypeOK
<1> HIDE DEF Posts
<1>5. ASSUME NEW c \in Callers, OverlayCall(c)
      PROVE  UNCHANGED <<texts, gCurrentText, completions>> /\ (UNCHANGED mainQueue \/ Posts)
  <2>1. CASE SetsIntent(c) \/ ChecksMove(c)
    BY <2>1 DEF SetsIntent, ChecksMove, SetIntent, overlayVars, windowVars, textVars
  <2>2. CASE SendsIntent(c)
    BY <1>1, <2>2 DEF SendsIntent, DispatchIntent, Selectors, windowVars, textVars
  <2> QED BY <1>5, <2>1, <2>2 DEF OverlayCall
<1>6. ASSUME NEW i \in Captures, FetchesWindow(i) \/ CaptureProceeds(i)
      PROVE  UNCHANGED <<texts, gCurrentText, completions>> /\ (UNCHANGED mainQueue \/ Posts)
  <2>1. UNCHANGED <<texts, gCurrentText, completions>>
    BY <1>6
    DEF FetchesWindow, CaptureProceeds, StoresWindow, PublishesWindow, PublishesCanvas,
        HidesForCapture, Grabs, Restores, CaptureEnds, CaptureGoes, captureFrame,
        windowVars, textVars
  <2>2. UNCHANGED mainQueue \/ Posts
    BY <1>1, <1>3, <1>6
    DEF FetchesWindow, CaptureProceeds, StoresWindow, PublishesWindow, PublishesCanvas,
        HidesForCapture, Grabs, Restores, CaptureEnds, NoPost, SetWindowBounds,
        SetCanvasBounds, Selectors
  <2> QED BY <2>1, <2>2
<1>7. ASSUME NEW t \in Timers, Fires(t) \/ Callback(t)
      PROVE  UNCHANGED <<texts, gCurrentText, completions>> /\ (UNCHANGED mainQueue \/ Posts)
  <2>1. UNCHANGED <<texts, gCurrentText, completions>>
    BY <1>7
    DEF Fires, Callback, WindowSteady, SettlesWindow, SettlesCanvas, LocatesSpot,
        CommitsMove, ReadsIntended, EndsFading, FadesInAfterMove, timerFrame, timerPosts,
        timerOnly, windowVars, textVars
  <2>2. UNCHANGED mainQueue \/ Posts
    BY <1>1, <1>2, <1>4, <1>7
    DEF Fires, Callback, WindowSteady, SettlesWindow, SettlesCanvas, LocatesSpot,
        CommitsMove, ReadsIntended, EndsFading, FadesInAfterMove, timerOnly, NoPost,
        SetWindowBounds, SetCanvasBounds, Selectors
  <2> QED BY <2>1, <2>2
<1>8. ASSUME GridTracker \/ WindowArms \/ WindowChanges \/ SendsReposition \/ OpacityKey \/ FontKey
      PROVE  UNCHANGED <<texts, gCurrentText, completions>> /\ (UNCHANGED mainQueue \/ Posts)
  <2>1. UNCHANGED <<texts, gCurrentText, completions>>
    BY <1>8
    DEF GridTracker, GridFades, GridArms, WindowArms, WindowChanges, SendsReposition,
        OpacityKey, FontKey, Adjusts, overlayVars, windowVars, textVars
  <2>2. UNCHANGED mainQueue \/ Posts
    BY <1>1, <1>8
    DEF GridTracker, GridFades, GridArms, WindowArms, WindowChanges, SendsReposition,
        OpacityKey, FontKey, Adjusts, NoPost, SetFontSize, ResetFontSize, overlayVars,
        Selectors
  <2> QED BY <2>1, <2>2
<1>9. ASSUME \/ Toggle \/ GridPress \/ WindowMoves \/ Answer
             \/ \E c \in Clients : StoresMethod(c) \/ SetsPoller(c) \/ SwitchesOverlay(c)
             \/ \E c \in limits.clients : SetRequest(c)
      PROVE  UNCHANGED <<texts, gCurrentText, completions, mainQueue>>
  BY <1>9
  DEF Toggle, GridPress, WindowMoves, Answer, StoresMethod, SetsPoller, SwitchesOverlay,
      SetRequest, overlayVars, windowVars, textVars
<1> QED
  BY <1>3, <1>5, <1>6, <1>7, <1>8, <1>9 DEF Daemon, Environment, Posts

LEMMA TextDisplayed ==
  ASSUME QueueTypeOK, LatestTextUnderWay, UNCHANGED <<gFadeDuration, completions>>,
         NEW item \in Items, mainQueue' = Append(mainQueue, item),
         \/ item.sel # "updateText" /\ UNCHANGED <<texts, gCurrentText>>
         \/ item.sel = "updateText" /\ item.arg = texts'
  PROVE  LatestTextUnderWay'
<1>1. /\ \A k \in DOMAIN mainQueue : k \in DOMAIN mainQueue' /\ mainQueue'[k] = mainQueue[k]
      /\ \A k \in DOMAIN mainQueue' : k \in DOMAIN mainQueue \/ mainQueue'[k] = item
  BY QueueGrows
<1>2. SUFFICES ASSUME gFadeDuration = 0
               PROVE  \/ gCurrentText' = texts' /\ NoTextQueued'
                      \/ \E k \in DOMAIN mainQueue' : LatestText(k)'
  BY DEF LatestTextUnderWay
<1>3. CASE item.sel = "updateText" /\ item.arg = texts'
  <2>1. mainQueue \in Seq(Items)
    BY DEF QueueTypeOK
  <2>2. /\ Len(mainQueue') = Len(mainQueue) + 1 /\ mainQueue' \in Seq(Items)
        /\ mainQueue'[Len(mainQueue) + 1] = item
    BY <2>1, AppendProperties
  <2>3. DOMAIN mainQueue' = 1 .. Len(mainQueue) + 1 /\ Len(mainQueue) \in Nat
    BY <2>1, <2>2, LenProperties
  <2>4. PICK last : last = Len(mainQueue) + 1
    OBVIOUS
  <2>5. /\ last \in DOMAIN mainQueue' /\ mainQueue'[last] = item
        /\ \A m \in DOMAIN mainQueue' : ~(m > last)
    BY <2>2, <2>3, <2>4
  <2>6. LatestText(last)'
    BY <1>3, <2>5 DEF LatestText
  <2> QED BY <2>5, <2>6
<1>4. CASE item.sel # "updateText" /\ UNCHANGED <<texts, gCurrentText>>
  <2>1. NoTextQueued => NoTextQueued'
    BY <1>1, <1>4 DEF NoTextQueued
  <2>2. \A k \in DOMAIN mainQueue : LatestText(k) => LatestText(k)'
    BY <1>1, <1>4 DEF LatestText
  <2> QED BY <1>1, <1>2, <1>4, <2>1, <2>2 DEF LatestTextUnderWay
<1> QED BY <1>3, <1>4

LEMMA TextApplied ==
  ASSUME TypeOK, LatestTextUnderWay, MainThread, UNCHANGED <<gFadeDuration, texts>>,
         gFadeDuration = 0
  PROVE  LatestTextUnderWay'
<1>1. CASE PerformSelector
  <2> DEFINE first == Head(mainQueue)
  <2>1. /\ \A k \in DOMAIN mainQueue' :
             k + 1 \in DOMAIN mainQueue /\ mainQueue'[k] = mainQueue[k + 1]
        /\ 1 \in DOMAIN mainQueue /\ first = mainQueue[1]
        /\ \A k \in DOMAIN mainQueue : k = 1 \/ k - 1 \in DOMAIN mainQueue'
        /\ \A k \in DOMAIN mainQueue : k \in Nat /\ k >= 1
        /\ \A k \in DOMAIN mainQueue' : k \in Nat /\ k >= 1
    <3>1. mainQueue \in Seq(Items) /\ mainQueue # <<>> /\ mainQueue' = Tail(mainQueue)
      BY <1>1 DEF PerformSelector, TypeOK, OverlayTypeOK, QueueTypeOK
    <3>2. /\ mainQueue' \in Seq(Items)
          /\ Len(mainQueue') = Len(mainQueue) - 1
          /\ \A i \in 1 .. Len(mainQueue') : mainQueue'[i] = mainQueue[i + 1]
          /\ first = mainQueue[1]
      BY <3>1, HeadTailProperties
    <3> HIDE DEF first
    <3>3. /\ DOMAIN mainQueue' = 1 .. Len(mainQueue') /\ DOMAIN mainQueue = 1 .. Len(mainQueue)
          /\ Len(mainQueue) \in Nat /\ Len(mainQueue) # 0
      BY <3>1, <3>2, LenProperties, EmptySeq
    <3> QED BY <3>2, <3>3
  <2>2. Execute(first)
    BY <1>1 DEF PerformSelector
  <2> HIDE DEF first
  <2>3. /\ \A c \in completions' : c \in completions \/ c.kind = "hide"
        /\ first.sel # "updateText" => gCurrentText' = gCurrentText
        /\ first.sel = "updateText" => gCurrentText' = first.arg
    BY <2>2 DEF Execute, showWindow, hideWindow, updateText, orderOutForCapture,
       orderInAfterCapture, doFadeOutForMove, doHideForWindowChange, doCommitMove,
       doFadeInAfterMove, reposition, OnCompletion, AppliesText
  <2>4. CASE first.sel # "updateText" /\ gCurrentText = texts /\ NoTextQueued
    <3>1. gCurrentText' = texts' /\ NoTextQueued'
      BY <2>1, <2>3, <2>4 DEF NoTextQueued
    <3> QED BY <2>3, <3>1 DEF LatestTextUnderWay
  <2>5. ASSUME NEW k \in DOMAIN mainQueue, LatestText(k)
        PROVE  LatestTextUnderWay'
    <3>1. CASE k = 1
      <4>1. gCurrentText' = texts'
        BY <2>1, <2>3, <2>5, <3>1 DEF LatestText
      <4>2. ASSUME NEW m \in DOMAIN mainQueue' PROVE mainQueue'[m].sel # "updateText"
        <5>1. m + 1 \in DOMAIN mainQueue /\ m + 1 > 1
          BY <2>1
        <5> QED BY <2>1, <2>5, <3>1, <5>1 DEF LatestText
      <4> QED BY <2>3, <4>1, <4>2 DEF LatestTextUnderWay, NoTextQueued
    <3>2. CASE k # 1
      <4>1. k - 1 \in DOMAIN mainQueue' /\ (k - 1) + 1 = k
        BY <2>1, <3>2
      <4>2. mainQueue'[k - 1] = mainQueue[k]
        BY <2>1, <4>1
      <4>3. ASSUME NEW m \in DOMAIN mainQueue', m > k - 1
            PROVE  mainQueue'[m].sel # "updateText"
        <5>1. m + 1 \in DOMAIN mainQueue /\ m + 1 > k
          BY <2>1, <4>3
        <5> QED BY <2>1, <2>5, <5>1 DEF LatestText
      <4>4. LatestText(k - 1)'
        BY <2>5, <4>2, <4>3 DEF LatestText
      <4> QED BY <2>3, <4>1, <4>4 DEF LatestTextUnderWay
    <3> QED BY <3>1, <3>2
  <2>6. NoTextQueued => first.sel # "updateText"
    BY <2>1 DEF NoTextQueued
  <2> QED BY <2>4, <2>5, <2>6 DEF LatestTextUnderWay
<1>2. CASE \E c \in completions : HideCompletes(c) \/ TextCompletes(c)
  <2>1. PICK c \in completions : HideCompletes(c) \/ TextCompletes(c)
    BY <1>2
  <2>2. HideCompletes(c)
    BY <2>1 DEF LatestTextUnderWay, TextCompletes
  <2>3. UNCHANGED <<mainQueue, gCurrentText>> /\ completions' = completions \ {c}
    BY <2>2 DEF HideCompletes
  <2> QED BY <2>3 DEF LatestTextUnderWay, LatestText, NoTextQueued
<1>3. CASE FadeInEnds
  BY <1>3 DEF FadeInEnds, LatestTextUnderWay, LatestText, NoTextQueued
<1> QED BY <1>1, <1>2, <1>3 DEF MainThread

\* Without crossfades the text displayed last is the one that is shown in the end,
\* whatever hides, shows, moves or captures the window meanwhile (Display, updateText).
THEOREM UnfadedTextAlwaysApplied == Safety => []UnfadedTextApplied
<1>1. Init => LatestTextUnderWay
  <2> SUFFICES ASSUME Init PROVE LatestTextUnderWay
    OBVIOUS
  <2>1. completions = {} /\ gCurrentText = 0 /\ texts = 0
    BY DEF Init, OverlayInit
  <2>2. \/ mainQueue = <<Commit(InitialSpot)>>
        \/ mainQueue = <<Item("showWindow", 0), Commit(InitialSpot)>>
    BY DEF Init, OverlayInit
  <2>3. NoTextQueued
    BY <2>2 DEF NoTextQueued, Commit, Item
  <2> QED BY <2>1, <2>3 DEF LatestTextUnderWay
<1>2. LatestTextUnderWay => UnfadedTextApplied
  <2> SUFFICES ASSUME LatestTextUnderWay, gFadeDuration = 0, mainQueue = <<>>
               PROVE  gCurrentText = texts
    BY DEF UnfadedTextApplied, LatestTextApplied, Quiescent
  <2>1. DOMAIN mainQueue = {}
    OBVIOUS
  <2> QED BY <2>1 DEF LatestTextUnderWay
<1>3. TypeOK /\ LatestTextUnderWay /\ [Next]_vars => LatestTextUnderWay'
  <2> SUFFICES ASSUME TypeOK, LatestTextUnderWay, [Next]_vars PROVE LatestTextUnderWay'
    OBVIOUS
  <2>1. CASE UNCHANGED <<gFadeDuration, mainQueue, texts, gCurrentText, completions>>
    BY <2>1 DEF LatestTextUnderWay, LatestText, NoTextQueued
  <2>2. CASE UNCHANGED vars
    BY <2>1, <2>2 DEF vars, goVars, overlayVars, windowVars, textVars
  <2>3. CASE Next
    <3>1. (Daemon \/ Environment) /\ UNCHANGED gFadeDuration
      BY <2>3 DEF Next
    <3>2. CASE MainThread /\ UNCHANGED goVars
      <4>1. CASE gFadeDuration = 0
        BY <3>1, <3>2, <4>1, TextApplied DEF goVars, textVars
      <4>2. CASE gFadeDuration # 0
        BY <3>1, <4>2 DEF LatestTextUnderWay
      <4> QED BY <4>1, <4>2
    <3>3. CASE Display
      <4>1. texts \in 0 .. answered /\ answered \in 0 .. limits.texts
        BY DEF TypeOK, TextTypeOK
      <4>2. texts + 1 \in Nat /\ texts' = texts + 1
        BY <3>3, <4>1 DEF Display
      <4>3. /\ mainQueue' = Append(mainQueue, Item("updateText", texts + 1))
            /\ UNCHANGED completions
        BY <3>3 DEF Display, Dispatch, Post, windowVars
      <4>4. /\ Item("updateText", texts + 1) \in Items
            /\ Item("updateText", texts + 1).sel = "updateText"
            /\ Item("updateText", texts + 1).arg = texts'
        BY <4>2, ItemType DEF Selectors
      <4> QED BY <3>1, <4>3, <4>4, TextDisplayed DEF TypeOK, OverlayTypeOK
    <3>4. ASSUME NEW item \in Items, item.sel # "updateText",
                 mainQueue' = Append(mainQueue, item),
                 UNCHANGED <<texts, gCurrentText, completions>>
          PROVE  LatestTextUnderWay'
      BY <3>1, <3>4, TextDisplayed DEF TypeOK, OverlayTypeOK
    <3> QED BY <2>1, <3>1, <3>2, <3>3, <3>4, QueueSteps
  <2> QED BY <2>2, <2>3
<1> QED BY <1>1, <1>2, <1>3, OverlayTypes, PTL DEF Safety
=============================================================================

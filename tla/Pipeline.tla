------------------------------ MODULE Pipeline ------------------------------
(***************************************************************************)
(* The two-phase pipeline of src/pipeline: the loop of Run, the Phase 1    *)
(* goroutine of every hotkey trigger (capture), the Phase 2 worker and the *)
(* goroutine it starts for every queued capture (analyse), the goroutines  *)
(* those two leave behind when a time limit passes, the goroutine that     *)
(* drains the trigger channel on shutdown, and cancellation of the root    *)
(* context at any moment.                                                  *)
(*                                                                         *)
(* A trigger is identified by its position in the order in which Run takes *)
(* triggers.  Images, texts and answers are identified with the trigger    *)
(* they belong to.  A sync.WaitGroup is the set of goroutines it counts.   *)
(***************************************************************************)
EXTENDS Naturals, Sequences, FiniteSets, Functions

CONSTANTS
  MaxTriggers,     (* bound: triggers that Run takes in one behaviour       *)
  QueueCapacity,   (* ANALYSE_QUEUE_CAPACITY, the buffer of analyseQueue    *)
  TriggerBuffer,   (* the buffer of the listener's trigger channel          *)
  Methods          (* output methods the user switches between              *)

ASSUME PipelineAssumption ==
  /\ MaxTriggers \in Nat \ {0}
  /\ QueueCapacity \in Nat \ {0}
  /\ TriggerBuffer \in Nat \ {0}
  /\ Methods # {} /\ Methods \subseteq {"teleprompter", "telegram"}

Triggers == 1 .. MaxTriggers

(* Nothing on the teleprompter; no capture recorded yet.                   *)
None == 0

VARIABLES
  ctxDone,          (* has the root context been cancelled?                 *)
  runPhase,         (* where Run is                                         *)
  pending,          (* tokens buffered in the listener's trigger channel    *)
  tapRunning,       (* is the event-tap goroutine still delivering presses? *)
  drainer,          (* where the listener's drain goroutine is              *)
  taken,            (* number of triggers Run has received                  *)
  stage,            (* stage[t]: what the goroutine serving t does next     *)
  captureGroup,     (* goroutines that captureGroup.Wait() waits for        *)
  analyseQueue,     (* the buffered channel between the phases              *)
  queueClosed,      (* has analyseQueue been closed?                        *)
  worker,           (* where runAnalyseWorker is                            *)
  analyseGroup,     (* goroutines that the worker's wg.Wait() waits for     *)
  orphanShots,      (* screenshot goroutines nobody waits for any more      *)
  orphanOCRs,       (* OCR goroutines nobody waits for any more             *)
  extractorClosed,  (* has extractor.Close() been called?                   *)
  outputMethod,     (* the runtime output method                            *)
  screen,           (* trigger whose answer the teleprompter shows, or None *)
  lastCapture       (* capture recorded for `lensd status`, or None         *)

runVars     == <<ctxDone, runPhase, queueClosed, extractorClosed>>
triggerVars == <<pending, tapRunning, drainer, taken>>
taskVars    == <<stage, captureGroup, analyseQueue, analyseGroup>>
orphanVars  == <<orphanShots, orphanOCRs>>
outputVars  == <<outputMethod, screen, lastCapture>>
vars == <<runVars, triggerVars, taskVars, worker, orphanVars, outputVars>>

RunPhases == {"starting", "select", "waitCaptures", "waitWorker",
              "returned", "failed"}

(* Stages in the order a trigger may pass through them. *)
CaptureStages == {"fetch", "shot", "record", "send"}
AnalyseStages == {"ocr", "ai", "display", "broadcast"}
Settled       == {"skipped", "dropped", "fruitless",
                  "shown", "suppressed", "sent", "unsent"}
Stages == {"untaken", "queued"} \cup CaptureStages \cup AnalyseStages \cup Settled

TypeOK ==
  /\ ctxDone \in BOOLEAN
  /\ runPhase \in RunPhases
  /\ pending \in 0 .. TriggerBuffer
  /\ tapRunning \in BOOLEAN
  /\ drainer \in {"off", "idle", "check", "receive", "done"}
  /\ taken \in 0 .. MaxTriggers
  /\ stage \in [Triggers -> Stages]
  /\ captureGroup \subseteq Triggers
  /\ analyseQueue \in Seq(Triggers)
  /\ Len(analyseQueue) <= QueueCapacity
  /\ queueClosed \in BOOLEAN
  /\ worker \in {"off", "range", "wait", "done"}
  /\ analyseGroup \subseteq Triggers
  /\ orphanShots \subseteq Triggers
  /\ orphanOCRs \subseteq Triggers
  /\ extractorClosed \in BOOLEAN
  /\ outputMethod \in Methods
  /\ screen \in {None} \cup Triggers
  /\ lastCapture \in {None} \cup Triggers

Init ==
  /\ ctxDone = FALSE
  /\ runPhase = "starting"
  /\ pending = 0
  /\ tapRunning = FALSE
  /\ drainer = "off"
  /\ taken = 0
  /\ stage = [t \in Triggers |-> "untaken"]
  /\ captureGroup = {}
  /\ analyseQueue = <<>>
  /\ queueClosed = FALSE
  /\ worker = "off"
  /\ analyseGroup = {}
  /\ orphanShots = {}
  /\ orphanOCRs = {}
  /\ extractorClosed = FALSE
  /\ outputMethod \in Methods
  /\ screen = None
  /\ lastCapture = None

-----------------------------------------------------------------------------
(***************************************************************************)
(* The environment: a signal, a shutdown request or an output-method       *)
(* request over IPC, and the user at the keyboard.                         *)
(***************************************************************************)

Cancel ==
  /\ ~ctxDone
  /\ ctxDone' = TRUE
  /\ UNCHANGED <<runPhase, queueClosed, extractorClosed, triggerVars, taskVars,
                 worker, orphanVars, outputVars>>

(* The store that selects the output method.  The rest of SetOutputMethod   *)
(* moves the overlay and the poller, which this module does not see.       *)
StoreOutputMethod(m) ==
  /\ runPhase \notin {"returned", "failed"}
  /\ outputMethod # m
  /\ outputMethod' = m
  /\ UNCHANGED <<runVars, triggerVars, taskVars, worker, orphanVars, screen,
                 lastCapture>>

(* goHotkeyCallback: a press finds room in the channel or is lost.         *)
Press ==
  /\ tapRunning
  /\ taken + pending < MaxTriggers
  /\ IF pending < TriggerBuffer
     THEN pending' = pending + 1
     ELSE UNCHANGED pending
  /\ UNCHANGED <<runVars, tapRunning, drainer, taken, taskVars, worker,
                 orphanVars, outputVars>>

-----------------------------------------------------------------------------
(***************************************************************************)
(* The listener's goroutines: the event tap stops within one poll interval *)
(* of the cancellation; the drain goroutine empties the channel with       *)
(*   for len(l.triggerCh) > 0 { <-l.triggerCh }                            *)
(* whose test and receive are two steps.                                   *)
(***************************************************************************)

TapStops ==
  /\ tapRunning
  /\ ctxDone
  /\ tapRunning' = FALSE
  /\ UNCHANGED <<runVars, pending, drainer, taken, taskVars, worker, orphanVars,
                 outputVars>>

DrainStarts ==
  /\ drainer = "idle"
  /\ ctxDone
  /\ drainer' = "check"
  /\ UNCHANGED <<runVars, pending, tapRunning, taken, taskVars, worker,
                 orphanVars, outputVars>>

DrainChecks ==
  /\ drainer = "check"
  /\ drainer' = IF pending > 0 THEN "receive" ELSE "done"
  /\ UNCHANGED <<runVars, pending, tapRunning, taken, taskVars, worker,
                 orphanVars, outputVars>>

DrainReceives ==
  /\ drainer = "receive"
  /\ pending > 0
  /\ pending' = pending - 1
  /\ drainer' = "check"
  /\ UNCHANGED <<runVars, tapRunning, taken, taskVars, worker, orphanVars,
                 outputVars>>

-----------------------------------------------------------------------------
(***************************************************************************)
(* Run.                                                                    *)
(***************************************************************************)

(* Listen succeeds: the listener's goroutines and the worker are started.  *)
StartListening ==
  /\ runPhase = "starting"
  /\ runPhase' = "select"
  /\ tapRunning' = TRUE
  /\ drainer' = "idle"
  /\ worker' = "range"
  /\ UNCHANGED <<ctxDone, queueClosed, extractorClosed, pending, taken, taskVars,
                 orphanVars, outputVars>>

(* The event tap cannot be created: Run returns the error, nothing started. *)
ListenFails ==
  /\ runPhase = "starting"
  /\ runPhase' = "failed"
  /\ UNCHANGED <<ctxDone, queueClosed, extractorClosed, triggerVars, taskVars,
                 worker, orphanVars, outputVars>>

(* Slip: captureGroup.Add(1) is forgotten, or done inside the goroutine.   *)
TakeTrigger_NoAdd(t) ==
  /\ runPhase = "select"
  /\ pending > 0
  /\ t = taken + 1
  /\ pending' = pending - 1
  /\ taken' = t
  /\ screen' = IF outputMethod = "teleprompter" THEN None ELSE screen
  /\ stage' = [stage EXCEPT ![t] = "fetch"]
  /\ UNCHANGED <<runVars, tapRunning, drainer, captureGroup, analyseQueue,
                 analyseGroup, worker, orphanVars, outputMethod, lastCapture>>

(* Go's select chooses at random among ready cases, so a trigger may still *)
(* be taken after the cancellation.                                        *)
TakeTrigger(t) ==
  /\ runPhase = "select"
  /\ pending > 0
  /\ t = taken + 1
  /\ pending' = pending - 1
  /\ taken' = t
  /\ screen' = IF outputMethod = "teleprompter" THEN None ELSE screen
  /\ captureGroup' = captureGroup \cup {t}
  /\ stage' = [stage EXCEPT ![t] = "fetch"]
  /\ UNCHANGED <<runVars, tapRunning, drainer, analyseQueue, analyseGroup, worker,
                 orphanVars, outputMethod, lastCapture>>

SeeCancel ==
  /\ runPhase = "select"
  /\ ctxDone
  /\ runPhase' = "waitCaptures"
  /\ UNCHANGED <<ctxDone, queueClosed, extractorClosed, triggerVars, taskVars,
                 worker, orphanVars, outputVars>>

(* Slip: the queue is closed without waiting for the captures.             *)
CloseQueue_NoWait ==
  /\ runPhase = "waitCaptures"
  /\ queueClosed' = TRUE
  /\ runPhase' = "waitWorker"
  /\ UNCHANGED <<ctxDone, extractorClosed, triggerVars, taskVars, worker,
                 orphanVars, outputVars>>

CloseQueue ==
  /\ runPhase = "waitCaptures"
  /\ captureGroup = {}
  /\ queueClosed' = TRUE
  /\ runPhase' = "waitWorker"
  /\ UNCHANGED <<ctxDone, extractorClosed, triggerVars, taskVars, worker,
                 orphanVars, outputVars>>

(* Slip: the extractor is closed without waiting for workerDone.           *)
CloseExtractor_NoWait ==
  /\ runPhase = "waitWorker"
  /\ extractorClosed' = TRUE
  /\ runPhase' = "returned"
  /\ UNCHANGED <<ctxDone, queueClosed, triggerVars, taskVars, worker, orphanVars,
                 outputVars>>

CloseExtractor ==
  /\ runPhase = "waitWorker"
  /\ worker = "done"
  /\ extractorClosed' = TRUE
  /\ runPhase' = "returned"
  /\ UNCHANGED <<ctxDone, queueClosed, triggerVars, taskVars, worker, orphanVars,
                 outputVars>>

-----------------------------------------------------------------------------
(***************************************************************************)
(* Phase 1, the goroutine of trigger t.  Its time limits derive from the   *)
(* root context, so after a cancellation they pass at once.                *)
(***************************************************************************)

(* The deferred captureGroup.Done() of a capture that ends in stage s.     *)
CaptureEnds(t, s) ==
  /\ stage' = [stage EXCEPT ![t] = s]
  /\ captureGroup' = captureGroup \ {t}

(* Slip: the early return for "no window" skips captureGroup.Done().       *)
FetchWindow_NoDone(t) ==
  /\ stage[t] = "fetch"
  /\ \/ stage' = [stage EXCEPT ![t] = "shot"]
     \/ stage' = [stage EXCEPT ![t] = "skipped"]
  /\ UNCHANGED <<runVars, triggerVars, captureGroup, analyseQueue, analyseGroup,
                 worker, orphanVars, outputVars>>

FetchWindow(t) ==
  /\ stage[t] = "fetch"
  /\ \/ /\ stage' = [stage EXCEPT ![t] = "shot"]
        /\ UNCHANGED captureGroup
     \/ CaptureEnds(t, "skipped")    \* no window, an error or the time limit
  /\ UNCHANGED <<runVars, triggerVars, analyseQueue, analyseGroup, worker,
                 orphanVars, outputVars>>

(* The screenshot goroutine delivers an image or an error in time ...      *)
ScreenshotEnds(t) ==
  /\ stage[t] = "shot"
  /\ \/ /\ stage' = [stage EXCEPT ![t] = "record"]
        /\ UNCHANGED captureGroup
     \/ CaptureEnds(t, "skipped")
  /\ UNCHANGED <<runVars, triggerVars, analyseQueue, analyseGroup, worker,
                 orphanVars, outputVars>>

(* ... or the limit passes first and the goroutine is left running.        *)
ScreenshotTimesOut(t) ==
  /\ stage[t] = "shot"
  /\ CaptureEnds(t, "skipped")
  /\ orphanShots' = orphanShots \cup {t}
  /\ UNCHANGED <<runVars, triggerVars, analyseQueue, analyseGroup, worker,
                 orphanOCRs, outputVars>>

OrphanShotEnds(t) ==
  /\ t \in orphanShots
  /\ orphanShots' = orphanShots \ {t}
  /\ UNCHANGED <<runVars, triggerVars, taskVars, worker, orphanOCRs, outputVars>>

RecordCapture(t) ==
  /\ stage[t] = "record"
  /\ stage' = [stage EXCEPT ![t] = "send"]
  /\ lastCapture' = t
  /\ UNCHANGED <<runVars, triggerVars, captureGroup, analyseQueue, analyseGroup,
                 worker, orphanVars, outputMethod, screen>>

(* The non-blocking send: a full queue drops the capture.                  *)
Send(t) ==
  /\ stage[t] = "send"
  /\ IF Len(analyseQueue) < QueueCapacity
     THEN /\ analyseQueue' = Append(analyseQueue, t)
          /\ CaptureEnds(t, "queued")
     ELSE /\ CaptureEnds(t, "dropped")
          /\ UNCHANGED analyseQueue
  /\ UNCHANGED <<runVars, triggerVars, analyseGroup, worker, orphanVars,
                 outputVars>>

-----------------------------------------------------------------------------
(***************************************************************************)
(* Phase 2: the worker and the goroutine of every capture it receives.     *)
(***************************************************************************)

(* Slip: wg.Add(1) is forgotten, or done inside the goroutine.             *)
WorkerReceives_NoAdd(t) ==
  /\ worker = "range"
  /\ analyseQueue # <<>>
  /\ t = Head(analyseQueue)
  /\ analyseQueue' = Tail(analyseQueue)
  /\ stage' = [stage EXCEPT ![t] = "ocr"]
  /\ UNCHANGED <<runVars, triggerVars, captureGroup, analyseGroup, worker,
                 orphanVars, outputVars>>

WorkerReceives(t) ==
  /\ worker = "range"
  /\ analyseQueue # <<>>
  /\ t = Head(analyseQueue)
  /\ analyseQueue' = Tail(analyseQueue)
  /\ analyseGroup' = analyseGroup \cup {t}
  /\ stage' = [stage EXCEPT ![t] = "ocr"]
  /\ UNCHANGED <<runVars, triggerVars, captureGroup, worker, orphanVars,
                 outputVars>>

(* A range over a closed channel ends once the buffer is empty.            *)
WorkerSeesClosed ==
  /\ worker = "range"
  /\ queueClosed
  /\ analyseQueue = <<>>
  /\ worker' = "wait"
  /\ UNCHANGED <<runVars, triggerVars, taskVars, orphanVars, outputVars>>

WorkerFinishes ==
  /\ worker = "wait"
  /\ analyseGroup = {}
  /\ worker' = "done"
  /\ UNCHANGED <<runVars, triggerVars, taskVars, orphanVars, outputVars>>

(* The deferred wg.Done() of an analysis that ends in stage s.             *)
AnalyseEnds(t, s) ==
  /\ stage' = [stage EXCEPT ![t] = s]
  /\ analyseGroup' = analyseGroup \ {t}

OCREnds(t) ==
  /\ stage[t] = "ocr"
  /\ \/ /\ stage' = [stage EXCEPT ![t] = "ai"]
        /\ UNCHANGED analyseGroup
     \/ AnalyseEnds(t, "fruitless")     \* empty text or an error
  /\ UNCHANGED <<runVars, triggerVars, captureGroup, analyseQueue, worker,
                 orphanVars, outputVars>>

OCRTimesOut(t) ==
  /\ stage[t] = "ocr"
  /\ AnalyseEnds(t, "fruitless")
  /\ orphanOCRs' = orphanOCRs \cup {t}
  /\ UNCHANGED <<runVars, triggerVars, captureGroup, analyseQueue, worker,
                 orphanShots, outputVars>>

OrphanOCREnds(t) ==
  /\ t \in orphanOCRs
  /\ orphanOCRs' = orphanOCRs \ {t}
  /\ UNCHANGED <<runVars, triggerVars, taskVars, worker, orphanShots, outputVars>>

(* The AI's answer is routed by the output method of this moment; no       *)
(* answer (an error, the time limit or an empty response) ends the task.   *)
AIAnswers(t) ==
  /\ stage[t] = "ai"
  /\ \/ AnalyseEnds(t, "fruitless")
     \/ /\ outputMethod = "teleprompter"
        /\ \/ /\ stage' = [stage EXCEPT ![t] = "display"]
              /\ UNCHANGED analyseGroup
           \/ AnalyseEnds(t, "suppressed")     \* not Deterministic
     \/ /\ outputMethod = "telegram"
        /\ stage' = [stage EXCEPT ![t] = "broadcast"]
        /\ UNCHANGED analyseGroup
  /\ UNCHANGED <<runVars, triggerVars, captureGroup, analyseQueue, worker,
                 orphanVars, outputVars>>

Display(t) ==
  /\ stage[t] = "display"
  /\ AnalyseEnds(t, "shown")
  /\ screen' = t
  /\ UNCHANGED <<runVars, triggerVars, captureGroup, analyseQueue, worker,
                 orphanVars, outputMethod, lastCapture>>

(* A broadcast that fails is only logged: no retry, no error upwards.      *)
Broadcast(t) ==
  /\ stage[t] = "broadcast"
  /\ AnalyseEnds(t, "sent") \/ AnalyseEnds(t, "unsent")
  /\ UNCHANGED <<runVars, triggerVars, captureGroup, analyseQueue, worker,
                 orphanVars, outputVars>>

-----------------------------------------------------------------------------
RunStep ==
  \/ StartListening \/ ListenFails
  \/ SeeCancel \/ CloseQueue \/ CloseExtractor
  \/ \E t \in Triggers : TakeTrigger(t)

CaptureStep(t) ==
  \/ FetchWindow(t) \/ ScreenshotEnds(t) \/ ScreenshotTimesOut(t)
  \/ RecordCapture(t) \/ Send(t)

AnalyseStep(t) ==
  \/ OCREnds(t) \/ OCRTimesOut(t) \/ AIAnswers(t) \/ Display(t) \/ Broadcast(t)

WorkerStep ==
  \/ WorkerSeesClosed \/ WorkerFinishes
  \/ \E t \in Triggers : WorkerReceives(t)

ListenerStep == TapStops \/ DrainStarts \/ DrainChecks \/ DrainReceives

EnvironmentStep ==
  \/ Cancel \/ Press
  \/ \E m \in Methods : StoreOutputMethod(m)

Next ==
  \/ EnvironmentStep \/ ListenerStep \/ RunStep \/ WorkerStep
  \/ \E t \in Triggers : \/ CaptureStep(t) \/ AnalyseStep(t)
                         \/ OrphanShotEnds(t) \/ OrphanOCREnds(t)

(***************************************************************************)
(* Fairness.  The Go scheduler runs every ready goroutine, Go's select     *)
(* picks a ready case at random, and every wait of the two phases is       *)
(* bounded by a context deadline.  Nothing obliges a screenshot or an OCR  *)
(* call to return, so ScreenshotEnds, OCREnds and the orphans are not      *)
(* fair; nor are the user and the signals.                                 *)
(***************************************************************************)
Fairness ==
  /\ WF_vars(StartListening \/ ListenFails)
  /\ WF_vars(SeeCancel) /\ WF_vars(CloseQueue) /\ WF_vars(CloseExtractor)
  /\ WF_vars(\E t \in Triggers : TakeTrigger(t))
  /\ WF_vars(WorkerSeesClosed) /\ WF_vars(WorkerFinishes)
  /\ WF_vars(\E t \in Triggers : WorkerReceives(t))
  /\ WF_vars(TapStops) /\ WF_vars(DrainStarts)
  /\ WF_vars(DrainChecks) /\ WF_vars(DrainReceives)
  /\ \A t \in Triggers :
       /\ WF_vars(FetchWindow(t)) /\ WF_vars(ScreenshotTimesOut(t))
       /\ WF_vars(RecordCapture(t)) /\ WF_vars(Send(t))
       /\ WF_vars(OCRTimesOut(t)) /\ WF_vars(AIAnswers(t))
       /\ WF_vars(Display(t)) /\ WF_vars(Broadcast(t))

Safety == Init /\ [][Next]_vars

Spec == Safety /\ Fairness

-----------------------------------------------------------------------------
(***************************************************************************)
(* Safety.                                                                 *)
(***************************************************************************)

(* A send on a closed channel panics the daemon.  Run closes analyseQueue  *)
(* while captures may still be on their way to it, after a cancellation    *)
(* that any number of them outlive: no goroutine that can reach the send   *)
(* of capture is alive once the queue is closed.                           *)
NoSendOnClosedQueue ==
  queueClosed => \A t \in Triggers : stage[t] \notin CaptureStages

(* The queue holds exactly the captures that were enqueued and not yet     *)
(* received, each of them once: no capture is lost between the phases and  *)
(* none is analysed twice, whatever the interleaving of senders, worker    *)
(* and shutdown.                                                           *)
QueueHoldsQueued ==
  /\ Range(analyseQueue) = {t \in Triggers : stage[t] = "queued"}
  /\ IsInjective(analyseQueue)

(* The shutdown sequence documented above Run: when Run has returned, and  *)
(* so when the extractor is closed, every trigger it took has reached its  *)
(* end, nothing waits in the queue and no analysis is running, even if the *)
(* cancellation came in the middle of both phases.                         *)
ReturnLeavesNothing ==
  extractorClosed \/ runPhase = "returned" =>
    /\ \A t \in Triggers : stage[t] \in Settled \cup {"untaken"}
    /\ analyseQueue = <<>>

(***************************************************************************)
(* The inductive invariant: each wait group counts exactly the goroutines  *)
(* of its phase, and the shutdown steps happen in their order.             *)
(***************************************************************************)
GroupsCountGoroutines ==
  /\ captureGroup = {t \in Triggers : stage[t] \in CaptureStages}
  /\ analyseGroup = {t \in Triggers : stage[t] \in AnalyseStages}

TriggersInOrder ==
  /\ taken + pending <= MaxTriggers
  /\ \A t \in Triggers : t > taken <=> stage[t] = "untaken"

ShutdownInOrder ==
  /\ queueClosed <=> runPhase \in {"waitWorker", "returned"}
  /\ queueClosed => captureGroup = {}
  /\ worker \in {"wait", "done"} => queueClosed /\ analyseQueue = <<>>
  /\ worker = "done" => analyseGroup = {}
  /\ extractorClosed <=> runPhase = "returned"
  /\ runPhase = "returned" => worker = "done"
  /\ runPhase \in {"starting", "failed"} => taken = 0

PipelineInv ==
  /\ GroupsCountGoroutines
  /\ TriggersInOrder
  /\ QueueHoldsQueued
  /\ ShutdownInOrder

-----------------------------------------------------------------------------
(***************************************************************************)
(* The pipeline implements the ledger.                                     *)
(***************************************************************************)
FateOf(s) ==
  CASE s = "untaken"         -> "unseen"
    [] s \in CaptureStages   -> "capturing"
    [] s = "queued"          -> "waiting"
    [] s \in AnalyseStages   -> "analysing"
    [] s \in Settled         -> "settled"

LedgerPhase ==
  CASE runPhase \in {"starting", "select"}           -> "open"
    [] runPhase \in {"waitCaptures", "waitWorker"}   -> "closing"
    [] runPhase \in {"returned", "failed"}           -> "stopped"

Ledger == INSTANCE CaptureLedger WITH
  fate    <- [t \in Triggers |-> FateOf(stage[t])],
  waiting <- analyseQueue,
  phase   <- LedgerPhase

(* Every behaviour of the pipeline is one of the ledger: triggers are      *)
(* analysed in the order their captures were enqueued, exactly once, never *)
(* more than the capacity waiting, and Run stops only when all of them are *)
(* settled; and each trigger's fate is settled in the end.                 *)
LedgerSpec == Ledger!Spec

LedgerSafety == Ledger!Safety

-----------------------------------------------------------------------------
(***************************************************************************)
(* Liveness.                                                               *)
(***************************************************************************)

(* A cancellation ends Run, although a screenshot or an OCR call may never *)
(* return: no wait group, channel or goroutine of the two phases keeps the *)
(* daemon alive.                                                           *)
CancelledRunReturns == ctxDone ~> runPhase \in {"returned", "failed"}

-----------------------------------------------------------------------------
(***************************************************************************)
(* What the documentation says and the code does not do.                   *)
(***************************************************************************)

(* README.md: "The teleprompter text is cleared while the new result is    *)
(* being processed".  While the last trigger taken is being processed the  *)
(* teleprompter shows nothing, unless it is that trigger's own answer.  An *)
(* analysis of an earlier trigger may finish in between and show its own.  *)
ClearedWhileProcessing ==
  \A t \in Triggers :
    t = taken /\ stage[t] \notin Settled => screen \in {None, t}
=============================================================================

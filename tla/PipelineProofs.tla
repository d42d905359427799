--------------------------- MODULE PipelineProofs ---------------------------
(***************************************************************************)
(* Proofs about Pipeline for every number of triggers, every capacity of   *)
(* the queue and every buffer of the trigger channel.                      *)
(***************************************************************************)
EXTENDS Pipeline, TLAPS

LEMMA InitTypeOK == Init => TypeOK
  <1> SUFFICES ASSUME Init PROVE TypeOK
    OBVIOUS
  <1>1. /\ pending \in 0 .. TriggerBuffer
        /\ taken \in 0 .. MaxTriggers
        /\ analyseQueue \in Seq(Triggers)
        /\ Len(analyseQueue) <= QueueCapacity
    BY PipelineAssumption DEF Init
  <1>2. stage \in [Triggers -> Stages]
    BY DEF Init, Stages
  <1> QED
    BY <1>1, <1>2 DEF Init, TypeOK, RunPhases

LEMMA EnvironmentTypeOK == TypeOK /\ EnvironmentStep => TypeOK'
  <1> SUFFICES ASSUME TypeOK, EnvironmentStep PROVE TypeOK'
    OBVIOUS
  <1> USE DEF TypeOK, runVars, triggerVars, taskVars, orphanVars, outputVars
  <1>1. CASE Cancel
    BY <1>1 DEF Cancel
  <1>2. CASE Press
    BY <1>2, PipelineAssumption DEF Press
  <1>3. CASE \E m \in Methods : StoreOutputMethod(m)
    BY <1>3 DEF StoreOutputMethod
  <1> QED
    BY <1>1, <1>2, <1>3 DEF EnvironmentStep

LEMMA ListenerTypeOK == TypeOK /\ ListenerStep => TypeOK'
  <1> SUFFICES ASSUME TypeOK, ListenerStep PROVE TypeOK'
    OBVIOUS
  <1> USE DEF TypeOK, runVars, triggerVars, taskVars, orphanVars, outputVars
  <1>1. CASE TapStops
    BY <1>1 DEF TapStops
  <1>2. CASE DrainStarts
    BY <1>2 DEF DrainStarts
  <1>3. CASE DrainChecks
    BY <1>3 DEF DrainChecks
  <1>4. CASE DrainReceives
    BY <1>4, PipelineAssumption DEF DrainReceives
  <1> QED
    BY <1>1, <1>2, <1>3, <1>4 DEF ListenerStep

LEMMA RunTypeOK == TypeOK /\ RunStep => TypeOK'
  <1> SUFFICES ASSUME TypeOK, RunStep PROVE TypeOK'
    OBVIOUS
  <1> USE DEF TypeOK, runVars, triggerVars, taskVars, orphanVars, outputVars
  <1>1. CASE StartListening
    BY <1>1 DEF StartListening, RunPhases
  <1>2. CASE ListenFails
    BY <1>2 DEF ListenFails, RunPhases
  <1>3. CASE SeeCancel
    BY <1>3 DEF SeeCancel, RunPhases
  <1>4. CASE CloseQueue
    BY <1>4 DEF CloseQueue, RunPhases
  <1>5. CASE CloseExtractor
    BY <1>5 DEF CloseExtractor, RunPhases
  <1>6. CASE \E t \in Triggers : TakeTrigger(t)
    BY <1>6, PipelineAssumption
    DEF TakeTrigger, Triggers, Stages, CaptureStages, None
  <1> QED
    BY <1>1, <1>2, <1>3, <1>4, <1>5, <1>6 DEF RunStep

LEMMA CaptureTypeOK ==
  ASSUME NEW t \in Triggers, TypeOK, CaptureStep(t) \/ OrphanShotEnds(t)
  PROVE  TypeOK'
  <1> USE DEF TypeOK, runVars, triggerVars, taskVars, orphanVars, outputVars,
              Stages, CaptureStages, Settled, CaptureEnds
  <1>1. CASE FetchWindow(t)
    BY <1>1 DEF FetchWindow
  <1>2. CASE ScreenshotEnds(t)
    BY <1>2 DEF ScreenshotEnds
  <1>3. CASE ScreenshotTimesOut(t)
    BY <1>3 DEF ScreenshotTimesOut
  <1>4. CASE RecordCapture(t)
    BY <1>4 DEF RecordCapture
  <1>5. CASE Send(t)
    <2>1. analyseQueue' \in Seq(Triggers) /\ Len(analyseQueue') <= QueueCapacity
      BY <1>5, PipelineAssumption DEF Send
    <2>2. stage' \in [Triggers -> Stages] /\ captureGroup' \subseteq Triggers
      BY <1>5 DEF Send
    <2> QED
      BY <1>5, <2>1, <2>2 DEF Send
  <1>6. CASE OrphanShotEnds(t)
    BY <1>6 DEF OrphanShotEnds
  <1> QED
    BY <1>1, <1>2, <1>3, <1>4, <1>5, <1>6 DEF CaptureStep

LEMMA WorkerTypeOK == TypeOK /\ WorkerStep => TypeOK'
  <1> SUFFICES ASSUME TypeOK, WorkerStep PROVE TypeOK'
    OBVIOUS
  <1> USE DEF TypeOK, runVars, triggerVars, taskVars, orphanVars, outputVars
  <1>1. CASE WorkerSeesClosed
    BY <1>1 DEF WorkerSeesClosed
  <1>2. CASE WorkerFinishes
    BY <1>2 DEF WorkerFinishes
  <1>3. CASE \E t \in Triggers : WorkerReceives(t)
    BY <1>3, PipelineAssumption DEF WorkerReceives, Stages, AnalyseStages
  <1> QED
    BY <1>1, <1>2, <1>3 DEF WorkerStep

LEMMA AnalyseTypeOK ==
  ASSUME NEW t \in Triggers, TypeOK, AnalyseStep(t) \/ OrphanOCREnds(t)
  PROVE  TypeOK'
  <1> USE DEF TypeOK, runVars, triggerVars, taskVars, orphanVars, outputVars,
              Stages, AnalyseStages, Settled, AnalyseEnds
  <1>1. CASE OCREnds(t)
    BY <1>1 DEF OCREnds
  <1>2. CASE OCRTimesOut(t)
    BY <1>2 DEF OCRTimesOut
  <1>3. CASE AIAnswers(t)
    BY <1>3 DEF AIAnswers
  <1>4. CASE Display(t)
    BY <1>4 DEF Display
  <1>5. CASE Broadcast(t)
    BY <1>5 DEF Broadcast
  <1>6. CASE OrphanOCREnds(t)
    BY <1>6 DEF OrphanOCREnds
  <1> QED
    BY <1>1, <1>2, <1>3, <1>4, <1>5, <1>6 DEF AnalyseStep

LEMMA StutterTypeOK == TypeOK /\ UNCHANGED vars => TypeOK'
  BY DEF TypeOK, vars, runVars, triggerVars, taskVars, orphanVars, outputVars

(* Every variable of the pipeline keeps its type; in particular the queue  *)
(* never holds more captures than its buffer (phases.go, the non-blocking  *)
(* send) and the trigger channel never more tokens than its own.           *)
THEOREM TypeCorrect == Safety => []TypeOK
  <1>1. TypeOK /\ [Next]_vars => TypeOK'
    BY EnvironmentTypeOK, ListenerTypeOK, RunTypeOK, WorkerTypeOK,
       CaptureTypeOK, AnalyseTypeOK, StutterTypeOK
    DEF Next
  <1> QED
    BY InitTypeOK, <1>1, PTL DEF Safety

-----------------------------------------------------------------------------
(***************************************************************************)
(* A queue without repetitions stays one when a new element is appended    *)
(* and when its head is removed, and its elements change by that element.  *)
(***************************************************************************)
LEMMA AppendNew ==
  ASSUME NEW S, NEW q \in Seq(S), NEW x \in S,
         IsInjective(q), x \notin Range(q)
  PROVE  /\ Range(Append(q, x)) = Range(q) \cup {x}
         /\ IsInjective(Append(q, x))
  <1> DEFINE r == Append(q, x)
  <1>1. /\ r \in Seq(S) /\ Len(r) = Len(q) + 1 /\ Len(q) \in Nat
        /\ DOMAIN r = 1 .. Len(r) /\ DOMAIN q = 1 .. Len(q)
        /\ \A i \in 1 .. Len(q) : r[i] = q[i]
        /\ r[Len(q) + 1] = x
    OBVIOUS
  <1>2. Range(r) = Range(q) \cup {x}
    <2>1. Range(r) \subseteq Range(q) \cup {x}
      BY <1>1 DEF Range
    <2>2. Range(q) \subseteq Range(r)
      BY <1>1 DEF Range
    <2>3. x \in Range(r)
      <3>1. Len(q) + 1 \in DOMAIN r
        BY <1>1
      <3> QED
        BY <1>1, <3>1 DEF Range
    <2> QED
      BY <2>1, <2>2, <2>3
  <1>3. IsInjective(r)
    <2>1. \A i \in 1 .. Len(q) : r[i] \in Range(q)
      BY <1>1 DEF Range
    <2> QED
      BY <1>1, <2>1 DEF IsInjective
  <1> QED
    BY <1>2, <1>3

LEMMA TailRest ==
  ASSUME NEW S, NEW q \in Seq(S), q # <<>>, IsInjective(q)
  PROVE  /\ Range(Tail(q)) = Range(q) \ {Head(q)}
         /\ Head(q) \in Range(q)
         /\ IsInjective(Tail(q))
  <1> DEFINE r == Tail(q)
  <1>1. /\ r \in Seq(S) /\ Len(r) = Len(q) - 1 /\ Len(q) \in Nat \ {0}
        /\ DOMAIN r = 1 .. Len(r) /\ DOMAIN q = 1 .. Len(q)
        /\ \A i \in 1 .. Len(r) : r[i] = q[i + 1]
        /\ Head(q) = q[1]
    OBVIOUS
  <1>2. Range(r) = Range(q) \ {Head(q)}
    <2>1. Range(r) \subseteq Range(q) \ {Head(q)}
      BY <1>1 DEF Range, IsInjective
    <2>2. ASSUME NEW y \in Range(q) \ {Head(q)} PROVE y \in Range(r)
      <3>1. PICK i \in 1 .. Len(q) : y = q[i]
        BY <1>1, <2>2 DEF Range
      <3>2. i # 1
        BY <1>1, <2>2, <3>1
      <3>3. i - 1 \in DOMAIN r /\ r[i - 1] = y
        BY <1>1, <3>1, <3>2
      <3> QED
        BY <3>3 DEF Range
    <2> QED
      BY <2>1, <2>2
  <1>3. Head(q) \in Range(q)
    BY <1>1 DEF Range
  <1>4. IsInjective(r)
    BY <1>1 DEF IsInjective
  <1> QED
    BY <1>2, <1>3, <1>4

-----------------------------------------------------------------------------
LEMMA InitPipelineInv == Init => PipelineInv
  BY PipelineAssumption
  DEF Init, PipelineInv, GroupsCountGoroutines, TriggersInOrder,
      QueueHoldsQueued, ShutdownInOrder, CaptureStages, AnalyseStages,
      Triggers, Range, IsInjective

(* A step that leaves the triggers, the groups and the shutdown alone.      *)
LEMMA FrameInv ==
  ASSUME PipelineInv, taken + pending' <= MaxTriggers,
         UNCHANGED <<runPhase, queueClosed, extractorClosed, taken, taskVars,
                     worker>>
  PROVE  PipelineInv'
  BY DEF PipelineInv, GroupsCountGoroutines, TriggersInOrder, QueueHoldsQueued,
         ShutdownInOrder, taskVars

LEMMA EnvironmentInv ==
  TypeOK /\ PipelineInv /\ (EnvironmentStep \/ ListenerStep) => PipelineInv'
  <1> SUFFICES ASSUME TypeOK, PipelineInv, EnvironmentStep \/ ListenerStep
               PROVE  PipelineInv'
    OBVIOUS
  <1>1. UNCHANGED <<runPhase, queueClosed, extractorClosed, taken, taskVars,
                    worker>>
    BY DEF EnvironmentStep, ListenerStep, Cancel, Press, StoreOutputMethod,
           TapStops, DrainStarts, DrainChecks, DrainReceives, runVars,
           triggerVars
  <1>2. taken + pending' <= MaxTriggers
    <2>1. taken \in Nat /\ pending \in Nat /\ taken + pending <= MaxTriggers
      BY PipelineAssumption DEF TypeOK, PipelineInv, TriggersInOrder
    <2> QED
      BY <2>1, PipelineAssumption
      DEF EnvironmentStep, ListenerStep, Cancel, Press, StoreOutputMethod,
          TapStops, DrainStarts, DrainChecks, DrainReceives, runVars,
          triggerVars
  <1> QED
    BY <1>1, <1>2, FrameInv

LEMMA RunInv == TypeOK /\ PipelineInv /\ RunStep => PipelineInv'
  <1> SUFFICES ASSUME TypeOK, PipelineInv, RunStep PROVE PipelineInv'
    OBVIOUS
  <1> USE DEF PipelineInv, GroupsCountGoroutines, TriggersInOrder,
              QueueHoldsQueued, ShutdownInOrder, runVars, triggerVars, taskVars
  <1>1. CASE StartListening
    BY <1>1 DEF StartListening
  <1>2. CASE ListenFails
    BY <1>2 DEF ListenFails
  <1>3. CASE SeeCancel
    BY <1>3 DEF SeeCancel
  <1>4. CASE CloseQueue
    BY <1>4 DEF CloseQueue
  <1>5. CASE CloseExtractor
    BY <1>5 DEF CloseExtractor
  <1>6. ASSUME NEW t \in Triggers, TakeTrigger(t) PROVE PipelineInv'
    <2>1. stage[t] = "untaken"
      BY <1>6 DEF TakeTrigger, TypeOK, Triggers
    <2>2. GroupsCountGoroutines'
      BY <1>6, <2>1 DEF TakeTrigger, TypeOK, CaptureStages, AnalyseStages
    <2>3. TriggersInOrder'
      BY <1>6, <2>1, PipelineAssumption DEF TakeTrigger, TypeOK, Triggers
    <2>4. QueueHoldsQueued'
      BY <1>6, <2>1 DEF TakeTrigger, TypeOK
    <2>5. ShutdownInOrder'
      BY <1>6 DEF TakeTrigger
    <2> QED
      BY <2>2, <2>3, <2>4, <2>5
  <1> QED
    BY <1>1, <1>2, <1>3, <1>4, <1>5, <1>6 DEF RunStep

(***************************************************************************)
(* A goroutine of either phase that moves trigger t from stage s to stage  *)
(* r without touching the queue or Run.                                    *)
(***************************************************************************)
MovesOn(t, s, r) ==
  /\ stage[t] = s
  /\ stage' = [stage EXCEPT ![t] = r]
  /\ UNCHANGED <<runPhase, queueClosed, extractorClosed, taken, pending,
                 analyseQueue, worker>>

LEMMA MovesOnInv ==
  ASSUME TypeOK, PipelineInv, NEW t \in Triggers,
         NEW s \in CaptureStages \cup AnalyseStages,
         NEW r \in CaptureStages \cup AnalyseStages \cup Settled,
         MovesOn(t, s, r), GroupsCountGoroutines',
         s \in CaptureStages => r \notin AnalyseStages,
         s \in AnalyseStages => r \notin CaptureStages
  PROVE  PipelineInv'
  <1> USE DEF MovesOn
  <1>1. s # "queued" /\ r # "queued" /\ s # "untaken" /\ r # "untaken"
    BY DEF CaptureStages, AnalyseStages, Settled
  <1>2. TriggersInOrder'
    BY <1>1 DEF PipelineInv, TriggersInOrder, TypeOK
  <1>3. QueueHoldsQueued'
    BY <1>1 DEF PipelineInv, QueueHoldsQueued, TypeOK
  <1>4. captureGroup' \subseteq captureGroup /\ analyseGroup' \subseteq analyseGroup
    BY DEF PipelineInv, GroupsCountGoroutines, TypeOK
  <1>5. ShutdownInOrder'
    BY <1>4 DEF PipelineInv, ShutdownInOrder
  <1> QED
    BY <1>2, <1>3, <1>5 DEF PipelineInv

LEMMA CaptureInv ==
  ASSUME NEW t \in Triggers, TypeOK, PipelineInv,
         CaptureStep(t) \/ OrphanShotEnds(t)
  PROVE  PipelineInv'
  <1>1. CASE Send(t)
    <2> USE <1>1 DEF Send, CaptureEnds, runVars, triggerVars
    <2>1. t \notin Range(analyseQueue)
      BY DEF PipelineInv, QueueHoldsQueued
    <2>2. GroupsCountGoroutines'
      BY DEF PipelineInv, GroupsCountGoroutines, TypeOK, CaptureStages,
             AnalyseStages
    <2>3. TriggersInOrder'
      BY DEF PipelineInv, TriggersInOrder, TypeOK
    <2>4. QueueHoldsQueued'
      <3>1. CASE Len(analyseQueue) < QueueCapacity
        <4>1. /\ Range(analyseQueue') = Range(analyseQueue) \cup {t}
              /\ IsInjective(analyseQueue')
          <5>1. analyseQueue' = Append(analyseQueue, t)
            BY <3>1
          <5>2. analyseQueue \in Seq(Triggers) /\ IsInjective(analyseQueue)
            BY DEF PipelineInv, QueueHoldsQueued, TypeOK
          <5> QED
            BY ONLY <2>1, <5>1, <5>2, AppendNew
        <4> QED
          BY <3>1, <4>1 DEF PipelineInv, QueueHoldsQueued, TypeOK
      <3>2. CASE ~(Len(analyseQueue) < QueueCapacity)
        BY <3>2 DEF PipelineInv, QueueHoldsQueued, TypeOK
      <3> QED
        BY <3>1, <3>2
    <2>5. ShutdownInOrder'
      <3>1. ~queueClosed
        BY DEF PipelineInv, GroupsCountGoroutines, ShutdownInOrder,
               CaptureStages
      <3> QED
        BY <3>1 DEF PipelineInv, ShutdownInOrder
    <2> QED
      BY <2>2, <2>3, <2>4, <2>5 DEF PipelineInv
  <1>2. CASE OrphanShotEnds(t)
    <2>1. taken + pending' <= MaxTriggers
      BY <1>2 DEF OrphanShotEnds, triggerVars, PipelineInv, TriggersInOrder
    <2> QED
      BY <1>2, <2>1, FrameInv DEF OrphanShotEnds, runVars, triggerVars
  <1>3. CASE FetchWindow(t) \/ ScreenshotEnds(t) \/ ScreenshotTimesOut(t)
             \/ RecordCapture(t)
    <2>1. PICK s \in CaptureStages, r \in CaptureStages \cup {"skipped"} :
            MovesOn(t, s, r)
      BY <1>3 DEF FetchWindow, ScreenshotEnds, ScreenshotTimesOut,
                  RecordCapture, MovesOn, CaptureEnds, CaptureStages, runVars,
                  triggerVars
    <2>2. analyseGroup' = analyseGroup
      BY <1>3 DEF FetchWindow, ScreenshotEnds, ScreenshotTimesOut, RecordCapture
    <2>3. captureGroup' = IF r = "skipped" THEN captureGroup \ {t}
                                          ELSE captureGroup
      BY <1>3, <2>1
      DEF FetchWindow, ScreenshotEnds, ScreenshotTimesOut, RecordCapture,
          MovesOn, CaptureEnds, CaptureStages, TypeOK
    <2>4. GroupsCountGoroutines'
      BY <2>1, <2>2, <2>3
      DEF PipelineInv, GroupsCountGoroutines, MovesOn, TypeOK, CaptureStages,
          AnalyseStages
    <2> QED
      BY <2>1, <2>4, MovesOnInv DEF CaptureStages, AnalyseStages, Settled
  <1> QED
    BY <1>1, <1>2, <1>3 DEF CaptureStep

LEMMA WorkerInv == TypeOK /\ PipelineInv /\ WorkerStep => PipelineInv'
  <1> SUFFICES ASSUME TypeOK, PipelineInv, WorkerStep PROVE PipelineInv'
    OBVIOUS
  <1>1. CASE WorkerSeesClosed
    BY <1>1 DEF WorkerSeesClosed, PipelineInv, GroupsCountGoroutines,
                TriggersInOrder, QueueHoldsQueued, ShutdownInOrder, runVars,
                triggerVars, taskVars
  <1>2. CASE WorkerFinishes
    BY <1>2 DEF WorkerFinishes, PipelineInv, GroupsCountGoroutines,
                TriggersInOrder, QueueHoldsQueued, ShutdownInOrder, runVars,
                triggerVars, taskVars
  <1>3. ASSUME NEW t \in Triggers, WorkerReceives(t) PROVE PipelineInv'
    <2> USE <1>3 DEF WorkerReceives, runVars, triggerVars
    <2>1. /\ Range(analyseQueue') = Range(analyseQueue) \ {t}
          /\ t \in Range(analyseQueue)
          /\ IsInjective(analyseQueue')
      BY TailRest DEF PipelineInv, QueueHoldsQueued, TypeOK
    <2>2. stage[t] = "queued"
      BY <2>1 DEF PipelineInv, QueueHoldsQueued
    <2>3. GroupsCountGoroutines'
      BY <2>2 DEF PipelineInv, GroupsCountGoroutines, TypeOK, CaptureStages,
                  AnalyseStages
    <2>4. TriggersInOrder'
      BY <2>2 DEF PipelineInv, TriggersInOrder, TypeOK
    <2>5. QueueHoldsQueued'
      BY <2>1, <2>2 DEF PipelineInv, QueueHoldsQueued, TypeOK
    <2>6. ShutdownInOrder'
      BY DEF PipelineInv, ShutdownInOrder
    <2> QED
      BY <2>3, <2>4, <2>5, <2>6 DEF PipelineInv
  <1> QED
    BY <1>1, <1>2, <1>3 DEF WorkerStep

LEMMA AnalyseInv ==
  ASSUME NEW t \in Triggers, TypeOK, PipelineInv,
         AnalyseStep(t) \/ OrphanOCREnds(t)
  PROVE  PipelineInv'
  <1>1. CASE OrphanOCREnds(t)
    <2>1. taken + pending' <= MaxTriggers
      BY <1>1 DEF OrphanOCREnds, triggerVars, PipelineInv, TriggersInOrder
    <2> QED
      BY <1>1, <2>1, FrameInv DEF OrphanOCREnds, runVars, triggerVars
  <1>2. CASE AnalyseStep(t)
    <2> USE <1>2 DEF AnalyseStep, OCREnds, OCRTimesOut, AIAnswers, Display,
                     Broadcast, AnalyseEnds
    <2>1. PICK s \in AnalyseStages, r \in AnalyseStages \cup Settled :
            MovesOn(t, s, r)
      BY DEF MovesOn, AnalyseStages, Settled, runVars, triggerVars
    <2>2. captureGroup' = captureGroup
      OBVIOUS
    <2>3. analyseGroup' = IF r \in Settled THEN analyseGroup \ {t}
                                           ELSE analyseGroup
      BY <2>1 DEF MovesOn, AnalyseStages, Settled, TypeOK
    <2>4. GroupsCountGoroutines'
      BY <2>1, <2>2, <2>3
      DEF PipelineInv, GroupsCountGoroutines, MovesOn, TypeOK, CaptureStages,
          AnalyseStages, Settled
    <2> QED
      BY <2>1, <2>4, MovesOnInv DEF CaptureStages, AnalyseStages, Settled
  <1> QED
    BY <1>1, <1>2

LEMMA NextInv == TypeOK /\ PipelineInv /\ [Next]_vars => PipelineInv'
  <1>1. TypeOK /\ PipelineInv /\ UNCHANGED vars => PipelineInv'
    BY FrameInv, PipelineAssumption
    DEF vars, runVars, triggerVars, PipelineInv, TriggersInOrder
  <1> QED
    BY <1>1, EnvironmentInv, RunInv, WorkerInv, CaptureInv, AnalyseInv DEF Next

(* The wait groups count exactly the goroutines of their phase, the queue  *)
(* holds exactly the enqueued captures, and shutdown happens in order.     *)
THEOREM PipelineInvariant == Safety => []PipelineInv
  BY InitPipelineInv, NextInv, TypeCorrect, PTL DEF Safety

(* No capture can reach the send on analyseQueue once Run has closed it    *)
(* (run.go, captureGroup.Wait before close): the daemon does not panic.    *)
THEOREM SendsAreSafe == Safety => []NoSendOnClosedQueue
  <1>1. PipelineInv => NoSendOnClosedQueue
    BY DEF PipelineInv, GroupsCountGoroutines, ShutdownInOrder,
           NoSendOnClosedQueue
  <1> QED
    BY <1>1, PipelineInvariant, PTL

(* When Run has returned every trigger it took is settled and nothing is   *)
(* left in the queue (run.go, the documented shutdown sequence).           *)
THEOREM ReturnIsClean == Safety => []ReturnLeavesNothing
  <1>1. TypeOK /\ PipelineInv => ReturnLeavesNothing
    <2> SUFFICES ASSUME TypeOK, PipelineInv, runPhase = "returned"
                 PROVE  /\ \A t \in Triggers : stage[t] \in Settled \cup {"untaken"}
                        /\ analyseQueue = <<>>
      BY DEF ReturnLeavesNothing, PipelineInv, ShutdownInOrder
    <2>1. captureGroup = {} /\ analyseGroup = {} /\ analyseQueue = <<>>
      BY DEF PipelineInv, ShutdownInOrder
    <2>2. \A t \in Triggers : stage[t] # "queued"
      BY <2>1 DEF PipelineInv, QueueHoldsQueued, Range
    <2> QED
      BY <2>1, <2>2 DEF PipelineInv, GroupsCountGoroutines, TypeOK, Stages
  <1> QED
    BY <1>1, PipelineInvariant, TypeCorrect, PTL

-----------------------------------------------------------------------------
(***************************************************************************)
(* Refinement of the ledger.                                               *)
(***************************************************************************)
LEMMA Fates ==
  /\ FateOf("untaken") = "unseen"
  /\ FateOf("queued") = "waiting"
  /\ \A s \in CaptureStages : FateOf(s) = "capturing"
  /\ \A s \in AnalyseStages : FateOf(s) = "analysing"
  /\ \A s \in Settled : FateOf(s) = "settled"
  BY DEF FateOf, CaptureStages, AnalyseStages, Settled

LEMMA SameTriggers == Ledger!Triggers = Triggers
  BY DEF Ledger!Triggers, Triggers

(* A goroutine that moves one trigger moves one fate, or none.             *)
LEMMA FateMoves ==
  ASSUME TypeOK, NEW t \in Triggers, NEW r \in Stages,
         stage' = [stage EXCEPT ![t] = r]
  PROVE  [u \in Triggers |-> FateOf(stage[u])]' =
         [[u \in Triggers |-> FateOf(stage[u])] EXCEPT ![t] = FateOf(r)]
  BY DEF TypeOK

LEMMA LedgerInit == Init => Ledger!Init
  BY Fates, SameTriggers DEF Init, Ledger!Init, LedgerPhase

LEMMA LedgerStutters ==
  ASSUME UNCHANGED <<stage, analyseQueue, runPhase>>
  PROVE  UNCHANGED Ledger!ledgerVars
  BY DEF Ledger!ledgerVars, LedgerPhase

LEMMA RunRefines ==
  ASSUME TypeOK, PipelineInv, RunStep
  PROVE  [Ledger!Next]_(Ledger!ledgerVars)
  <1>1. CASE StartListening
    BY <1>1 DEF StartListening, LedgerPhase, Ledger!ledgerVars, taskVars
  <1>2. CASE ListenFails
    <2>1. \A u \in Triggers : stage[u] = "untaken"
      BY <1>2, PipelineAssumption
      DEF ListenFails, PipelineInv, ShutdownInOrder, TriggersInOrder, Triggers
    <2>2. analyseQueue = <<>>
      BY <2>1 DEF PipelineInv, QueueHoldsQueued, Range, TypeOK
    <2>3. Ledger!AllSettled
      BY <2>1, Fates, SameTriggers DEF Ledger!AllSettled
    <2>4. Ledger!Stop
      BY <1>2, <2>2, <2>3 DEF ListenFails, Ledger!Stop, LedgerPhase, taskVars
    <2> QED
      BY <2>4 DEF Ledger!Next
  <1>3. CASE SeeCancel
    <2>1. Ledger!Close
      BY <1>3 DEF SeeCancel, Ledger!Close, LedgerPhase, taskVars
    <2> QED
      BY <2>1 DEF Ledger!Next
  <1>4. CASE CloseQueue
    BY <1>4 DEF CloseQueue, LedgerPhase, Ledger!ledgerVars, taskVars
  <1>5. CASE CloseExtractor
    <2>1. captureGroup = {} /\ analyseGroup = {} /\ analyseQueue = <<>>
      BY <1>5 DEF CloseExtractor, PipelineInv, ShutdownInOrder
    <2>2. \A u \in Triggers : stage[u] # "queued"
      BY <2>1 DEF PipelineInv, QueueHoldsQueued, Range
    <2>3. \A u \in Triggers : stage[u] \in Settled \cup {"untaken"}
      BY <2>1, <2>2 DEF PipelineInv, GroupsCountGoroutines, TypeOK, Stages
    <2>4. Ledger!AllSettled
      BY <2>3, Fates, SameTriggers DEF Ledger!AllSettled
    <2>5. Ledger!Stop
      BY <1>5, <2>1, <2>4
      DEF CloseExtractor, Ledger!Stop, LedgerPhase, taskVars
    <2> QED
      BY <2>5 DEF Ledger!Next
  <1>6. ASSUME NEW t \in Triggers, TakeTrigger(t)
        PROVE  [Ledger!Next]_(Ledger!ledgerVars)
    <2>1. stage[t] = "untaken"
      BY <1>6 DEF TakeTrigger, TypeOK, Triggers, PipelineInv, TriggersInOrder
    <2>2. [u \in Triggers |-> FateOf(stage[u])]' =
          [[u \in Triggers |-> FateOf(stage[u])] EXCEPT ![t] = "capturing"]
      <3>1. stage' = [stage EXCEPT ![t] = "fetch"]
        BY <1>6 DEF TakeTrigger
      <3>2. "fetch" \in Stages /\ FateOf("fetch") = "capturing"
        BY Fates DEF Stages, CaptureStages
      <3> QED
        BY ONLY TypeOK, t \in Triggers, <3>1, <3>2, FateMoves
    <2>3. Ledger!Accept(t)
      BY <1>6, <2>1, <2>2, Fates
      DEF TakeTrigger, Ledger!Accept, Ledger!Becomes, LedgerPhase, runVars
    <2> QED
      BY <2>3, SameTriggers DEF Ledger!Next
  <1> QED
    BY <1>1, <1>2, <1>3, <1>4, <1>5, <1>6 DEF RunStep

LEMMA CaptureRefines ==
  ASSUME NEW t \in Triggers, TypeOK, PipelineInv, CaptureStep(t)
  PROVE  [Ledger!Next]_(Ledger!ledgerVars)
  <1> USE DEF CaptureStep, FetchWindow, ScreenshotEnds, ScreenshotTimesOut,
              RecordCapture, Send, CaptureEnds, runVars
  <1>1. PICK r \in CaptureStages \cup {"skipped", "dropped", "queued"} :
          /\ stage[t] \in CaptureStages
          /\ stage' = [stage EXCEPT ![t] = r]
          /\ UNCHANGED runPhase
          /\ r # "queued" => UNCHANGED analyseQueue
          /\ r = "queued" => /\ Len(analyseQueue) < QueueCapacity
                             /\ analyseQueue' = Append(analyseQueue, t)
    BY DEF CaptureStages
  <1>2. [u \in Triggers |-> FateOf(stage[u])]' =
        [[u \in Triggers |-> FateOf(stage[u])] EXCEPT ![t] = FateOf(r)]
    BY ONLY <1>1, FateMoves, TypeOK DEF Stages, Settled
  <1>3. UNCHANGED LedgerPhase
    BY ONLY <1>1 DEF LedgerPhase
  <1>4. [u \in Triggers |-> FateOf(stage[u])][t] = "capturing"
    BY <1>1, Fates
  <1>5. CASE r \in CaptureStages
    <2>1. FateOf(r) = "capturing" /\ UNCHANGED analyseQueue
      BY <1>1, <1>5, Fates DEF CaptureStages
    <2> QED
      BY ONLY <1>2, <1>3, <1>4, <2>1 DEF Ledger!ledgerVars
  <1>6. CASE r \in {"skipped", "dropped"}
    <2>1. FateOf(r) = "settled" /\ UNCHANGED analyseQueue
      BY <1>1, <1>6, Fates DEF Settled
    <2>2. Ledger!Lose(t)
      BY ONLY <1>2, <1>3, <1>4, <2>1 DEF Ledger!Lose, Ledger!Becomes
    <2> QED
      BY <2>2, SameTriggers DEF Ledger!Next
  <1>7. CASE r = "queued"
    <2>1. Ledger!Enqueue(t)
      BY ONLY <1>1, <1>2, <1>3, <1>4, <1>7, Fates
      DEF Ledger!Enqueue, Ledger!Becomes
    <2> QED
      BY <2>1, SameTriggers DEF Ledger!Next
  <1> QED
    BY <1>1, <1>5, <1>6, <1>7

LEMMA WorkerRefines ==
  ASSUME TypeOK, PipelineInv, WorkerStep
  PROVE  [Ledger!Next]_(Ledger!ledgerVars)
  <1>1. CASE WorkerSeesClosed \/ WorkerFinishes
    BY <1>1, LedgerStutters DEF WorkerSeesClosed, WorkerFinishes, runVars, taskVars
  <1>2. ASSUME NEW t \in Triggers, WorkerReceives(t)
        PROVE  [Ledger!Next]_(Ledger!ledgerVars)
    <2>1. t \in Range(analyseQueue)
      BY <1>2, TailRest DEF WorkerReceives, PipelineInv, QueueHoldsQueued, TypeOK
    <2>2. stage[t] = "queued"
      BY <2>1 DEF PipelineInv, QueueHoldsQueued
    <2>3. [u \in Triggers |-> FateOf(stage[u])]' =
          [[u \in Triggers |-> FateOf(stage[u])] EXCEPT ![t] = "analysing"]
      <3>1. stage' = [stage EXCEPT ![t] = "ocr"]
        BY <1>2 DEF WorkerReceives
      <3>2. "ocr" \in Stages /\ FateOf("ocr") = "analysing"
        BY Fates DEF Stages, AnalyseStages
      <3> QED
        BY ONLY TypeOK, t \in Triggers, <3>1, <3>2, FateMoves
    <2>4. UNCHANGED LedgerPhase
      BY <1>2 DEF WorkerReceives, runVars, LedgerPhase
    <2>5. Ledger!Dequeue(t)
      BY <1>2, <2>2, <2>3, <2>4, Fates
      DEF WorkerReceives, Ledger!Dequeue, Ledger!Becomes
    <2> QED
      BY <2>5, SameTriggers DEF Ledger!Next
  <1> QED
    BY <1>1, <1>2 DEF WorkerStep

LEMMA AnalyseRefines ==
  ASSUME NEW t \in Triggers, TypeOK, AnalyseStep(t)
  PROVE  [Ledger!Next]_(Ledger!ledgerVars)
  <1> USE DEF AnalyseStep, OCREnds, OCRTimesOut, AIAnswers, Display, Broadcast,
              AnalyseEnds, runVars
  <1>1. PICK r \in AnalyseStages \cup Settled :
          /\ stage[t] \in AnalyseStages
          /\ stage' = [stage EXCEPT ![t] = r]
          /\ UNCHANGED <<runPhase, analyseQueue>>
    BY DEF AnalyseStages, Settled
  <1>2. [u \in Triggers |-> FateOf(stage[u])]' =
        [[u \in Triggers |-> FateOf(stage[u])] EXCEPT ![t] = FateOf(r)]
    BY ONLY <1>1, FateMoves, TypeOK DEF Stages
  <1>3. UNCHANGED LedgerPhase
    BY ONLY <1>1 DEF LedgerPhase
  <1>4. [u \in Triggers |-> FateOf(stage[u])][t] = "analysing"
    BY <1>1, Fates
  <1>5. CASE r \in AnalyseStages
    BY ONLY <1>1, <1>2, <1>3, <1>4, <1>5, Fates DEF Ledger!ledgerVars
  <1>6. CASE r \in Settled
    <2>1. Ledger!Settle(t)
      BY ONLY <1>1, <1>2, <1>3, <1>4, <1>6, Fates
      DEF Ledger!Settle, Ledger!Becomes
    <2> QED
      BY <2>1, SameTriggers DEF Ledger!Next
  <1> QED
    BY <1>1, <1>5, <1>6

(* The pipeline implements the ledger: accepted triggers are captured,     *)
(* enqueued within the capacity, analysed in order and exactly once, and   *)
(* Run stops only when all of them are settled (run.go, phases.go).        *)
THEOREM ImplementsLedger == Safety => LedgerSafety
  <1>1. TypeOK /\ PipelineInv /\ [Next]_vars => [Ledger!Next]_(Ledger!ledgerVars)
    <2> SUFFICES ASSUME TypeOK, PipelineInv, [Next]_vars
                 PROVE  [Ledger!Next]_(Ledger!ledgerVars)
      OBVIOUS
    <2>1. CASE EnvironmentStep \/ ListenerStep
      BY <2>1, LedgerStutters
      DEF EnvironmentStep, ListenerStep, Cancel, Press, StoreOutputMethod,
          TapStops, DrainStarts, DrainChecks, DrainReceives, runVars, taskVars
    <2>2. ASSUME NEW t \in Triggers, OrphanShotEnds(t) \/ OrphanOCREnds(t)
          PROVE  [Ledger!Next]_(Ledger!ledgerVars)
      BY <2>2, LedgerStutters DEF OrphanShotEnds, OrphanOCREnds, runVars, taskVars
    <2>3. CASE UNCHANGED vars
      BY <2>3, LedgerStutters DEF vars, runVars, taskVars
    <2> QED
      BY <2>1, <2>2, <2>3, RunRefines, WorkerRefines, CaptureRefines,
         AnalyseRefines
      DEF Next
  <1> QED
    BY LedgerInit, <1>1, PipelineInvariant, TypeCorrect, PTL
    DEF Safety, LedgerSafety, Ledger!Safety
=============================================================================

-------------------------- MODULE LogStreamProofs --------------------------
(***************************************************************************)
(* Proofs about LogStream for every set of connections and every size of   *)
(* the ring, of the subscribers' buffers and of the sockets.               *)
(***************************************************************************)
EXTENDS LogStream, TLAPS

-----------------------------------------------------------------------------
(* Index arithmetic of the ring.                                           *)
LEMMA ModWithin ==
  ASSUME NEW n \in Nat \ {0}, NEW a \in 0 .. n - 1
  PROVE  a % n = a
  OBVIOUS

LEMMA ModAround ==
  ASSUME NEW n \in Nat \ {0}, NEW a \in n .. 2 * n - 1
  PROVE  a % n = a - n
  OBVIOUS

(* Index i of a ring whose oldest event is at `head`.                      *)
LEMMA SlotOf ==
  ASSUME NEW n \in Nat \ {0}, NEW head \in 0 .. n - 1, NEW i \in 0 .. n
  PROVE  /\ (head + i) % n = IF head + i < n THEN head + i ELSE head + i - n
         /\ (head + i) % n \in 0 .. n - 1
  <1>1. CASE head + i < n
    <2>1. head + i \in 0 .. n - 1
      BY <1>1
    <2>2. (head + i) % n = head + i
      BY <2>1, ModWithin
    <2> QED
      BY <1>1, <2>1, <2>2
  <1>2. CASE head + i >= n
    <2>1. head + i \in n .. 2 * n - 1
      BY <1>2
    <2>2. (head + i) % n = head + i - n
      BY <2>1, ModAround
    <2> QED
      BY <1>2, <2>2
  <1> QED
    BY <1>1, <1>2

(* Write keeps the ring: it puts the newest event in the slot after the    *)
(* last one, which is the oldest event's slot when the ring is full.       *)
LEMMA StoreKeepsRing ==
  ASSUME TypeOK, RingHoldsRecent, Store(written + 1), written' = written + 1
  PROVE  RingHoldsRecent'
  <1> DEFINE Slot(i) == (ringHead + i) % RingSize
  <1>0. /\ RingSize \in Nat \ {0}
        /\ ringHead \in 0 .. RingSize - 1 /\ ringLength \in 0 .. RingSize
        /\ written \in Nat
        /\ ring \in [0 .. RingSize - 1 -> 0 .. MaxEvents]
    BY LogAssumption DEF TypeOK, Slots
  <1>1. \A i \in 0 .. RingSize :
          /\ Slot(i) = IF ringHead + i < RingSize THEN ringHead + i
                                                  ELSE ringHead + i - RingSize
          /\ Slot(i) \in 0 .. RingSize - 1
    BY <1>0, SlotOf
  <1>2. ring' = [ring EXCEPT ![Slot(ringLength)] = written + 1]
    BY DEF Store
  <1>3. /\ ringLength = IF written < RingSize THEN written ELSE RingSize
        /\ \A i \in 0 .. ringLength - 1 : ring[Slot(i)] = written - ringLength + 1 + i
    BY DEF RingHoldsRecent
  <1>4. SUFFICES
          /\ ringLength' = IF written' < RingSize THEN written' ELSE RingSize
          /\ \A i \in 0 .. ringLength' - 1 :
               ring'[(ringHead' + i) % RingSize] = written' - ringLength' + 1 + i
    BY DEF RingHoldsRecent
  <1>5. ringHead' = Slot(1) \/ ringHead' = ringHead
    BY DEF Store
  <1>6. ringLength < RingSize => ringLength' = ringLength + 1 /\ ringHead' = ringHead
    BY DEF Store
  <1>7. ~(ringLength < RingSize) => ringLength' = ringLength /\ ringHead' = Slot(1)
    BY DEF Store
  <1>8. ringHead' = ringHead => \A i : (ringHead' + i) % RingSize = Slot(i)
    OBVIOUS
  <1>9. ASSUME ringHead' = Slot(1), NEW i \in 0 .. RingSize - 1
        PROVE  (ringHead' + i) % RingSize = Slot(i + 1)
    <2>1. ringHead' \in 0 .. RingSize - 1
      BY <1>0, <1>1, <1>9
    <2>2. (ringHead' + i) % RingSize =
            IF ringHead' + i < RingSize THEN ringHead' + i
                                        ELSE ringHead' + i - RingSize
      <3>1. i \in 0 .. RingSize
        BY <1>0
      <3> QED
        BY <1>0, <2>1, <3>1, SlotOf
    <2>3. ringHead' = IF ringHead + 1 < RingSize THEN ringHead + 1
                                                 ELSE ringHead + 1 - RingSize
      BY <1>0, <1>1, <1>9
    <2>4. i + 1 \in 0 .. RingSize
      BY <1>0
    <2>5. Slot(i + 1) = IF ringHead + (i + 1) < RingSize
                        THEN ringHead + (i + 1) ELSE ringHead + (i + 1) - RingSize
      BY <1>1, <2>4
    <2> HIDE DEF Slot
    <2> QED
      BY <1>0, <2>2, <2>3, <2>5
  <1> HIDE DEF Slot
  <1>10. \A i, j \in 0 .. RingSize :
           i < j /\ j < i + RingSize => Slot(i) # Slot(j)
    <2> SUFFICES ASSUME NEW i \in 0 .. RingSize, NEW j \in 0 .. RingSize,
                        i < j, j < i + RingSize
                 PROVE  Slot(i) # Slot(j)
      OBVIOUS
    <2>1. Slot(i) = IF ringHead + i < RingSize THEN ringHead + i
                                               ELSE ringHead + i - RingSize
      BY <1>1
    <2>2. Slot(j) = IF ringHead + j < RingSize THEN ringHead + j
                                               ELSE ringHead + j - RingSize
      BY <1>1
    <2> QED
      BY <1>0, <2>1, <2>2
  <1>11. CASE ringLength < RingSize
    <2>1. ASSUME NEW i \in 0 .. ringLength
          PROVE  ring'[Slot(i)] = i + 1
      <3>0. i \in 0 .. RingSize /\ ringLength \in 0 .. RingSize
        BY <1>0, <1>11
      <3>1. CASE i = ringLength
        BY <3>0, <3>1, <1>0, <1>1, <1>2, <1>3, <1>11
      <3>2. CASE i < ringLength
        <4>1. Slot(i) # Slot(ringLength)
          BY <3>0, <3>2, <1>0, <1>10, <1>11
        <4>2. ring[Slot(i)] = i + 1
          BY <3>2, <1>0, <1>3, <1>11
        <4> QED
          BY <3>0, <4>1, <4>2, <1>0, <1>1, <1>2
      <3> QED
        BY <3>1, <3>2, <1>0
    <2>2. ringLength' = ringLength + 1 /\ ringHead' = ringHead
      BY <1>6, <1>11
    <2>3. ringLength = written
      BY <1>0, <1>3, <1>11
    <2>4. \A i \in 0 .. ringLength' - 1 :
            ring'[(ringHead' + i) % RingSize] = i + 1
      <3>1. \A i : (ringHead' + i) % RingSize = Slot(i)
        BY <1>8, <2>2
      <3>2. 0 .. ringLength' - 1 = 0 .. ringLength
        BY <1>0, <2>2
      <3> QED
        BY <2>1, <3>1, <3>2, Zenon
    <2> QED
      BY <1>0, <1>11, <2>2, <2>3, <2>4
  <1>12. CASE ringLength = RingSize
    <2>1. ASSUME NEW i \in 0 .. RingSize - 1
          PROVE  ring'[Slot(i + 1)] = written - RingSize + 2 + i
      <3>0. i + 1 \in 0 .. RingSize
        BY <1>0
      <3>1. CASE i = RingSize - 1
        BY <3>0, <3>1, <1>0, <1>1, <1>2, <1>12
      <3>2. CASE i < RingSize - 1
        <4>1. Slot(i + 1) # Slot(ringLength)
          BY <3>0, <3>2, <1>0, <1>10, <1>12
        <4>2. ring[Slot(i + 1)] = written - RingSize + 1 + (i + 1)
          <5>1. i + 1 \in 0 .. ringLength - 1
            BY <3>2, <1>0, <1>12
          <5> QED
            BY <5>1, <1>3, <1>12
        <4> QED
          BY <3>0, <4>1, <4>2, <1>0, <1>1, <1>2
      <3> QED
        BY <3>1, <3>2, <1>0
    <2>2. ringLength' = RingSize /\ ringHead' = Slot(1)
      BY <1>0, <1>7, <1>12
    <2>3. \A i \in 0 .. ringLength' - 1 :
            ring'[(ringHead' + i) % RingSize] = written - RingSize + 2 + i
      BY <1>9, <2>1, <2>2
    <2> QED
      BY <1>0, <1>3, <1>12, <2>2, <2>3
  <1> QED
    BY <1>0, <1>11, <1>12

(* Every event the ring holds is one that was written.                     *)
LEMMA RingHoldsEvents ==
  ASSUME TypeOK, RingHoldsRecent
  PROVE  /\ \A i \in 0 .. ringLength - 1 : ring[(ringHead + i) % RingSize] \in Events
         /\ written - ringLength + 1 \in 1 .. MaxEvents + 1
  <1>1. /\ RingSize \in Nat \ {0} /\ MaxEvents \in Nat
        /\ ringLength \in 0 .. RingSize /\ written \in 0 .. MaxEvents
        /\ ringLength <= written
    BY LogAssumption DEF TypeOK, RingHoldsRecent
  <1>2. \A i \in 0 .. ringLength - 1 :
          ring[(ringHead + i) % RingSize] = written - ringLength + 1 + i
    BY DEF RingHoldsRecent
  <1>3. \A i \in 0 .. ringLength - 1 : written - ringLength + 1 + i \in Events
    BY <1>1 DEF Events
  <1> QED
    BY <1>1, <1>2, <1>3

-----------------------------------------------------------------------------
LEMMA InitCorrect == Init => TypeOK /\ LogInv
  <1> SUFFICES ASSUME Init PROVE TypeOK /\ LogInv
    OBVIOUS
  <1> USE LogAssumption DEF Init
  <1>1. TypeOK
    <2>1. /\ channel \in [Connections -> Seq(Events)]
          /\ socket \in [Connections -> Seq(Pieces)]
          /\ received \in [Connections -> Seq(Events)]
      OBVIOUS
    <2>2. \A c \in Connections : Len(channel[c]) <= capacity[c]
      OBVIOUS
    <2>3. first \in [Connections -> 1 .. MaxEvents + 1]
      OBVIOUS
    <2>4. capacity \in [Connections -> 0 .. RingSize + SubscriberBuffer]
      OBVIOUS
    <2>5. /\ written \in 0 .. MaxEvents
          /\ ring \in [Slots -> 0 .. MaxEvents]
          /\ ringHead \in Slots
          /\ ringLength \in 0 .. RingSize
          /\ replayed \in [Connections -> 0 .. RingSize]
          /\ sending \in [Connections -> 0 .. MaxEvents]
      BY DEF Slots
    <2> QED
      BY <2>1, <2>2, <2>3, <2>4, <2>5 DEF TypeOK, HandlerStages, ClientStages
  <1>2. RingHoldsRecent
    BY DEF RingHoldsRecent
  <1>3. /\ LockHeldByReplay /\ ReplayFits /\ StreamersRegistered
        /\ HandlersServeClients /\ EventsSent
    BY DEF LockHeldByReplay, ReplayFits, StreamersRegistered,
           HandlersServeClients, EventsSent
  <1> QED
    BY <1>1, <1>2, <1>3 DEF LogInv

LEMMA WriteTypeOK == TypeOK /\ LogInv /\ Write => TypeOK'
  <1> SUFFICES ASSUME TypeOK, LogInv, Write PROVE TypeOK'
    OBVIOUS
  <1> USE LogAssumption DEF Write, handlerVars, clientVars, daemonVars
  <1>1. written' \in 0 .. MaxEvents /\ written + 1 \in Events
    BY DEF TypeOK, Events
  <1>2. /\ ring' \in [Slots -> 0 .. MaxEvents]
        /\ ringLength' \in 0 .. RingSize
    <2>1. ring' = [ring EXCEPT ![(ringHead + ringLength) % RingSize] = written + 1]
      BY DEF Store
    <2>2. written + 1 \in 0 .. MaxEvents /\ ring \in [Slots -> 0 .. MaxEvents]
      BY DEF TypeOK
    <2>3. ringLength' \in 0 .. RingSize
      BY DEF TypeOK, Store
    <2> QED
      BY <2>1, <2>2, <2>3
  <1>3. ringHead' \in Slots
    <2>1. (ringHead + 1) % RingSize \in Slots
      BY SlotOf DEF TypeOK, Slots
    <2> QED
      BY <2>1 DEF TypeOK, Store
  <1>4. /\ channel' \in [Connections -> Seq(Events)]
        /\ \A c \in Connections : Len(channel'[c]) <= capacity[c]
    <2>1. ASSUME NEW c \in Connections
          PROVE  channel'[c] \in Seq(Events) /\ Len(channel'[c]) <= capacity[c]
      <3>1. channel'[c] = channel[c] \/
            (channel'[c] = Append(channel[c], written + 1) /\ ~Full(c))
        BY DEF FanOut
      <3>2. channel[c] \in Seq(Events) /\ Len(channel[c]) \in Nat /\ capacity[c] \in Nat
            /\ Len(channel[c]) <= capacity[c]
        BY DEF TypeOK
      <3>3. CASE channel'[c] = channel[c]
        BY <3>2, <3>3
      <3>4. CASE channel'[c] = Append(channel[c], written + 1) /\ ~Full(c)
        <4>1. Len(channel[c]) < capacity[c]
          BY <3>2, <3>4 DEF Full
        <4>2. /\ Append(channel[c], written + 1) \in Seq(Events)
              /\ Len(Append(channel[c], written + 1)) = Len(channel[c]) + 1
          BY <1>1, <3>2
        <4> QED
          BY <3>2, <3>4, <4>1, <4>2
      <3> QED
        BY <3>1, <3>3, <3>4
    <2> QED
      BY <2>1 DEF FanOut
  <1>5. dropped' \in [Connections -> SUBSET Events]
    BY <1>1 DEF FanOut, TypeOK
  <1> QED
    BY <1>1, <1>2, <1>3, <1>4, <1>5 DEF TypeOK

LEMMA HandlerTypeOK ==
  ASSUME NEW c \in Connections, TypeOK, LogInv, HandleLogSubscribe(c)
  PROVE  TypeOK'
  <1> USE DEF HandlerMoves, HandlerStages, ringVars, channelVars, handlerVars,
              clientVars, daemonVars, historyVars
  <1>1. CASE MakesChannel(c)
    <2>1. written - ringLength + 1 \in 1 .. MaxEvents + 1
      BY RingHoldsEvents DEF LogInv
    <2>2. /\ ringLength + SubscriberBuffer \in 0 .. RingSize + SubscriberBuffer
          /\ Len(channel[c]) <= ringLength + SubscriberBuffer
      BY <1>1, LogAssumption DEF MakesChannel, TypeOK, LogInv, ReplayFits
    <2> QED
      BY <1>1, <2>1, <2>2 DEF MakesChannel, TypeOK
  <1>2. CASE Replays(c)
    <2>1. ring[(ringHead + replayed[c]) % RingSize] \in Events
      <3>1. replayed[c] \in 0 .. ringLength - 1
        BY <1>2, LogAssumption DEF Replays, TypeOK
      <3> QED
        BY <3>1, RingHoldsEvents DEF LogInv
    <2>2. replayed[c] + 1 \in 0 .. RingSize
      <3>1. /\ replayed[c] \in Nat /\ ringLength \in 0 .. RingSize
            /\ replayed[c] < ringLength
        BY <1>2, LogAssumption DEF Replays, TypeOK
      <3> QED
        BY <3>1, LogAssumption
    <2> DEFINE new == Append(channel[c], ring[(ringHead + replayed[c]) % RingSize])
    <2>3. new \in Seq(Events) /\ Len(new) <= capacity[c]
      BY <1>2, <2>1 DEF Replays, TypeOK, Full
    <2>4. channel' = [channel EXCEPT ![c] = new]
      BY <1>2 DEF Replays
    <2> HIDE DEF new
    <2> QED
      BY <1>2, <2>2, <2>3, <2>4 DEF Replays, TypeOK
  <1>3. CASE Registers(c)
    BY <1>3 DEF Registers, TypeOK
  <1>4. CASE TakesEvent(c)
    <2>1. /\ Head(channel[c]) \in Events
          /\ Tail(channel[c]) \in Seq(Events)
          /\ Len(Tail(channel[c])) <= capacity[c]
      BY <1>4 DEF TakesEvent, TypeOK
    <2>2. sending' \in [Connections -> 0 .. MaxEvents]
      <3>1. Head(channel[c]) \in 0 .. MaxEvents
        BY <2>1, LogAssumption DEF Events
      <3> QED
        BY <1>4, <3>1 DEF TakesEvent, TypeOK
    <2>3. /\ channel' \in [Connections -> Seq(Events)]
          /\ \A d \in Connections : Len(channel'[d]) <= capacity[d]
      BY <1>4, <2>1 DEF TakesEvent, TypeOK
    <2> QED
      BY <1>4, <2>2, <2>3 DEF TakesEvent, TypeOK
  <1>5. CASE SeesShutdown(c)
    BY <1>5 DEF SeesShutdown, TypeOK
  <1>6. CASE WritesFrame(c)
    <2> SUFFICES ASSUME NEW piece \in {"length", "payload"},
                        NEW next \in {"payload", "selecting"},
                        WritesPiece(c, piece, next)
                 PROVE  TypeOK'
      BY <1>6 DEF WritesFrame
    <2>1. <<piece, sending[c]>> \in Pieces
      BY DEF WritesPiece, LogInv, EventsSent, Pieces
    <2>2. Append(socket[c], <<piece, sending[c]>>) \in Seq(Pieces)
      BY <2>1 DEF TypeOK
    <2>3. socket' \in [Connections -> Seq(Pieces)]
      BY <2>2 DEF WritesPiece, TypeOK
    <2> QED
      BY <2>3 DEF WritesPiece, TypeOK
  <1>7. CASE WriteFails(c)
    BY <1>7 DEF WriteFails, TypeOK
  <1>8. CASE Unregisters(c)
    BY <1>8 DEF Unregisters, TypeOK
  <1>9. CASE ClosesChannel(c)
    BY <1>9 DEF ClosesChannel, TypeOK
  <1> QED
    BY <1>1, <1>2, <1>3, <1>4, <1>5, <1>6, <1>7, <1>8, <1>9 DEF HandleLogSubscribe

LEMMA ClientTypeOK ==
  ASSUME NEW c \in Connections, TypeOK,
         Subscribe(c) \/ Reads(c) \/ DeadlinePasses(c) \/ Quits(c)
  PROVE  TypeOK'
  <1> USE DEF clientFrame, ClientStages, HandlerStages, ringVars, channelVars,
              daemonVars, historyVars
  <1>1. CASE Subscribe(c)
    BY <1>1 DEF Subscribe, TypeOK
  <1>2. CASE ReadsLength(c)
    <2>1. socket' \in [Connections -> Seq(Pieces)]
      <3>1. socket[c] \in Seq(Pieces) /\ socket[c] # <<>>
        BY <1>2 DEF ReadsLength, TypeOK
      <3>2. Tail(socket[c]) \in Seq(Pieces)
        BY <3>1
      <3>3. socket' = socket \/ socket' = [socket EXCEPT ![c] = Tail(socket[c])]
        BY <1>2 DEF ReadsLength
      <3> QED
        BY <3>2, <3>3 DEF TypeOK
    <2> QED
      BY <1>2, <2>1 DEF ReadsLength, TypeOK
  <1>3. CASE ReadsPayload(c)
    <2>1. Head(socket[c])[2] \in Events /\ Tail(socket[c]) \in Seq(Pieces)
      BY <1>3 DEF ReadsPayload, TypeOK, Pieces
    <2>2. socket' \in [Connections -> Seq(Pieces)]
      BY <1>3, <2>1 DEF ReadsPayload, TypeOK
    <2>3. received' \in [Connections -> Seq(Events)]
      BY <1>3, <2>1 DEF ReadsPayload, TypeOK
    <2> QED
      BY <1>3, <2>2, <2>3 DEF ReadsPayload, TypeOK
  <1>4. CASE ReadsEOF(c)
    BY <1>4 DEF ReadsEOF, TypeOK
  <1>5. CASE DeadlinePasses(c)
    BY <1>5 DEF DeadlinePasses, TypeOK
  <1>6. CASE Quits(c)
    BY <1>6 DEF Quits, TypeOK
  <1> QED
    BY <1>1, <1>2, <1>3, <1>4, <1>5, <1>6 DEF Reads

LEMMA NextTypeOK == TypeOK /\ LogInv /\ [Next]_vars => TypeOK'
  <1> SUFFICES ASSUME TypeOK, LogInv, [Next]_vars PROVE TypeOK'
    OBVIOUS
  <1> USE DEF ringVars, channelVars, handlerVars, clientVars, daemonVars, historyVars
  <1>1. CASE Shutdown
    BY <1>1 DEF Shutdown, TypeOK
  <1>2. CASE DaemonExits
    BY <1>2 DEF DaemonExits, TypeOK
  <1>3. CASE UNCHANGED vars
    BY <1>3 DEF vars, TypeOK
  <1> QED
    BY <1>1, <1>2, <1>3, WriteTypeOK, HandlerTypeOK, ClientTypeOK DEF Next
-----------------------------------------------------------------------------
LEMMA WriteLogInv == TypeOK /\ LogInv /\ Write => LogInv'
  <1> SUFFICES ASSUME TypeOK, LogInv, Write PROVE LogInv'
    OBVIOUS
  <1> USE DEF Write, handlerVars, clientVars, daemonVars
  <1>1. RingHoldsRecent'
    BY StoreKeepsRing DEF LogInv
  <1>2. \A c \in Connections : handler[c] # "replaying"
    BY LogAssumption DEF LogInv, LockHeldByReplay
  <1>3. ASSUME NEW c \in Connections, handler[c] \in {"absent", "waiting"}
        PROVE  channel'[c] = channel[c]
    BY <1>3 DEF LogInv, StreamersRegistered, FanOut
  <1>4. ReplayFits'
    BY <1>2, <1>3 DEF LogInv, ReplayFits
  <1>5. /\ LockHeldByReplay' /\ StreamersRegistered'
        /\ HandlersServeClients' /\ EventsSent'
    BY DEF LogInv, LockHeldByReplay, StreamersRegistered, HandlersServeClients,
           EventsSent
  <1> QED
    BY <1>1, <1>4, <1>5 DEF LogInv

(* What is left of the invariant when the ring stands still.               *)
LEMMA RingStands ==
  ASSUME LogInv, UNCHANGED ringVars,
         LockHeldByReplay', ReplayFits', StreamersRegistered',
         HandlersServeClients', EventsSent'
  PROVE  LogInv'
  BY DEF LogInv, RingHoldsRecent, ringVars

LEMMA HandlerLogInv ==
  ASSUME NEW c \in Connections, TypeOK, LogInv, HandleLogSubscribe(c)
  PROVE  LogInv'
  <1> USE DEF HandlerMoves, channelVars, handlerVars, clientVars, daemonVars,
              historyVars
  <1>0. UNCHANGED ringVars
    BY DEF HandleLogSubscribe, MakesChannel, Replays, Registers, TakesEvent,
           SeesShutdown, WritesFrame, WritesPiece, WriteFails, Unregisters,
           ClosesChannel
  <1>1. handler[c] # "absent" /\ handler'[c] # "absent" /\ UNCHANGED client
        /\ \A d \in Connections \ {c} : handler'[d] = handler[d]
    BY DEF HandleLogSubscribe, MakesChannel, Replays, Registers, TakesEvent,
           SeesShutdown, WritesFrame, WritesPiece, WriteFails, Unregisters,
           ClosesChannel, TypeOK
  <1>2. HandlersServeClients'
    BY <1>1 DEF LogInv, HandlersServeClients
  <1>3. LockHeldByReplay'
    <2>1. handler \in [Connections -> HandlerStages] /\ LockHeldByReplay
      BY DEF LogInv, TypeOK
    <2>2. CASE MakesChannel(c)
      BY <2>1, <2>2, LogAssumption DEF MakesChannel, LockHeldByReplay
    <2>3. CASE Replays(c)
      BY <2>1, <2>3, LogAssumption DEF Replays, LockHeldByReplay
    <2>4. CASE Registers(c)
      BY <2>1, <2>4, LogAssumption DEF Registers, LockHeldByReplay
    <2>5. CASE TakesEvent(c) \/ SeesShutdown(c) \/ Unregisters(c) \/ ClosesChannel(c)
      BY <2>1, <2>5
      DEF TakesEvent, SeesShutdown, Unregisters, ClosesChannel, LockHeldByReplay
    <2>6. CASE WritesFrame(c) \/ WriteFails(c)
      BY <2>1, <2>6 DEF WritesFrame, WritesPiece, WriteFails, LockHeldByReplay
    <2> QED
      BY <2>2, <2>3, <2>4, <2>5, <2>6 DEF HandleLogSubscribe
  <1>4. StreamersRegistered' /\ EventsSent'
    <2> USE DEF LogInv, StreamersRegistered, EventsSent
    <2>1. CASE MakesChannel(c)
      BY <2>1 DEF MakesChannel, TypeOK
    <2>2. CASE Replays(c)
      BY <2>2 DEF Replays, TypeOK
    <2>3. CASE Registers(c)
      BY <2>3 DEF Registers, TypeOK
    <2>4. CASE TakesEvent(c)
      <3>1. Head(channel[c]) \in Events
        BY <2>4 DEF TakesEvent, TypeOK
      <3> QED
        BY <2>4, <3>1 DEF TakesEvent, TypeOK
    <2>5. CASE SeesShutdown(c)
      BY <2>5 DEF SeesShutdown, TypeOK
    <2>6. CASE WritesFrame(c)
      <3>1. /\ handler \in [Connections -> HandlerStages]
            /\ UNCHANGED <<subscribers, closed, sending>>
            /\ \/ handler[c] = "length" /\ handler' = [handler EXCEPT ![c] = "payload"]
               \/ handler[c] = "payload" /\ handler' = [handler EXCEPT ![c] = "selecting"]
        BY <2>6 DEF WritesFrame, WritesPiece, TypeOK
      <3> QED
        BY <3>1
    <2>7. CASE WriteFails(c)
      BY <2>7 DEF WriteFails, TypeOK
    <2>8. CASE Unregisters(c)
      <3>1. /\ handler \in [Connections -> HandlerStages]
            /\ subscribers' = subscribers \ {c} /\ UNCHANGED <<closed, sending>>
            /\ handler[c] = "leaving" /\ handler' = [handler EXCEPT ![c] = "closing"]
        BY SMTT(30), <2>8 DEF Unregisters, TypeOK
      <3> QED
        BY <3>1
    <2>9. CASE ClosesChannel(c)
      BY <2>9 DEF ClosesChannel, TypeOK
    <2> QED
      BY <2>1, <2>2, <2>3, <2>4, <2>5, <2>6, <2>7, <2>8, <2>9
      DEF HandleLogSubscribe
  <1>5. ReplayFits'
    <2>1. CASE MakesChannel(c)
      BY <2>1, LogAssumption DEF MakesChannel, LogInv, ReplayFits, TypeOK, ringVars
    <2>2. CASE Replays(c)
      <3>1. channel[c] \in Seq(Events) /\ replayed[c] \in Nat /\ ringLength \in Nat
        BY LogAssumption DEF TypeOK
      <3>2. /\ Len(channel'[c]) = Len(channel[c]) + 1
            /\ replayed'[c] = replayed[c] + 1
            /\ replayed[c] < ringLength
        BY <2>2, <3>1 DEF Replays, TypeOK
      <3>3. ASSUME NEW d \in Connections, d # c
            PROVE  channel'[d] = channel[d] /\ replayed'[d] = replayed[d]
        BY <2>2, <3>3 DEF Replays, TypeOK
      <3> QED
        BY <2>2, <3>1, <3>2, <3>3 DEF Replays, LogInv, ReplayFits, ringVars
    <2>3. CASE Registers(c)
      BY <2>3 DEF Registers, LogInv, ReplayFits, TypeOK, ringVars
    <2>4. CASE TakesEvent(c)
      BY <2>4 DEF TakesEvent, LogInv, ReplayFits, TypeOK, ringVars
    <2>5. CASE SeesShutdown(c) \/ WritesFrame(c) \/ WriteFails(c)
      BY <2>5 DEF SeesShutdown, WritesFrame, WritesPiece, WriteFails, LogInv,
                  ReplayFits, TypeOK, ringVars
    <2>6. CASE Unregisters(c) \/ ClosesChannel(c)
      BY <2>6 DEF Unregisters, ClosesChannel, LogInv, ReplayFits, TypeOK, ringVars
    <2> QED
      BY <2>1, <2>2, <2>3, <2>4, <2>5, <2>6 DEF HandleLogSubscribe
  <1> QED
    BY <1>0, <1>2, <1>3, <1>4, <1>5, RingStands

LEMMA ClientLogInv ==
  ASSUME NEW c \in Connections, TypeOK, LogInv,
         Subscribe(c) \/ Reads(c) \/ DeadlinePasses(c) \/ Quits(c)
  PROVE  LogInv'
  <1> USE DEF clientFrame, ringVars, channelVars, daemonVars, historyVars, LogInv
  <1>1. CASE Subscribe(c)
    <2>1. handler[c] = "absent"
      BY <1>1 DEF Subscribe, HandlersServeClients
    <2>2. LockHeldByReplay' /\ StreamersRegistered' /\ EventsSent'
      BY <1>1, <2>1 DEF Subscribe, TypeOK, LockHeldByReplay, StreamersRegistered,
                        EventsSent
    <2>3. ReplayFits'
      BY <1>1, <2>1 DEF Subscribe, TypeOK, ReplayFits
    <2>4. HandlersServeClients'
      BY <1>1, <2>1 DEF Subscribe, TypeOK, HandlersServeClients
    <2> QED
      BY <1>1, <2>2, <2>3, <2>4, RingStands DEF Subscribe
  <1>2. CASE Reads(c) \/ DeadlinePasses(c) \/ Quits(c)
    <2> USE <1>2 DEF Reads, ReadsLength, ReadsPayload, ReadsEOF, DeadlinePasses,
                     Quits, Listening
    <2>1. HandlersServeClients'
      BY DEF TypeOK, HandlersServeClients
    <2>2. LockHeldByReplay' /\ StreamersRegistered' /\ EventsSent' /\ ReplayFits'
      BY DEF LockHeldByReplay, StreamersRegistered, EventsSent, ReplayFits
    <2> QED
      BY <2>1, <2>2, RingStands
  <1> QED
    BY <1>1, <1>2

LEMMA OtherLogInv ==
  ASSUME LogInv, Shutdown \/ DaemonExits \/ UNCHANGED vars
  PROVE  LogInv'
  BY RingStands
  DEF Shutdown, DaemonExits, vars, LogInv, LockHeldByReplay, ReplayFits,
      StreamersRegistered, HandlersServeClients, EventsSent,
      ringVars, channelVars, handlerVars, clientVars, daemonVars, historyVars

LEMMA NextLogInv == TypeOK /\ LogInv /\ [Next]_vars => LogInv'
  BY WriteLogInv, HandlerLogInv, ClientLogInv, OtherLogInv DEF Next

-----------------------------------------------------------------------------
(* Every variable of the log stream keeps its type: in particular no       *)
(* channel holds more than its capacity (log_broker.go, the non-blocking   *)
(* send), and what clients read are events.                                *)
THEOREM TypeCorrect == Safety => []TypeOK
  <1>1. Init => TypeOK /\ LogInv
    BY InitCorrect
  <1>2. TypeOK /\ LogInv /\ [Next]_vars => (TypeOK /\ LogInv)'
    BY NextTypeOK, NextLogInv
  <1> QED
    BY <1>1, <1>2, PTL DEF Safety

(* The inductive invariant of the broker and its handlers.                 *)
THEOREM LogInvariant == Safety => []LogInv
  <1>1. Init => TypeOK /\ LogInv
    BY InitCorrect
  <1>2. TypeOK /\ LogInv /\ [Next]_vars => (TypeOK /\ LogInv)'
    BY NextTypeOK, NextLogInv
  <1> QED
    BY <1>1, <1>2, PTL DEF Safety

(* The replay buffer holds the last events written, oldest first, for      *)
(* every size of the ring (LogBroker.Write).                               *)
THEOREM RingIsRecent == Safety => []RingHoldsRecent
  <1>1. LogInv => RingHoldsRecent
    BY DEF LogInv
  <1> QED
    BY <1>1, LogInvariant, PTL

(* Subscribe never blocks with the broker's lock held: the channel it made *)
(* has room for all of the replay, which nobody extends meanwhile.         *)
THEOREM ReplayFitsChannel == Safety => []ReplayNeverBlocks
  <1>1. TypeOK /\ LogInv => ReplayNeverBlocks
    BY LogAssumption DEF TypeOK, LogInv, ReplayFits, ReplayNeverBlocks, Full
  <1> QED
    BY <1>1, TypeCorrect, LogInvariant, PTL

(* Write never sends on a channel that Unsubscribe has closed.             *)
THEOREM SendsAreSafe == Safety => []NoSendOnClosedChannel
  <1>1. LogInv => NoSendOnClosedChannel
    BY DEF LogInv, StreamersRegistered, NoSendOnClosedChannel
  <1> QED
    BY <1>1, LogInvariant, PTL
-----------------------------------------------------------------------------
(***************************************************************************)
(* The stream of a client that listens.  A frame is whole: a length is     *)
(* followed by its payload, on the wire, in the handler's hand or in what  *)
(* the client reads next, so that the client takes events and nothing else *)
(* for events.  Before a channel is registered nothing is sent and the     *)
(* channel holds a copy of the ring's beginning, which stands still under  *)
(* the lock; from then on the stream is complete.                          *)
(***************************************************************************)
FramesWhole(c) ==
  Listening(c) =>
    /\ \A i \in DOMAIN socket[c] :
         socket[c][i][1] = "length" =>
           IF i = Len(socket[c]) THEN handler[c] = "payload"
                                 ELSE socket[c][i + 1][1] = "payload"
    /\ client[c] = "payload" =>
         IF socket[c] = <<>> THEN handler[c] = "payload"
                             ELSE Head(socket[c])[1] = "payload"

NothingSentYet(c) ==
  handler[c] \in {"absent", "waiting", "replaying"} =>
    received[c] = <<>> /\ socket[c] = <<>> /\ dropped[c] = {}

ReplayIsRecent(c) ==
  handler[c] = "replaying" =>
    /\ first[c] = written - ringLength + 1
    /\ \A i \in DOMAIN channel[c] : channel[c][i] = written - ringLength + i

PastOnly(c) == first[c] <= written + 1 /\ dropped[c] \subseteq 1 .. written

StreamComplete(c) ==
  c \in subscribers /\ Listening(c) =>
    InOrder(c) /\ Stream(c) = (first[c] .. written) \ dropped[c]

ConnectionInv(c) ==
  /\ FramesWhole(c)
  /\ NothingSentYet(c)
  /\ ReplayIsRecent(c)
  /\ PastOnly(c)
  /\ StreamComplete(c)

StreamInv == \A c \in Connections : ConnectionInv(c)

-----------------------------------------------------------------------------
(* Channels and what was received are sequences of increasing events.      *)
LEMMA SentAppend ==
  ASSUME NEW s \in Seq(Nat), NEW e \in Nat
  PROVE  /\ Sent(Append(s, e)) = Sent(s) \cup {e}
         /\ Increasing(s) /\ (\A x \in Sent(s) : x < e) => Increasing(Append(s, e))
  <1>1. /\ DOMAIN Append(s, e) = 1 .. Len(s) + 1 /\ DOMAIN s = 1 .. Len(s)
        /\ Len(s) \in Nat
        /\ Append(s, e)[Len(s) + 1] = e
        /\ \A i \in 1 .. Len(s) : Append(s, e)[i] = s[i]
    OBVIOUS
  <1>2. Sent(Append(s, e)) = Sent(s) \cup {e}
    <2>1. ASSUME NEW i \in 1 .. Len(s) + 1
          PROVE  Append(s, e)[i] \in Sent(s) \cup {e}
      BY <1>1 DEF Sent
    <2>2. ASSUME NEW i \in 1 .. Len(s)
          PROVE  s[i] \in Sent(Append(s, e))
      <3>1. i \in 1 .. Len(s) + 1
        BY <1>1
      <3> QED
        BY <1>1, <3>1 DEF Sent
    <2>3. e \in Sent(Append(s, e))
      <3>1. Len(s) + 1 \in 1 .. Len(s) + 1
        BY <1>1
      <3> QED
        BY <1>1, <3>1 DEF Sent
    <2> QED
      BY <1>1, <2>1, <2>2, <2>3 DEF Sent
  <1>3. ASSUME Increasing(s), \A x \in Sent(s) : x < e
        PROVE  Increasing(Append(s, e))
    <2> SUFFICES ASSUME NEW i \in 1 .. Len(s) + 1, NEW j \in 1 .. Len(s) + 1, i < j
                 PROVE  Append(s, e)[i] < Append(s, e)[j]
      BY <1>1 DEF Increasing
    <2>1. i \in 1 .. Len(s)
      BY <1>1
    <2>2. s[i] < e
      BY <1>1, <1>3, <2>1 DEF Sent
    <2> QED
      BY <1>1, <1>3, <2>1, <2>2 DEF Increasing
  <1> QED
    BY <1>2, <1>3

LEMMA SentTail ==
  ASSUME NEW s \in Seq(Nat), s # <<>>
  PROVE  /\ Sent(s) = {Head(s)} \cup Sent(Tail(s))
         /\ Head(s) \in Nat
         /\ Increasing(s) =>
              Increasing(Tail(s)) /\ \A x \in Sent(Tail(s)) : Head(s) < x
  <1>1. /\ DOMAIN Tail(s) = 1 .. Len(s) - 1 /\ DOMAIN s = 1 .. Len(s)
        /\ Len(s) \in Nat /\ Len(s) >= 1
        /\ Head(s) = s[1]
        /\ \A i \in 1 .. Len(s) - 1 : Tail(s)[i] = s[i + 1]
        /\ \A i \in 1 .. Len(s) : s[i] \in Nat
    OBVIOUS
  <1>2. Sent(s) = {Head(s)} \cup Sent(Tail(s))
    <2>1. ASSUME NEW i \in 1 .. Len(s)
          PROVE  s[i] \in {Head(s)} \cup Sent(Tail(s))
      <3>1. CASE i = 1
        BY <1>1, <3>1
      <3>2. CASE i # 1
        <4>1. i - 1 \in 1 .. Len(s) - 1 /\ (i - 1) + 1 = i
          BY <1>1, <3>2
        <4>2. Tail(s)[i - 1] = s[i]
          BY <1>1, <4>1
        <4> QED
          BY <1>1, <4>1, <4>2 DEF Sent
      <3> QED
        BY <3>1, <3>2
    <2>2. ASSUME NEW i \in 1 .. Len(s) - 1
          PROVE  Tail(s)[i] \in Sent(s)
      <3>1. i + 1 \in 1 .. Len(s)
        BY <1>1
      <3> QED
        BY <1>1, <3>1 DEF Sent
    <2>3. Head(s) \in Sent(s)
      <3>1. 1 \in 1 .. Len(s)
        BY <1>1
      <3> QED
        BY <1>1, <3>1 DEF Sent
    <2> QED
      BY <1>1, <2>1, <2>2, <2>3 DEF Sent
  <1>3. ASSUME Increasing(s)
        PROVE  Increasing(Tail(s)) /\ \A x \in Sent(Tail(s)) : Head(s) < x
    <2>1. ASSUME NEW i \in 1 .. Len(s) - 1
          PROVE  /\ Tail(s)[i] = s[i + 1] /\ i + 1 \in 1 .. Len(s)
                 /\ Head(s) < Tail(s)[i]
      BY <1>1, <1>3 DEF Increasing
    <2>2. Increasing(Tail(s))
      BY <1>1, <1>3, <2>1 DEF Increasing
    <2> QED
      BY <1>1, <2>1, <2>2 DEF Sent
  <1> QED
    BY <1>1, <1>2, <1>3

(* Of the pieces on the wire, the payloads carry the events.               *)
Wire(s) == {s[i][2] : i \in PayloadsAt(s)}
WireIncreasing(s) == \A i, j \in PayloadsAt(s) : i < j => s[i][2] < s[j][2]

LEMMA WireAppend ==
  ASSUME NEW s \in Seq(Pieces), NEW p \in Pieces
  PROVE  /\ p[1] = "length" => Wire(Append(s, p)) = Wire(s)
         /\ p[1] = "payload" => Wire(Append(s, p)) = Wire(s) \cup {p[2]}
         /\ WireIncreasing(s) /\ (p[1] = "length" \/ \A x \in Wire(s) : x < p[2])
              => WireIncreasing(Append(s, p))
  <1> DEFINE t == Append(s, p)
  <1>1. /\ DOMAIN t = 1 .. Len(s) + 1 /\ DOMAIN s = 1 .. Len(s)
        /\ Len(s) \in Nat
        /\ t[Len(s) + 1] = p
        /\ \A i \in 1 .. Len(s) : t[i] = s[i] /\ i \in 1 .. Len(s) + 1
        /\ \A i \in 1 .. Len(s) + 1 : i \in 1 .. Len(s) \/ i = Len(s) + 1
        /\ Len(s) + 1 \in 1 .. Len(s) + 1
    OBVIOUS
  <1> HIDE DEF t
  <1>2. /\ p[1] = "length" => PayloadsAt(t) = PayloadsAt(s)
        /\ p[1] = "payload" => PayloadsAt(t) = PayloadsAt(s) \cup {Len(s) + 1}
        /\ \A i \in PayloadsAt(s) : t[i] = s[i] /\ i \in 1 .. Len(s)
    BY <1>1 DEF PayloadsAt
  <1>3. /\ p[1] = "length" => Wire(t) = Wire(s)
        /\ p[1] = "payload" => Wire(t) = Wire(s) \cup {p[2]}
    BY <1>1, <1>2 DEF Wire
  <1>4. ASSUME WireIncreasing(s), p[1] = "length" \/ \A x \in Wire(s) : x < p[2]
        PROVE  WireIncreasing(t)
    <2> SUFFICES ASSUME NEW i \in PayloadsAt(t), NEW j \in PayloadsAt(t), i < j
                 PROVE  t[i][2] < t[j][2]
      BY DEF WireIncreasing
    <2>1. p[1] \in {"length", "payload"}
      BY DEF Pieces
    <2>2. i \in 1 .. Len(s) + 1 /\ j \in 1 .. Len(s) + 1
      BY <1>1 DEF PayloadsAt
    <2>3. i \in PayloadsAt(s)
      BY <1>1, <1>2, <2>1, <2>2
    <2>4. CASE j \in PayloadsAt(s)
      BY <1>2, <1>4, <2>3, <2>4 DEF WireIncreasing
    <2>5. CASE p[1] = "payload" /\ j = Len(s) + 1
      <3>1. s[i][2] \in Wire(s)
        BY <2>3 DEF Wire
      <3> QED
        BY <1>1, <1>2, <1>4, <2>3, <2>5, <3>1
    <2> QED
      BY <1>2, <2>1, <2>4, <2>5
  <1> QED
    BY <1>3, <1>4 DEF t

LEMMA WireTail ==
  ASSUME NEW s \in Seq(Pieces), s # <<>>
  PROVE  /\ Head(s)[1] = "length" => Wire(Tail(s)) = Wire(s)
         /\ Head(s)[1] = "payload" => Wire(s) = {Head(s)[2]} \cup Wire(Tail(s))
         /\ WireIncreasing(s) => WireIncreasing(Tail(s))
         /\ WireIncreasing(s) /\ Head(s)[1] = "payload" =>
              \A x \in Wire(Tail(s)) : Head(s)[2] < x
  <1> DEFINE t == Tail(s)
  <1>1. /\ DOMAIN t = 1 .. Len(s) - 1 /\ DOMAIN s = 1 .. Len(s)
        /\ Len(s) \in Nat /\ Len(s) >= 1
        /\ Head(s) = s[1]
        /\ \A i \in 1 .. Len(s) - 1 : t[i] = s[i + 1]
    OBVIOUS
  <1> HIDE DEF t
  <1>2. ASSUME NEW i \in PayloadsAt(t)
        PROVE  t[i] = s[i + 1] /\ i + 1 \in PayloadsAt(s) /\ i \in 1 .. Len(s) - 1
    BY <1>1 DEF PayloadsAt
  <1>3. ASSUME NEW i \in PayloadsAt(s)
        PROVE  \/ i = 1 /\ Head(s)[1] = "payload"
               \/ i - 1 \in PayloadsAt(t) /\ t[i - 1] = s[i]
    <2>1. i \in 1 .. Len(s) /\ s[i][1] = "payload"
      BY <1>1 DEF PayloadsAt
    <2>2. CASE i = 1
      BY <1>1, <2>1, <2>2
    <2>3. CASE i # 1
      <3>1. i - 1 \in 1 .. Len(s) - 1 /\ (i - 1) + 1 = i
        BY <1>1, <2>1, <2>3
      <3>2. t[i - 1] = s[i]
        BY <1>1, <3>1
      <3> QED
        BY <1>1, <2>1, <3>1, <3>2 DEF PayloadsAt
    <2> QED
      BY <2>2, <2>3
  <1>4. Head(s)[1] = "payload" => 1 \in PayloadsAt(s)
    BY <1>1 DEF PayloadsAt
  <1>5. Head(s)[1] = "length" => Wire(t) = Wire(s)
    BY <1>1, <1>2, <1>3 DEF Wire
  <1>6. Head(s)[1] = "payload" => Wire(s) = {Head(s)[2]} \cup Wire(t)
    BY <1>1, <1>2, <1>3, <1>4 DEF Wire
  <1>7. ASSUME WireIncreasing(s) PROVE WireIncreasing(t)
    BY <1>2, <1>7 DEF WireIncreasing
  <1>8. ASSUME WireIncreasing(s), Head(s)[1] = "payload", NEW x \in Wire(t)
        PROVE  Head(s)[2] < x
    <2>1. PICK i \in PayloadsAt(t) : x = t[i][2]
      BY DEF Wire
    <2> QED
      BY <1>1, <1>2, <1>4, <1>8, <2>1 DEF WireIncreasing
  <1> QED
    BY <1>5, <1>6, <1>7, <1>8 DEF t

-----------------------------------------------------------------------------
(* The stream as its places: what was received, the wire, the handler's    *)
(* hand and the channel.  An event that moves from one place to the next   *)
(* keeps the order and the whole.                                          *)
Whole(r, s, h, q, E) ==
  /\ Increasing(r) /\ WireIncreasing(s) /\ Increasing(q)
  /\ Precede(Sent(r), Wire(s) \cup h \cup Sent(q))
  /\ Precede(Wire(s), h \cup Sent(q))
  /\ Precede(h, Sent(q))
  /\ Sent(r) \cup Wire(s) \cup h \cup Sent(q) = E

LEMMA StreamIsWhole ==
  ASSUME NEW c \in Connections
  PROVE  StreamComplete(c) <=>
           (c \in subscribers /\ Listening(c) =>
              Whole(received[c], socket[c], InHand(c), channel[c],
                    (first[c] .. written) \ dropped[c]))
  BY DEF StreamComplete, InOrder, Stream, Whole, OnTheWire, Wire, WireIncreasing

LEMMA StreamIsWholeNext ==
  ASSUME NEW c \in Connections
  PROVE  StreamComplete(c)' <=>
           (c \in subscribers' /\ Listening(c)' =>
              Whole(received'[c], socket'[c], InHand(c)', channel'[c],
                    (first'[c] .. written') \ dropped'[c]))
  BY DEF StreamComplete, InOrder, Stream, Whole, OnTheWire, Wire, WireIncreasing

LEMMA WholeTaken ==
  ASSUME NEW r, NEW s, NEW q \in Seq(Nat), NEW E, Whole(r, s, {}, q, E), q # <<>>
  PROVE  Whole(r, s, {Head(q)}, Tail(q), E)
  <1>1. /\ Sent(q) = {Head(q)} \cup Sent(Tail(q))
        /\ Increasing(Tail(q)) /\ \A x \in Sent(Tail(q)) : Head(q) < x
    BY SentTail DEF Whole
  <1> QED
    BY <1>1 DEF Whole, Precede

LEMMA WholeWritten ==
  ASSUME NEW r, NEW s \in Seq(Pieces), NEW h \in Events, NEW q, NEW E,
         Whole(r, s, {h}, q, E)
  PROVE  /\ Whole(r, Append(s, <<"length", h>>), {h}, q, E)
         /\ Whole(r, Append(s, <<"payload", h>>), {}, q, E)
  <1>1. /\ <<"length", h>> \in Pieces /\ <<"payload", h>> \in Pieces
        /\ <<"length", h>>[1] = "length" /\ <<"payload", h>>[1] = "payload"
        /\ <<"payload", h>>[2] = h
    BY DEF Pieces
  <1>2. WireIncreasing(s) /\ \A x \in Wire(s) : x < h
    BY DEF Whole, Precede
  <1>3. /\ Wire(Append(s, <<"length", h>>)) = Wire(s)
        /\ WireIncreasing(Append(s, <<"length", h>>))
    BY <1>1, <1>2, WireAppend
  <1>4. /\ Wire(Append(s, <<"payload", h>>)) = Wire(s) \cup {h}
        /\ WireIncreasing(Append(s, <<"payload", h>>))
    BY <1>1, <1>2, WireAppend
  <1>5. Whole(r, Append(s, <<"length", h>>), {h}, q, E)
    BY <1>3 DEF Whole
  <1>6. Whole(r, Append(s, <<"payload", h>>), {}, q, E)
    BY <1>4 DEF Whole, Precede
  <1> QED
    BY <1>5, <1>6

LEMMA WholeRead ==
  ASSUME NEW r \in Seq(Nat), NEW s \in Seq(Pieces), NEW h, NEW q, NEW E,
         Whole(r, s, h, q, E), s # <<>>
  PROVE  /\ Head(s)[1] = "length" => Whole(r, Tail(s), h, q, E)
         /\ Head(s)[1] = "payload" => Whole(Append(r, Head(s)[2]), Tail(s), h, q, E)
  <1>1. Head(s)[2] \in Nat
    <2>1. Head(s) \in Pieces
      OBVIOUS
    <2> QED
      BY <2>1 DEF Pieces, Events
  <1>2. WireIncreasing(Tail(s))
    BY WireTail DEF Whole
  <1>3. CASE Head(s)[1] = "length"
    <2>1. Wire(Tail(s)) = Wire(s)
      BY <1>3, WireTail
    <2> QED
      BY <1>2, <1>3, <2>1 DEF Whole
  <1>4. CASE Head(s)[1] = "payload"
    <2>1. /\ Wire(s) = {Head(s)[2]} \cup Wire(Tail(s))
          /\ \A x \in Wire(Tail(s)) : Head(s)[2] < x
      BY <1>4, WireTail DEF Whole
    <2>2. \A x \in Sent(r) : x < Head(s)[2]
      BY <2>1 DEF Whole, Precede
    <2>3. /\ Sent(Append(r, Head(s)[2])) = Sent(r) \cup {Head(s)[2]}
          /\ Increasing(Append(r, Head(s)[2]))
      BY <1>1, <2>2, SentAppend DEF Whole
    <2> QED
      BY <1>2, <1>4, <2>1, <2>3 DEF Whole, Precede
  <1> QED
    BY <1>3, <1>4

LEMMA WholeExtended ==
  ASSUME NEW r, NEW s, NEW h, NEW q \in Seq(Nat), NEW E, NEW e \in Nat,
         Whole(r, s, h, q, E), \A x \in E : x < e
  PROVE  Whole(r, s, h, Append(q, e), E \cup {e})
  <1>1. \A x \in Sent(q) : x < e
    BY DEF Whole
  <1>2. Sent(Append(q, e)) = Sent(q) \cup {e} /\ Increasing(Append(q, e))
    BY <1>1, SentAppend DEF Whole
  <1> QED
    BY <1>2 DEF Whole, Precede

(* What Subscribe has replayed is the stream of a client that was sent     *)
(* nothing else.                                                           *)
LEMMA WholeReplay ==
  ASSUME NEW q \in Seq(Nat), NEW lo \in Nat, NEW hi \in Nat,
         Len(q) = hi - lo + 1, lo <= hi + 1,
         \A i \in DOMAIN q : q[i] = lo + i - 1
  PROVE  Whole(<<>>, <<>>, {}, q, lo .. hi)
  <1>1. Sent(<<>>) = {} /\ Wire(<<>>) = {}
    BY DEF Sent, Wire, PayloadsAt
  <1>2. Increasing(<<>>) /\ WireIncreasing(<<>>)
    BY DEF Increasing, WireIncreasing, PayloadsAt
  <1>3. DOMAIN q = 1 .. hi - lo + 1
    OBVIOUS
  <1>4. Increasing(q)
    BY <1>3 DEF Increasing
  <1>5. Sent(q) = lo .. hi
    <2>1. ASSUME NEW x \in lo .. hi
          PROVE  x \in Sent(q)
      <3>1. x - lo + 1 \in DOMAIN q /\ lo + (x - lo + 1) - 1 = x
        BY <1>3
      <3>2. q[x - lo + 1] = x
        BY <3>1
      <3> QED
        BY <3>1, <3>2 DEF Sent
    <2>2. \A i \in DOMAIN q : q[i] \in lo .. hi
      BY <1>3
    <2> QED
      BY <2>1, <2>2 DEF Sent
  <1> QED
    BY <1>1, <1>2, <1>4, <1>5 DEF Whole, Precede

-----------------------------------------------------------------------------
LEMMA StreamInit == Init => StreamInv
  <1> SUFFICES ASSUME Init, NEW c \in Connections PROVE ConnectionInv(c)
    BY DEF StreamInv
  <1> USE LogAssumption DEF Init
  <1>1. FramesWhole(c) /\ ReplayIsRecent(c) /\ StreamComplete(c)
    BY DEF FramesWhole, ReplayIsRecent, StreamComplete, Listening
  <1>2. NothingSentYet(c) /\ PastOnly(c)
    BY DEF NothingSentYet, PastOnly
  <1> QED
    BY <1>1, <1>2 DEF ConnectionInv

(* A step leaves alone the connections it does not touch, unless it writes.*)
LEMMA Untouched ==
  ASSUME NEW d \in Connections, ConnectionInv(d),
         UNCHANGED <<written, ringLength>>,
         channel'[d] = channel[d], handler'[d] = handler[d],
         sending'[d] = sending[d], socket'[d] = socket[d],
         client'[d] = client[d], received'[d] = received[d],
         first'[d] = first[d], dropped'[d] = dropped[d],
         d \in subscribers' <=> d \in subscribers
  PROVE  ConnectionInv(d)'
  <1>1. FramesWhole(d)' /\ NothingSentYet(d)' /\ ReplayIsRecent(d)' /\ PastOnly(d)'
    BY DEF ConnectionInv, FramesWhole, NothingSentYet, ReplayIsRecent, PastOnly,
           Listening
  <1>2. InHand(d)' = InHand(d) /\ Listening(d)' = Listening(d)
    BY DEF InHand, Listening
  <1>3. StreamComplete(d)'
    BY <1>2, StreamIsWhole, StreamIsWholeNext DEF ConnectionInv
  <1> QED
    BY <1>1, <1>3 DEF ConnectionInv

LEMMA StreamTypes ==
  ASSUME TypeOK, NEW c \in Connections
  PROVE  /\ received[c] \in Seq(Nat) /\ channel[c] \in Seq(Nat)
         /\ socket[c] \in Seq(Pieces)
         /\ written \in Nat /\ ringLength \in Nat /\ first[c] \in Nat
         /\ dropped[c] \subseteq Events
  <1>1. received[c] \in Seq(Events) /\ channel[c] \in Seq(Events)
    BY DEF TypeOK
  <1>2. Events \subseteq Nat
    BY LogAssumption DEF Events
  <1>3. received[c] \in Seq(Nat) /\ channel[c] \in Seq(Nat)
    <2>1. ASSUME NEW s \in Seq(Events)
          PROVE  s \in Seq(Nat)
      <3>1. Len(s) \in Nat /\ s \in [1 .. Len(s) -> Events]
        OBVIOUS
      <3>2. s \in [1 .. Len(s) -> Nat]
        BY <1>2, <3>1
      <3> QED
        BY <3>1, <3>2
    <2> QED
      BY <1>1, <2>1
  <1>4. socket[c] \in Seq(Pieces) /\ dropped[c] \subseteq Events
    BY DEF TypeOK
  <1>5. written \in 0 .. MaxEvents /\ ringLength \in 0 .. RingSize
    BY DEF TypeOK
  <1>6. first[c] \in 1 .. MaxEvents + 1
    BY DEF TypeOK
  <1> QED
    BY <1>3, <1>4, <1>5, <1>6, LogAssumption

LEMMA WriteStream ==
  ASSUME TypeOK, LogInv, StreamInv, Write
  PROVE  StreamInv'
  <1> SUFFICES ASSUME NEW c \in Connections PROVE ConnectionInv(c)'
    BY DEF StreamInv
  <1> DEFINE e == written + 1
  <1>0. /\ written \in Nat /\ first[c] \in Nat /\ channel[c] \in Seq(Nat)
        /\ e \in Nat /\ ConnectionInv(c)
    BY StreamTypes DEF StreamInv
  <1>1. /\ written' = e
        /\ UNCHANGED <<subscribers, handler, sending, socket, client, received, first>>
        /\ channel'[c] = IF c \in subscribers /\ ~Full(c) THEN Append(channel[c], e)
                                                         ELSE channel[c]
        /\ dropped'[c] = IF c \in subscribers /\ Full(c) THEN dropped[c] \cup {e}
                                                        ELSE dropped[c]
    BY DEF Write, FanOut, handlerVars, clientVars
  <1>2. handler[c] # "replaying"
    BY LogAssumption DEF LogInv, LockHeldByReplay, Write
  <1>3. FramesWhole(c)' /\ ReplayIsRecent(c)'
    BY <1>0, <1>1, <1>2 DEF ConnectionInv, FramesWhole, ReplayIsRecent, Listening
  <1>4. NothingSentYet(c)'
    BY <1>0, <1>1 DEF ConnectionInv, NothingSentYet, LogInv, StreamersRegistered
  <1>5. PastOnly(c)'
    <2>1. first[c] <= written + 1 /\ dropped[c] \subseteq 1 .. written
      BY <1>0 DEF ConnectionInv, PastOnly
    <2>2. dropped'[c] \subseteq 1 .. e
      BY <1>0, <1>1, <2>1
    <2> QED
      BY <1>0, <1>1, <2>1, <2>2 DEF PastOnly
  <1>6. StreamComplete(c)'
    <2> SUFFICES ASSUME c \in subscribers, Listening(c)
                 PROVE  Whole(received'[c], socket'[c], InHand(c)', channel'[c],
                              (first'[c] .. written') \ dropped'[c])
      BY <1>1, StreamIsWholeNext DEF Listening
    <2> DEFINE E == (first[c] .. written) \ dropped[c]
    <2>1. Whole(received[c], socket[c], InHand(c), channel[c], E)
      BY <1>0, StreamIsWhole DEF ConnectionInv
    <2>2. InHand(c)' = InHand(c)
      BY <1>1 DEF InHand
    <2>3. first[c] <= written + 1 /\ dropped[c] \subseteq 1 .. written
      BY <1>0 DEF ConnectionInv, PastOnly
    <2>4. CASE Full(c)
      <3>1. (first[c] .. e) \ (dropped[c] \cup {e}) = E
        BY <1>0, <2>3
      <3> QED
        BY <1>1, <2>1, <2>2, <2>4, <3>1
    <2>5. CASE ~Full(c)
      <3>1. (first[c] .. e) \ dropped[c] = E \cup {e}
        BY <1>0, <2>3
      <3>2. \A x \in E : x < e
        BY <1>0
      <3> HIDE DEF E, e
      <3>3. Whole(received[c], socket[c], InHand(c), Append(channel[c], e), E \cup {e})
        BY <1>0, <2>1, <3>2, WholeExtended
      <3> QED
        BY <1>1, <2>2, <2>5, <3>1, <3>3
    <2> QED
      BY <2>4, <2>5
  <1> QED
    BY <1>3, <1>4, <1>5, <1>6 DEF ConnectionInv

(* A handler touches its own connection only.                              *)
LEMMA HandlerTouches ==
  ASSUME TypeOK, NEW c \in Connections, HandleLogSubscribe(c)
  PROVE  /\ UNCHANGED <<written, ringLength, client, received, dropped>>
         /\ \A d \in Connections \ {c} :
              /\ channel'[d] = channel[d] /\ handler'[d] = handler[d]
              /\ sending'[d] = sending[d] /\ socket'[d] = socket[d]
              /\ first'[d] = first[d]
              /\ d \in subscribers' <=> d \in subscribers
  <1> USE DEF HandlerMoves, ringVars, channelVars, handlerVars, clientVars,
              daemonVars, historyVars, TypeOK
  <1>1. CASE MakesChannel(c) \/ Replays(c)
    BY <1>1 DEF MakesChannel, Replays
  <1>2. CASE Registers(c) \/ TakesEvent(c)
    BY <1>2 DEF Registers, TakesEvent
  <1>3. CASE SeesShutdown(c) \/ WritesFrame(c) \/ WriteFails(c)
    BY <1>3 DEF SeesShutdown, WritesFrame, WritesPiece, WriteFails
  <1>4. CASE Unregisters(c) \/ ClosesChannel(c)
    BY <1>4 DEF Unregisters, ClosesChannel
  <1> QED
    BY <1>1, <1>2, <1>3, <1>4 DEF HandleLogSubscribe

LEMMA ReplayStream ==
  ASSUME TypeOK, LogInv, NEW c \in Connections, ConnectionInv(c),
         MakesChannel(c) \/ Replays(c) \/ Registers(c)
  PROVE  ConnectionInv(c)'
  <1> USE DEF HandlerMoves, ringVars, channelVars, handlerVars, clientVars,
              daemonVars, historyVars
  <1>0. /\ channel[c] \in Seq(Nat)
        /\ written \in Nat /\ ringLength \in Nat /\ first[c] \in Nat
        /\ ringLength <= written
    <2>1. ringLength = IF written < RingSize THEN written ELSE RingSize
      BY DEF LogInv, RingHoldsRecent
    <2> QED
      BY <2>1, StreamTypes, LogAssumption
  <1>1. /\ UNCHANGED <<written, ringLength, client, received, dropped, socket>>
        /\ handler[c] \in {"waiting", "replaying"}
        /\ handler'[c] \in {"replaying", "selecting"}
    BY DEF MakesChannel, Replays, Registers, TypeOK
  <1>2. received[c] = <<>> /\ socket[c] = <<>> /\ dropped[c] = {}
    BY <1>1 DEF ConnectionInv, NothingSentYet
  <1>3. Listening(c) => client[c] # "payload"
    BY <1>1, <1>2 DEF ConnectionInv, FramesWhole
  <1>4. FramesWhole(c)'
    <2>1. DOMAIN socket'[c] = {}
      BY <1>1, <1>2
    <2> QED
      BY <1>1, <1>3, <2>1 DEF FramesWhole, Listening
  <1>5. NothingSentYet(c)'
    BY <1>1, <1>2 DEF NothingSentYet
  <1>6. CASE MakesChannel(c)
    <2>1. /\ first'[c] = written - ringLength + 1 /\ channel'[c] = channel[c]
          /\ subscribers' = subscribers /\ handler[c] = "waiting"
      BY <1>6 DEF MakesChannel, TypeOK
    <2>2. channel[c] = <<>> /\ c \notin subscribers
      BY <2>1 DEF LogInv, ReplayFits, StreamersRegistered
    <2>3. DOMAIN channel'[c] = {}
      BY <2>1, <2>2
    <2>4. ReplayIsRecent(c)' /\ StreamComplete(c)'
      BY <1>1, <2>1, <2>2, <2>3 DEF ReplayIsRecent, StreamComplete
    <2>5. PastOnly(c)'
      BY <1>0, <1>1, <2>1 DEF ConnectionInv, PastOnly
    <2> QED
      BY <1>4, <1>5, <2>4, <2>5 DEF ConnectionInv
  <1>7. CASE Replays(c)
    <2>1. /\ channel'[c] =
               Append(channel[c], ring[(ringHead + replayed[c]) % RingSize])
          /\ first' = first /\ subscribers' = subscribers
          /\ handler[c] = "replaying" /\ replayed[c] < ringLength
      BY <1>7 DEF Replays, TypeOK
    <2>2. c \notin subscribers
      BY <2>1 DEF LogInv, StreamersRegistered
    <2>3. replayed[c] \in 0 .. ringLength - 1 /\ Len(channel[c]) = replayed[c]
      BY <1>0, <2>1, LogAssumption DEF LogInv, ReplayFits, TypeOK
    <2>4. ring[(ringHead + replayed[c]) % RingSize]
            = written - ringLength + 1 + replayed[c]
      BY <2>3 DEF LogInv, RingHoldsRecent
    <2>5. /\ first[c] = written - ringLength + 1
          /\ \A i \in DOMAIN channel[c] : channel[c][i] = written - ringLength + i
      BY <2>1 DEF ConnectionInv, ReplayIsRecent
    <2>6. \A i \in DOMAIN channel'[c] : channel'[c][i] = written - ringLength + i
      <3> SUFFICES ASSUME NEW i \in DOMAIN channel'[c]
                   PROVE  channel'[c][i] = written - ringLength + i
        OBVIOUS
      <3>1. i \in 1 .. replayed[c] + 1
        BY <1>0, <2>1, <2>3
      <3>2. CASE i = replayed[c] + 1
        BY <1>0, <2>1, <2>3, <2>4, <3>2
      <3>3. CASE i # replayed[c] + 1
        BY <1>0, <2>1, <2>3, <2>5, <3>1, <3>3
      <3> QED
        BY <3>2, <3>3
    <2>7. ReplayIsRecent(c)' /\ StreamComplete(c)'
      BY <1>1, <2>1, <2>2, <2>5, <2>6 DEF ReplayIsRecent, StreamComplete
    <2>8. PastOnly(c)'
      BY <1>1, <2>1 DEF ConnectionInv, PastOnly
    <2> QED
      BY <1>4, <1>5, <2>7, <2>8 DEF ConnectionInv
  <1>8. CASE Registers(c)
    <2>1. /\ channel'[c] = channel[c] /\ first' = first
          /\ handler[c] = "replaying" /\ handler'[c] = "selecting"
          /\ replayed[c] >= ringLength
      BY <1>8 DEF Registers, TypeOK
    <2>2. Len(channel[c]) = ringLength
      BY SMTT(30), <1>0, <2>1, LogAssumption DEF LogInv, ReplayFits, TypeOK
    <2>3. /\ first[c] = written - ringLength + 1
          /\ \A i \in DOMAIN channel[c] : channel[c][i] = written - ringLength + i
      BY <2>1 DEF ConnectionInv, ReplayIsRecent
    <2>4. Whole(<<>>, <<>>, {}, channel[c], first[c] .. written)
      <3>1. /\ Len(channel[c]) = written - first[c] + 1 /\ first[c] <= written + 1
            /\ \A i \in DOMAIN channel[c] : channel[c][i] = first[c] + i - 1
        BY <1>0, <2>2, <2>3
      <3> QED
        BY <1>0, <3>1, WholeReplay
    <2>5. InHand(c)' = {} /\ (first[c] .. written) \ dropped[c] = first[c] .. written
      BY <1>2, <2>1 DEF InHand
    <2>6. StreamComplete(c)'
      BY <1>1, <1>2, <2>1, <2>4, <2>5, StreamIsWholeNext
    <2>7. ReplayIsRecent(c)' /\ PastOnly(c)'
      BY <1>1, <2>1 DEF ConnectionInv, PastOnly, ReplayIsRecent
    <2> QED
      BY <1>4, <1>5, <2>6, <2>7 DEF ConnectionInv
  <1> QED
    BY <1>6, <1>7, <1>8

LEMMA SendStream ==
  ASSUME TypeOK, LogInv, NEW c \in Connections, ConnectionInv(c),
         TakesEvent(c) \/ WritesFrame(c)
  PROVE  ConnectionInv(c)'
  <1> USE DEF HandlerMoves, ringVars, channelVars, handlerVars, clientVars,
              daemonVars, historyVars
  <1> DEFINE E == (first[c] .. written) \ dropped[c]
  <1>0. channel[c] \in Seq(Nat) /\ socket[c] \in Seq(Pieces)
    BY StreamTypes
  <1>1. /\ UNCHANGED <<written, ringLength, client, received, first, dropped,
                       subscribers>>
        /\ handler[c] \in {"selecting", "length", "payload"}
        /\ handler'[c] \in {"selecting", "length", "payload"}
    BY DEF TakesEvent, WritesFrame, WritesPiece, TypeOK
  <1>2. NothingSentYet(c)' /\ ReplayIsRecent(c)' /\ PastOnly(c)'
    BY <1>1 DEF ConnectionInv, NothingSentYet, ReplayIsRecent, PastOnly
  <1>3. Listening(c)' = Listening(c) /\ c \in subscribers
    BY <1>1 DEF Listening, LogInv, StreamersRegistered
  <1>4. Listening(c) => Whole(received[c], socket[c], InHand(c), channel[c], E)
    BY <1>3, StreamIsWhole DEF ConnectionInv
  <1>5. CASE TakesEvent(c)
    <2>1. /\ handler[c] = "selecting" /\ handler'[c] = "length"
          /\ channel[c] # <<>> /\ channel'[c] = Tail(channel[c])
          /\ sending'[c] = Head(channel[c])
          /\ socket' = socket
      BY <1>5 DEF TakesEvent, TypeOK
    <2>2. InHand(c) = {} /\ InHand(c)' = {Head(channel[c])}
      BY <2>1 DEF InHand
    <2>3. FramesWhole(c)'
      BY <1>1, <1>3, <2>1 DEF ConnectionInv, FramesWhole
    <2> HIDE DEF E
    <2>4. Listening(c) => Whole(received[c], socket[c], InHand(c)', channel'[c], E)
      BY <1>0, <1>4, <2>1, <2>2, WholeTaken
    <2>5. StreamComplete(c)'
      BY <1>1, <1>3, <2>1, <2>4, StreamIsWholeNext DEF E
    <2> QED
      BY <1>2, <2>3, <2>5 DEF ConnectionInv
  <1>6. CASE WritesFrame(c)
    <2>1. PICK piece \in {"length", "payload"} :
            /\ handler[c] = piece
            /\ handler'[c] = IF piece = "length" THEN "payload" ELSE "selecting"
            /\ socket'[c] = Append(socket[c], <<piece, sending[c]>>)
            /\ channel' = channel /\ sending' = sending
            /\ Listening(c)
      BY <1>6 DEF WritesFrame, WritesPiece, TypeOK
    <2>2. sending[c] \in Events
      BY <2>1 DEF LogInv, EventsSent
    <2>3. /\ InHand(c) = {sending[c]}
          /\ InHand(c)' = IF piece = "length" THEN {sending[c]} ELSE {}
      BY <2>1 DEF InHand
    <2> HIDE DEF E
    <2>4. Whole(received[c], socket'[c], InHand(c)', channel[c], E)
      <3>1. Whole(received[c], socket[c], {sending[c]}, channel[c], E)
        BY <1>4, <2>1, <2>3
      <3>2. /\ Whole(received[c], Append(socket[c], <<"length", sending[c]>>),
                     {sending[c]}, channel[c], E)
            /\ Whole(received[c], Append(socket[c], <<"payload", sending[c]>>),
                     {}, channel[c], E)
        BY <1>0, <2>2, <3>1, WholeWritten
      <3>3. CASE piece = "length"
        BY <2>1, <2>3, <3>2, <3>3
      <3>4. CASE piece = "payload"
        BY <2>1, <2>3, <3>2, <3>4
      <3> QED
        BY <3>3, <3>4
    <2>5. StreamComplete(c)'
      BY <1>1, <2>1, <2>4, StreamIsWholeNext DEF E
    <2>6. FramesWhole(c)'
      <3> DEFINE s == socket[c]
                 t == Append(s, <<piece, sending[c]>>)
      <3>1. /\ \A i \in DOMAIN s :
                 s[i][1] = "length" =>
                   IF i = Len(s) THEN piece = "payload" ELSE s[i + 1][1] = "payload"
            /\ client[c] = "payload" =>
                 IF s = <<>> THEN piece = "payload" ELSE Head(s)[1] = "payload"
        BY <2>1 DEF ConnectionInv, FramesWhole
      <3>2. /\ DOMAIN s = 1 .. Len(s) /\ DOMAIN t = 1 .. Len(s) + 1
            /\ Len(t) = Len(s) + 1 /\ Len(s) \in Nat /\ t # <<>>
            /\ \A i \in 1 .. Len(s) : t[i] = s[i]
            /\ t[Len(s) + 1] = <<piece, sending[c]>>
            /\ Head(t) = t[1] /\ Head(s) = s[1]
            /\ s = <<>> <=> Len(s) = 0
        <4>1. s \in Seq(Pieces) /\ Len(s) \in Nat
          BY <1>0
        <4> HIDE DEF s
        <4> QED
          BY <4>1
      <3> HIDE DEF s, t
      <3>3. <<piece, sending[c]>>[1] = piece
        OBVIOUS
      <3>4. ASSUME NEW i \in DOMAIN t, t[i][1] = "length"
            PROVE  IF i = Len(t) THEN handler'[c] = "payload"
                                 ELSE t[i + 1][1] = "payload"
        <4>1. CASE i = Len(s) + 1
          BY SMTT(30), <2>1, <3>2, <3>3, <3>4, <4>1
        <4>2. CASE i = Len(s)
          <5>1. i \in 1 .. Len(s) /\ s[i][1] = "length"
            BY <3>2, <3>4, <4>2
          <5> QED
            BY <3>1, <3>2, <3>3, <4>2, <5>1
        <4>3. CASE i < Len(s)
          <5>1. i \in 1 .. Len(s) /\ i + 1 \in 1 .. Len(s) /\ s[i][1] = "length"
            BY <3>2, <3>4, <4>3
          <5> QED
            BY <3>1, <3>2, <4>3, <5>1
        <4> QED
          BY <3>2, <4>1, <4>2, <4>3
      <3>5. client[c] = "payload" => Head(t)[1] = "payload"
        <4>1. CASE Len(s) = 0
          BY <3>1, <3>2, <3>3, <4>1
        <4>2. CASE Len(s) # 0
          <5>1. 1 \in 1 .. Len(s)
            BY <3>2, <4>2
          <5> QED
            BY <3>1, <3>2, <4>2, <5>1
        <4> QED
          BY <4>1, <4>2
      <3>6. socket'[c] = t
        BY <2>1 DEF s, t
      <3> QED
        BY <1>1, <3>2, <3>4, <3>5, <3>6 DEF FramesWhole
    <2> QED
      BY <1>2, <2>5, <2>6 DEF ConnectionInv
  <1> QED
    BY <1>5, <1>6

LEMMA LeaveStream ==
  ASSUME TypeOK, LogInv, NEW c \in Connections, ConnectionInv(c),
         SeesShutdown(c) \/ WriteFails(c) \/ Unregisters(c) \/ ClosesChannel(c)
  PROVE  ConnectionInv(c)'
  <1> USE DEF HandlerMoves, ringVars, channelVars, handlerVars, clientVars,
              daemonVars, historyVars
  <1>1. /\ UNCHANGED <<written, ringLength, client, received, first, dropped,
                       socket, channel, sending>>
        /\ handler[c] \notin {"absent", "waiting", "replaying"}
        /\ handler'[c] \in {"leaving", "closing", "done"}
        /\ c \in subscribers' => c \in subscribers
        /\ handler[c] \in {"length", "payload"} => ~Listening(c)
    BY DEF SeesShutdown, WriteFails, Unregisters, ClosesChannel, TypeOK
  <1>2. NothingSentYet(c)' /\ ReplayIsRecent(c)' /\ PastOnly(c)'
    BY <1>1 DEF ConnectionInv, NothingSentYet, ReplayIsRecent, PastOnly
  <1>3. Listening(c)' = Listening(c)
    BY <1>1 DEF Listening
  <1>4. FramesWhole(c)'
    BY <1>1, <1>3 DEF ConnectionInv, FramesWhole
  <1>5. Listening(c) => InHand(c)' = InHand(c)
    BY <1>1 DEF InHand
  <1>6. StreamComplete(c)'
    BY <1>1, <1>3, <1>5, StreamIsWhole, StreamIsWholeNext DEF ConnectionInv
  <1> QED
    BY <1>2, <1>4, <1>6 DEF ConnectionInv

LEMMA TailOf ==
  ASSUME NEW s \in Seq(Pieces), s # <<>>
  PROVE  /\ DOMAIN s = 1 .. Len(s) /\ DOMAIN Tail(s) = 1 .. Len(s) - 1
         /\ Len(Tail(s)) = Len(s) - 1 /\ Len(s) \in Nat \ {0}
         /\ Head(s) = s[1] /\ (Tail(s) # <<>> => Head(Tail(s)) = Tail(s)[1])
         /\ \A i \in 1 .. Len(s) - 1 : Tail(s)[i] = s[i + 1]
         /\ Tail(s) = <<>> <=> Len(s) = 1
  <1>1. Len(Tail(s)) = Len(s) - 1 /\ Len(s) \in Nat \ {0} /\ Tail(s) \in Seq(Pieces)
    OBVIOUS
  <1>2. \A u \in Seq(Pieces) : u = <<>> <=> Len(u) = 0
    OBVIOUS
  <1>3. Tail(s) = <<>> <=> Len(s) = 1
    BY <1>1, <1>2
  <1>4. /\ DOMAIN s = 1 .. Len(s) /\ DOMAIN Tail(s) = 1 .. Len(s) - 1
        /\ \A i \in 1 .. Len(s) - 1 : Tail(s)[i] = s[i + 1]
        /\ Head(s) = s[1]
    OBVIOUS
  <1>5. \A u \in Seq(Pieces) : u # <<>> => Head(u) = u[1]
    OBVIOUS
  <1> QED
    BY <1>1, <1>3, <1>4, <1>5

LEMMA ReadStream ==
  ASSUME TypeOK, LogInv, NEW c \in Connections, ConnectionInv(c),
         Reads(c) \/ DeadlinePasses(c) \/ Quits(c)
  PROVE  ConnectionInv(c)'
  <1> USE DEF clientFrame, ringVars, channelVars, daemonVars, historyVars
  <1> DEFINE E == (first[c] .. written) \ dropped[c]
             s == socket[c]
  <1>0. received[c] \in Seq(Nat) /\ s \in Seq(Pieces)
    BY StreamTypes
  <1>1. /\ UNCHANGED <<written, ringLength, first, dropped, subscribers, channel,
                       handler, sending>>
        /\ Listening(c)
    BY DEF Reads, ReadsLength, ReadsPayload, ReadsEOF, DeadlinePasses, Quits, Listening
  <1>2. ReplayIsRecent(c)' /\ PastOnly(c)'
    BY <1>1 DEF ConnectionInv, ReplayIsRecent, PastOnly
  <1>3. InHand(c)' = InHand(c)
    BY <1>1 DEF InHand
  <1>4. c \in subscribers => Whole(received[c], s, InHand(c), channel[c], E)
    BY <1>1, StreamIsWhole DEF ConnectionInv
  <1>5. /\ \A i \in DOMAIN s :
             s[i][1] = "length" =>
               IF i = Len(s) THEN handler[c] = "payload" ELSE s[i + 1][1] = "payload"
        /\ client[c] = "payload" =>
             IF s = <<>> THEN handler[c] = "payload" ELSE Head(s)[1] = "payload"
    BY <1>1 DEF ConnectionInv, FramesWhole
  <1>6. CASE s = <<>> \/ UNCHANGED <<socket, received>>
    <2>1. /\ socket' = socket /\ received' = received
          /\ ~Listening(c)' \/ client'[c] = "length"
      <3>1. CASE Quits(c) \/ ReadsEOF(c) \/ DeadlinePasses(c)
        BY <3>1 DEF Quits, ReadsEOF, DeadlinePasses, Listening, TypeOK
      <3>2. CASE ReadsLength(c)
        <4>1. s # <<>>
          BY <3>2 DEF ReadsLength
        <4>2. socket' = socket /\ received' = received
          BY <1>6, <4>1
        <4>3. s # Tail(s)
          <5>1. Len(Tail(s)) # Len(s)
            BY <1>0, <4>1
          <5> QED
            BY <5>1
        <4>4. client'[c] = "ended"
          BY <3>2, <4>2, <4>3 DEF ReadsLength, TypeOK
        <4> QED
          BY <4>2, <4>4 DEF Listening
      <3>3. CASE ReadsPayload(c)
        <4>1. s # <<>>
          BY <3>3 DEF ReadsPayload
        <4>2. s # Tail(s)
          <5>1. Len(Tail(s)) # Len(s)
            BY <1>0, <4>1
          <5> QED
            BY <5>1
        <4> QED
          BY <1>6, <3>3, <4>1, <4>2 DEF ReadsPayload, TypeOK
      <3> QED
        BY <3>1, <3>2, <3>3 DEF Reads
    <2>2. NothingSentYet(c)'
      BY <1>1, <2>1 DEF ConnectionInv, NothingSentYet
    <2>3. FramesWhole(c)'
      BY <1>1, <1>5, <2>1 DEF FramesWhole
    <2>4. StreamComplete(c)'
      BY <1>1, <1>3, <1>4, <2>1, StreamIsWholeNext
    <2> QED
      BY <1>2, <2>2, <2>3, <2>4 DEF ConnectionInv
  <1>7. CASE s # <<>> /\ ~(UNCHANGED <<socket, received>>)
    <2> DEFINE t == Tail(s)
    <2>1. /\ socket'[c] = t
          /\ \/ /\ Head(s)[1] = "length" /\ client'[c] = "payload"
                /\ received'[c] = received[c]
             \/ /\ Head(s)[1] = "payload" /\ client'[c] = "length"
                /\ received'[c] = Append(received[c], Head(s)[2])
      <3>1. CASE ReadsLength(c)
        BY <1>7, <3>1 DEF ReadsLength, TypeOK
      <3>2. CASE ReadsPayload(c)
        <4>1. Head(s)[1] = "payload"
          BY <1>5, <1>7, <3>2 DEF ReadsPayload
        <4> QED
          BY <1>7, <3>2, <4>1 DEF ReadsPayload, TypeOK
      <3>3. CASE Quits(c) \/ ReadsEOF(c) \/ DeadlinePasses(c)
        BY <1>7, <3>3 DEF Quits, ReadsEOF, DeadlinePasses
      <3> QED
        BY <3>1, <3>2, <3>3 DEF Reads
    <2>2. NothingSentYet(c)'
      BY <1>1, <1>7 DEF ConnectionInv, NothingSentYet
    <2>3. StreamComplete(c)'
      <3> HIDE DEF E
      <3>1. c \in subscribers => Whole(received'[c], t, InHand(c), channel[c], E)
        BY <1>0, <1>4, <1>7, <2>1, WholeRead
      <3> QED
        BY <1>1, <1>3, <2>1, <3>1, StreamIsWholeNext DEF E
    <2>4. FramesWhole(c)'
      <3>1. /\ DOMAIN s = 1 .. Len(s) /\ DOMAIN t = 1 .. Len(s) - 1
            /\ Len(t) = Len(s) - 1 /\ Len(s) \in Nat \ {0}
            /\ Head(s) = s[1] /\ (t # <<>> => Head(t) = t[1])
            /\ \A i \in 1 .. Len(s) - 1 : t[i] = s[i + 1]
            /\ t = <<>> <=> Len(s) = 1
        BY <1>0, <1>7, TailOf
      <3> HIDE DEF s, t
      <3>2. ASSUME NEW i \in DOMAIN t, t[i][1] = "length"
            PROVE  IF i = Len(t) THEN handler[c] = "payload"
                                 ELSE t[i + 1][1] = "payload"
        <4>1. i + 1 \in DOMAIN s /\ s[i + 1][1] = "length"
          BY <3>1, <3>2
        <4>2. IF i + 1 = Len(s) THEN handler[c] = "payload"
                                ELSE s[(i + 1) + 1][1] = "payload"
          BY <1>5, <4>1
        <4>3. i # Len(t) => i + 1 \in 1 .. Len(s) - 1 /\ i + 1 # Len(s)
          BY <3>1, <3>2
        <4> QED
          BY <3>1, <4>2, <4>3
      <3>3. Head(s)[1] = "length" =>
              IF t = <<>> THEN handler[c] = "payload" ELSE Head(t)[1] = "payload"
        <4> SUFFICES ASSUME Head(s)[1] = "length"
                     PROVE  IF t = <<>> THEN handler[c] = "payload"
                                        ELSE Head(t)[1] = "payload"
          OBVIOUS
        <4>1. 1 \in DOMAIN s
          BY <3>1
        <4>2. IF 1 = Len(s) THEN handler[c] = "payload" ELSE s[1 + 1][1] = "payload"
          BY <1>5, <3>1, <4>1
        <4>3. 1 # Len(s) => 1 \in 1 .. Len(s) - 1
          BY <3>1
        <4> QED
          BY <3>1, <4>2, <4>3
      <3> QED
        BY <1>1, <2>1, <3>2, <3>3 DEF FramesWhole
    <2> QED
      BY <1>2, <2>2, <2>3, <2>4 DEF ConnectionInv
  <1> QED
    BY <1>6, <1>7

LEMMA SubscribeStream ==
  ASSUME TypeOK, LogInv, NEW c \in Connections, ConnectionInv(c), Subscribe(c)
  PROVE  ConnectionInv(c)'
  <1> USE DEF clientFrame, ringVars, channelVars, daemonVars, historyVars
  <1>1. /\ UNCHANGED <<written, ringLength, first, dropped, subscribers, channel,
                       sending, socket, received>>
        /\ client'[c] = "length" /\ handler'[c] = "waiting" /\ handler[c] = "absent"
    BY DEF Subscribe, TypeOK, LogInv, HandlersServeClients
  <1>2. /\ received[c] = <<>> /\ socket[c] = <<>> /\ dropped[c] = {}
        /\ c \notin subscribers
    BY <1>1 DEF ConnectionInv, NothingSentYet, LogInv, StreamersRegistered
  <1>3. DOMAIN socket'[c] = {}
    BY <1>1, <1>2
  <1>4. FramesWhole(c)' /\ NothingSentYet(c)' /\ ReplayIsRecent(c)'
    BY <1>1, <1>2, <1>3 DEF FramesWhole, NothingSentYet, ReplayIsRecent
  <1>5. PastOnly(c)' /\ StreamComplete(c)'
    BY <1>1, <1>2 DEF ConnectionInv, PastOnly, StreamComplete
  <1> QED
    BY <1>4, <1>5 DEF ConnectionInv

LEMMA NextStream == TypeOK /\ LogInv /\ StreamInv /\ [Next]_vars => StreamInv'
  <1> SUFFICES ASSUME TypeOK, LogInv, StreamInv, [Next]_vars,
                      NEW d \in Connections
               PROVE  ConnectionInv(d)'
    BY DEF StreamInv
  <1>0. \A c \in Connections : ConnectionInv(c)
    BY DEF StreamInv
  <1>1. CASE Write
    BY <1>1, WriteStream DEF StreamInv
  <1>2. CASE Shutdown \/ DaemonExits \/ UNCHANGED vars
    BY <1>0, <1>2, Untouched
    DEF Shutdown, DaemonExits, vars, ringVars, channelVars, handlerVars, clientVars,
        daemonVars, historyVars
  <1>3. ASSUME NEW c \in Connections, HandleLogSubscribe(c)
        PROVE  ConnectionInv(d)'
    <2>1. CASE d = c
      BY <1>0, <1>3, <2>1, ReplayStream, SendStream, LeaveStream
      DEF HandleLogSubscribe
    <2>2. CASE d # c
      BY <1>0, <1>3, <2>2, HandlerTouches, Untouched
    <2> QED
      BY <2>1, <2>2
  <1>4. ASSUME NEW c \in Connections,
               Subscribe(c) \/ Reads(c) \/ DeadlinePasses(c) \/ Quits(c)
        PROVE  ConnectionInv(d)'
    <2>1. CASE d = c
      BY <1>0, <1>4, <2>1, SubscribeStream, ReadStream
    <2>2. CASE d # c
      <3>1. /\ UNCHANGED <<written, ringLength, channel, sending, first, dropped,
                           subscribers>>
            /\ handler'[d] = handler[d] /\ socket'[d] = socket[d]
            /\ client'[d] = client[d] /\ received'[d] = received[d]
        BY <1>4, <2>2
        DEF Subscribe, Reads, ReadsLength, ReadsPayload, ReadsEOF, DeadlinePasses,
            Quits, clientFrame, ringVars, channelVars, daemonVars, historyVars, TypeOK
      <3> QED
        BY <1>0, <3>1, Untouched
    <2> QED
      BY <2>1, <2>2
  <1> QED
    BY <1>1, <1>2, <1>3, <1>4 DEF Next

(* A subscriber that listens misses nothing: what its client has read, the *)
(* wire, its handler and its channel hold, in order and each event once,   *)
(* the replay and every event since, but for those Write dropped because   *)
(* its channel was full (log_broker.go, "recent history without gaps").    *)
THEOREM HistoryIsComplete == Safety => []HistoryWithoutGaps
  <1>1. Init => TypeOK /\ LogInv /\ StreamInv
    BY InitCorrect, StreamInit
  <1>2. TypeOK /\ LogInv /\ StreamInv /\ [Next]_vars
          => (TypeOK /\ LogInv /\ StreamInv)'
    BY NextTypeOK, NextLogInv, NextStream
  <1>3. LogInv /\ StreamInv => HistoryWithoutGaps
    BY DEF LogInv, StreamersRegistered, StreamInv, ConnectionInv, StreamComplete,
           HistoryWithoutGaps
  <1> QED
    BY <1>1, <1>2, <1>3, PTL DEF Safety
=============================================================================

----------------------------- MODULE LogStream -----------------------------
(***************************************************************************)
(* The log stream of the daemon: the LogBroker of src/ipc/log_broker.go,   *)
(* the connection handlers that serve log.subscribe (handler.go) and the   *)
(* clients that read the frames (client.go, frame.go).                     *)
(*                                                                         *)
(* A log event is its number: the e-th event written.  A frame is a        *)
(* "length" piece followed by a "payload" piece, as WriteFrame writes it.  *)
(* A connection subscribes once, so it stands for its subscriber ID too.   *)
(* A definition marked Slip is a wrong variant of the one that follows it; *)
(* it is no part of the specification.                                     *)
(* Not modelled: the text of an event, and frames over IPCMaxFrameSize.    *)
(***************************************************************************)
EXTENDS Integers, Sequences, FiniteSets

CONSTANTS
  Connections,       (* connections that send log.subscribe                 *)
  RingSize,          (* IPCLogRingBuffer                                    *)
  SubscriberBuffer,  (* IPCLogSubscriberBuffer                              *)
  SocketSize,        (* pieces a socket holds before a write blocks         *)
  MaxEvents          (* bound: log events written                           *)

NoOne == "no one"

ASSUME LogAssumption ==
  /\ NoOne \notin Connections
  /\ RingSize \in Nat \ {0}
  /\ SubscriberBuffer \in Nat
  /\ SocketSize \in Nat \ {0}
  /\ MaxEvents \in Nat

VARIABLES
  (* the broker                                                            *)
  written,      (* events written so far                                    *)
  ring,         (* the replay buffer                                        *)
  ringHead,     (* index of the oldest valid event                          *)
  ringLength,   (* number of valid events                                   *)
  lock,         (* b.mu: the connection that holds it, or NoOne             *)
  subscribers,  (* connections whose channel is registered                  *)
  channel,      (* channel[c]: what the channel made for c holds            *)
  capacity,     (* capacity[c]: how much it can hold                        *)
  closed,       (* connections whose channel has been closed                *)
  (* handlers, sockets and clients                                         *)
  handler,      (* handler[c]: where the handler of connection c is         *)
  replayed,     (* replayed[c]: events its Subscribe has replayed           *)
  sending,      (* sending[c]: the event its handler writes                 *)
  socket,       (* socket[c]: pieces written and not yet read               *)
  client,       (* client[c]: where the client is                           *)
  received,     (* received[c]: the events the client has read              *)
  (* the daemon                                                            *)
  shutdown,     (* has the daemon's context been cancelled?                 *)
  daemonUp,     (* is the daemon process alive?                             *)
  (* history                                                               *)
  first,        (* first[c]: the first event c is entitled to               *)
  dropped       (* dropped[c]: events that found its channel full           *)

ringVars    == <<written, ring, ringHead, ringLength>>
channelVars == <<lock, subscribers, channel, capacity, closed>>
handlerVars == <<handler, replayed, sending>>
clientVars  == <<client, received>>
daemonVars  == <<shutdown, daemonUp>>
historyVars == <<first, dropped>>
vars == <<ringVars, channelVars, handlerVars, socket, clientVars, daemonVars,
          historyVars>>

Events == 1 .. MaxEvents
Slots  == 0 .. RingSize - 1
HandlerStages == {"absent", "waiting", "replaying", "selecting", "length",
                  "payload", "leaving", "closing", "done"}
ClientStages  == {"absent", "length", "payload", "ended", "gone"}
Pieces == {"length", "payload"} \X Events

TypeOK ==
  /\ written \in 0 .. MaxEvents
  /\ ring \in [Slots -> 0 .. MaxEvents]
  /\ ringHead \in Slots
  /\ ringLength \in 0 .. RingSize
  /\ lock \in Connections \cup {NoOne}
  /\ subscribers \subseteq Connections
  /\ channel \in [Connections -> Seq(Events)]
  /\ capacity \in [Connections -> 0 .. RingSize + SubscriberBuffer]
  /\ \A c \in Connections : Len(channel[c]) <= capacity[c]
  /\ closed \subseteq Connections
  /\ handler \in [Connections -> HandlerStages]
  /\ replayed \in [Connections -> 0 .. RingSize]
  /\ sending \in [Connections -> 0 .. MaxEvents]
  /\ socket \in [Connections -> Seq(Pieces)]
  /\ client \in [Connections -> ClientStages]
  /\ received \in [Connections -> Seq(Events)]
  /\ shutdown \in BOOLEAN
  /\ daemonUp \in BOOLEAN
  /\ first \in [Connections -> 1 .. MaxEvents + 1]
  /\ dropped \in [Connections -> SUBSET Events]

Init ==
  /\ written = 0
  /\ ring = [i \in Slots |-> 0]
  /\ ringHead = 0
  /\ ringLength = 0
  /\ lock = NoOne
  /\ subscribers = {}
  /\ channel = [c \in Connections |-> <<>>]
  /\ capacity = [c \in Connections |-> 0]
  /\ closed = {}
  /\ handler = [c \in Connections |-> "absent"]
  /\ replayed = [c \in Connections |-> 0]
  /\ sending = [c \in Connections |-> 0]
  /\ socket = [c \in Connections |-> <<>>]
  /\ client = [c \in Connections |-> "absent"]
  /\ received = [c \in Connections |-> <<>>]
  /\ shutdown = FALSE
  /\ daemonUp = TRUE
  /\ first = [c \in Connections |-> 1]
  /\ dropped = [c \in Connections |-> {}]

HandlerMoves(c, from, to) ==
  /\ daemonUp
  /\ handler[c] = from
  /\ handler' = [handler EXCEPT ![c] = to]

-----------------------------------------------------------------------------
(***************************************************************************)
(* LogBroker.Write.  Nothing in it blocks, so it is one step, taken while  *)
(* nobody holds the lock.                                                  *)
(***************************************************************************)
Full(c) == Len(channel[c]) >= capacity[c]

(* Slip: a ring that is full does not forget its oldest event.             *)
Store_KeepsHead(e) ==
  /\ ring' = [ring EXCEPT ![(ringHead + ringLength) % RingSize] = e]
  /\ ringLength' = IF ringLength < RingSize THEN ringLength + 1 ELSE ringLength
  /\ UNCHANGED ringHead

Store(e) ==
  /\ ring' = [ring EXCEPT ![(ringHead + ringLength) % RingSize] = e]
  /\ IF ringLength < RingSize
     THEN ringLength' = ringLength + 1 /\ UNCHANGED ringHead
     ELSE ringHead' = (ringHead + 1) % RingSize /\ UNCHANGED ringLength

FanOut(e) ==
  /\ channel' = [c \in Connections |-> IF c \in subscribers /\ ~Full(c)
                                       THEN Append(channel[c], e) ELSE channel[c]]
  /\ dropped' = [c \in Connections |-> IF c \in subscribers /\ Full(c)
                                       THEN dropped[c] \cup {e} ELSE dropped[c]]

Write ==
  /\ daemonUp /\ lock = NoOne
  /\ written < MaxEvents
  /\ written' = written + 1
  /\ Store(written + 1)
  /\ FanOut(written + 1)
  /\ UNCHANGED <<lock, subscribers, capacity, closed, handlerVars, socket,
                 clientVars, daemonVars, first>>

-----------------------------------------------------------------------------
(***************************************************************************)
(* handleLogSubscribe.  Subscribe holds the lock from its first step to    *)
(* its last and sends the replay on the new channel, which would block the *)
(* whole broker if the channel were too small.                             *)
(***************************************************************************)
(* Slip: the channel is made for the live events only.                     *)
MakesChannel_NoReplayRoom(c) ==
  /\ HandlerMoves(c, "waiting", "replaying")
  /\ lock = NoOne /\ lock' = c
  /\ capacity' = [capacity EXCEPT ![c] = SubscriberBuffer]
  /\ first' = [first EXCEPT ![c] = written - ringLength + 1]
  /\ UNCHANGED <<ringVars, subscribers, channel, closed, replayed, sending,
                 socket, clientVars, daemonVars, dropped>>

(* Slip: the lock is not taken for the replay.                             *)
MakesChannel_NoLock(c) ==
  /\ HandlerMoves(c, "waiting", "replaying")
  /\ capacity' = [capacity EXCEPT ![c] = ringLength + SubscriberBuffer]
  /\ first' = [first EXCEPT ![c] = written - ringLength + 1]
  /\ UNCHANGED <<ringVars, lock, subscribers, channel, closed, replayed, sending,
                 socket, clientVars, daemonVars, dropped>>

MakesChannel(c) ==
  /\ HandlerMoves(c, "waiting", "replaying")
  /\ lock = NoOne /\ lock' = c
  /\ capacity' = [capacity EXCEPT ![c] = ringLength + SubscriberBuffer]
  /\ first' = [first EXCEPT ![c] = written - ringLength + 1]
  /\ UNCHANGED <<ringVars, subscribers, channel, closed, replayed, sending,
                 socket, clientVars, daemonVars, dropped>>

Replays(c) ==
  /\ daemonUp
  /\ handler[c] = "replaying"
  /\ replayed[c] < ringLength
  /\ ~Full(c)
  /\ channel' = [channel EXCEPT ![c] =
                   Append(@, ring[(ringHead + replayed[c]) % RingSize])]
  /\ replayed' = [replayed EXCEPT ![c] = @ + 1]
  /\ UNCHANGED <<ringVars, lock, subscribers, capacity, closed, handler, sending,
                 socket, clientVars, daemonVars, historyVars>>

(* Slip: the lock is kept.                                                 *)
Registers_KeepsLock(c) ==
  /\ HandlerMoves(c, "replaying", "selecting")
  /\ replayed[c] >= ringLength
  /\ subscribers' = subscribers \cup {c}
  /\ UNCHANGED <<ringVars, lock, channel, capacity, closed, replayed, sending,
                 socket, clientVars, daemonVars, historyVars>>

Registers(c) ==
  /\ HandlerMoves(c, "replaying", "selecting")
  /\ replayed[c] >= ringLength
  /\ subscribers' = subscribers \cup {c}
  /\ lock' = NoOne
  /\ UNCHANGED <<ringVars, channel, capacity, closed, replayed, sending, socket,
                 clientVars, daemonVars, historyVars>>

(* The select of the stream loop, which takes either branch if both are    *)
(* ready.                                                                  *)
(* Slip: a handler that is behind jumps to the newest event.               *)
TakesEvent_Newest(c) ==
  /\ HandlerMoves(c, "selecting", "length")
  /\ channel[c] # <<>>
  /\ sending' = [sending EXCEPT ![c] = channel[c][Len(channel[c])]]
  /\ channel' = [channel EXCEPT ![c] = <<>>]
  /\ UNCHANGED <<ringVars, lock, subscribers, capacity, closed, replayed, socket,
                 clientVars, daemonVars, historyVars>>

TakesEvent(c) ==
  /\ HandlerMoves(c, "selecting", "length")
  /\ channel[c] # <<>>
  /\ sending' = [sending EXCEPT ![c] = Head(channel[c])]
  /\ channel' = [channel EXCEPT ![c] = Tail(@)]
  /\ UNCHANGED <<ringVars, lock, subscribers, capacity, closed, replayed, socket,
                 clientVars, daemonVars, historyVars>>

SeesShutdown(c) ==
  /\ HandlerMoves(c, "selecting", "leaving")
  /\ shutdown
  /\ UNCHANGED <<ringVars, channelVars, replayed, sending, socket, clientVars,
                 daemonVars, historyVars>>

(* WriteFrame: two writes, each of which may block or find the client gone. *)
Listening(c) == client[c] \in {"length", "payload"}

WritesPiece(c, piece, next) ==
  /\ HandlerMoves(c, piece, next)
  /\ Listening(c)
  /\ Len(socket[c]) < SocketSize
  /\ socket' = [socket EXCEPT ![c] = Append(@, <<piece, sending[c]>>)]
  /\ UNCHANGED <<ringVars, channelVars, replayed, sending, clientVars, daemonVars,
                 historyVars>>

WritesFrame(c) ==
  WritesPiece(c, "length", "payload") \/ WritesPiece(c, "payload", "selecting")

(* Slip: the handler carries on after a write that failed.                 *)
WriteFails_CarriesOn(c) ==
  /\ handler[c] \in {"length", "payload"}
  /\ HandlerMoves(c, handler[c], "selecting")
  /\ ~Listening(c)
  /\ UNCHANGED <<ringVars, channelVars, replayed, sending, socket, clientVars,
                 daemonVars, historyVars>>

WriteFails(c) ==
  /\ handler[c] \in {"length", "payload"}
  /\ HandlerMoves(c, handler[c], "leaving")
  /\ ~Listening(c)
  /\ UNCHANGED <<ringVars, channelVars, replayed, sending, socket, clientVars,
                 daemonVars, historyVars>>

(* Unsubscribe: the channel is closed after the lock has been released.    *)
(* Slip: the subscriber is not deleted from the map.                       *)
Unregisters_Keeps(c) ==
  /\ HandlerMoves(c, "leaving", "closing")
  /\ lock = NoOne
  /\ UNCHANGED <<ringVars, channelVars, replayed, sending, socket, clientVars,
                 daemonVars, historyVars>>

Unregisters(c) ==
  /\ HandlerMoves(c, "leaving", "closing")
  /\ lock = NoOne
  /\ subscribers' = subscribers \ {c}
  /\ UNCHANGED <<ringVars, lock, channel, capacity, closed, replayed, sending,
                 socket, clientVars, daemonVars, historyVars>>

ClosesChannel(c) ==
  /\ HandlerMoves(c, "closing", "done")
  /\ closed' = closed \cup {c}
  /\ UNCHANGED <<ringVars, lock, subscribers, channel, capacity, replayed,
                 sending, socket, clientVars, daemonVars, historyVars>>

HandleLogSubscribe(c) ==
  \/ MakesChannel(c) \/ Replays(c) \/ Registers(c)
  \/ TakesEvent(c) \/ SeesShutdown(c) \/ WritesFrame(c) \/ WriteFails(c)
  \/ Unregisters(c) \/ ClosesChannel(c)

-----------------------------------------------------------------------------
(***************************************************************************)
(* Client.Subscribe and the goroutine it leaves behind.  Its rolling read  *)
(* deadline may pass whenever the piece it waits for has not arrived; the  *)
(* loop then starts over, with the length of a frame.                      *)
(***************************************************************************)
clientFrame == UNCHANGED <<ringVars, channelVars, replayed, sending, daemonVars,
                           historyVars>>

Subscribe(c) ==
  /\ daemonUp /\ ~shutdown
  /\ client[c] = "absent"
  /\ client' = [client EXCEPT ![c] = "length"]
  /\ handler' = [handler EXCEPT ![c] = "waiting"]
  /\ UNCHANGED <<socket, received>> /\ clientFrame

ReadsLength(c) ==
  /\ client[c] = "length" /\ socket[c] # <<>>
  /\ IF Head(socket[c])[1] = "length"
     THEN /\ client' = [client EXCEPT ![c] = "payload"]
          /\ socket' = [socket EXCEPT ![c] = Tail(@)]
     ELSE (* JSON read as a length exceeds IPCMaxFrameSize                  *)
          /\ client' = [client EXCEPT ![c] = "ended"]
          /\ UNCHANGED socket
  /\ UNCHANGED <<handler, received>> /\ clientFrame

ReadsPayload(c) ==
  /\ client[c] = "payload" /\ socket[c] # <<>>
  /\ client' = [client EXCEPT ![c] = "length"]
  /\ received' = [received EXCEPT ![c] = Append(@, Head(socket[c])[2])]
  /\ socket' = [socket EXCEPT ![c] = Tail(@)]
  /\ UNCHANGED handler /\ clientFrame

DeadlinePasses(c) ==
  /\ client[c] = "payload" /\ socket[c] = <<>>
  /\ client' = [client EXCEPT ![c] = "length"]
  /\ UNCHANGED <<socket, handler, received>> /\ clientFrame

ReadsEOF(c) ==
  /\ Listening(c) /\ socket[c] = <<>>
  /\ ~daemonUp \/ handler[c] = "done"
  /\ client' = [client EXCEPT ![c] = "ended"]
  /\ UNCHANGED <<socket, handler, received>> /\ clientFrame

(* lensd logs is interrupted.                                              *)
Quits(c) ==
  /\ Listening(c)
  /\ client' = [client EXCEPT ![c] = "gone"]
  /\ UNCHANGED <<socket, handler, received>> /\ clientFrame

Reads(c) == ReadsLength(c) \/ ReadsPayload(c) \/ ReadsEOF(c)

-----------------------------------------------------------------------------
(* The daemon is told to stop, and exits or crashes: sockets are closed.   *)
Shutdown ==
  /\ daemonUp /\ ~shutdown
  /\ shutdown' = TRUE
  /\ UNCHANGED <<ringVars, channelVars, handlerVars, socket, clientVars, daemonUp,
                 historyVars>>

DaemonExits ==
  /\ daemonUp
  /\ daemonUp' = FALSE
  /\ UNCHANGED <<ringVars, channelVars, handlerVars, socket, clientVars, shutdown,
                 historyVars>>

Next ==
  \/ Write \/ Shutdown \/ DaemonExits
  \/ \E c \in Connections :
       \/ HandleLogSubscribe(c)
       \/ Subscribe(c) \/ Reads(c) \/ DeadlinePasses(c) \/ Quits(c)

(* Goroutines are scheduled and a client that listens reads; nothing has   *)
(* to be logged, and neither a deadline nor the user's interrupt must come. *)
Fairness ==
  \A c \in Connections : WF_vars(HandleLogSubscribe(c)) /\ WF_vars(Reads(c))

Safety == Init /\ [][Next]_vars
Spec   == Safety /\ Fairness

-----------------------------------------------------------------------------
(***************************************************************************)
(*                               PROPERTIES                                *)
(***************************************************************************)
(* The ring holds the last events written, oldest first from ringHead:     *)
(* the wrap-around loses, repeats and reorders none of them.               *)
RingHoldsRecent ==
  /\ ringLength = IF written < RingSize THEN written ELSE RingSize
  /\ \A i \in 0 .. ringLength - 1 :
       ring[(ringHead + i) % RingSize] = written - ringLength + 1 + i

(* Subscribe sends the replay with the broker's lock held: a send that     *)
(* blocked there would block every logger of the daemon.                   *)
ReplayNeverBlocks ==
  \A c \in Connections :
    handler[c] = "replaying" /\ replayed[c] < ringLength => ~Full(c)

(* Write sends to registered subscribers only, and Unsubscribe closes a    *)
(* channel outside the lock: a send on a closed channel would panic.       *)
NoSendOnClosedChannel == subscribers \cap closed = {}

(***************************************************************************)
(* The inductive invariant.  The lock is held exactly by a Subscribe that  *)
(* replays, so the ring stands still meanwhile and the new channel holds   *)
(* what has been replayed; handlers that stream, and no others, are        *)
(* registered; and what they send are events.                              *)
(***************************************************************************)
LockHeldByReplay == \A c \in Connections : handler[c] = "replaying" <=> lock = c

ReplayFits ==
  \A c \in Connections :
    /\ handler[c] \in {"absent", "waiting"} => channel[c] = <<>> /\ replayed[c] = 0
    /\ handler[c] = "replaying" =>
         /\ Len(channel[c]) = replayed[c]
         /\ replayed[c] <= ringLength
         /\ capacity[c] = ringLength + SubscriberBuffer

StreamersRegistered ==
  /\ subscribers = {c \in Connections :
                      handler[c] \in {"selecting", "length", "payload", "leaving"}}
  /\ closed = {c \in Connections : handler[c] = "done"}

HandlersServeClients ==
  \A c \in Connections : handler[c] = "absent" <=> client[c] = "absent"

EventsSent ==
  \A c \in Connections : handler[c] \in {"length", "payload"} => sending[c] \in Events

LogInv ==
  /\ RingHoldsRecent
  /\ LockHeldByReplay
  /\ ReplayFits
  /\ StreamersRegistered
  /\ HandlersServeClients
  /\ EventsSent

(* Everything a subscriber was sent: what its client has read, what is on  *)
(* the wire, what its handler writes and what its channel holds.           *)
Sent(s)       == {s[i] : i \in DOMAIN s}
PayloadsAt(s) == {i \in DOMAIN s : s[i][1] = "payload"}
Increasing(s) == \A i, j \in DOMAIN s : i < j => s[i] < s[j]
OnTheWire(c)  == {socket[c][i][2] : i \in PayloadsAt(socket[c])}
InHand(c)     == IF handler[c] \in {"length", "payload"} THEN {sending[c]} ELSE {}
Stream(c)     == Sent(received[c]) \cup OnTheWire(c) \cup InHand(c) \cup Sent(channel[c])

(* What the client reads next comes after what it has read, place by place *)
(* and within each of them.                                                *)
Precede(A, B) == \A a \in A, b \in B : a < b
InOrder(c) ==
  /\ Increasing(received[c]) /\ Increasing(channel[c])
  /\ \A i, j \in PayloadsAt(socket[c]) : i < j => socket[c][i][2] < socket[c][j][2]
  /\ Precede(Sent(received[c]), OnTheWire(c) \cup InHand(c) \cup Sent(channel[c]))
  /\ Precede(OnTheWire(c), InHand(c) \cup Sent(channel[c]))
  /\ Precede(InHand(c), Sent(channel[c]))

(* "The caller receives recent history without gaps": the stream of a      *)
(* client that listens is increasing, starts with the replay and contains  *)
(* every event since, but for those that found its channel full.           *)
HistoryWithoutGaps ==
  \A c \in subscribers :
    Listening(c) => InOrder(c) /\ Stream(c) = (first[c] .. written) \ dropped[c]

(* An event that entered a channel reaches the client, as long as the      *)
(* client listens and the daemon is not told to stop.                      *)
EventsArrive ==
  \A c \in Connections : \A e \in Events :
    e \in Sent(channel[c])
      ~> e \in Sent(received[c]) \/ ~Listening(c) \/ shutdown \/ ~daemonUp

(* A client that has gone is found out with the next event: its subscriber *)
(* does not stay registered once there was something to send.              *)
DeadSubscriberLeaves ==
  \A c \in Connections :
    ~Listening(c) /\ handler[c] = "selecting" /\ channel[c] # <<>> /\ daemonUp
      ~> ~daemonUp \/ handler[c] = "done"

(* "The channel is closed when the connection ends or the daemon is        *)
(* unreachable": a client's stream does not end by itself.                 *)
StreamEndsWithDaemon ==
  [][\A c \in Connections :
       Listening(c) /\ client'[c] = "ended" => ~daemonUp \/ handler[c] = "done"]_vars
=============================================================================

----------------------------- MODULE Broadcast -----------------------------
(***************************************************************************)
(* The Telegram sender beside the poller and the store: broadcasts of      *)
(* analyses that overlap, each to the subscribers that the store had when  *)
(* it began, in chunks, with retries when Telegram limits the rate and one *)
(* time limit for all of it.  (adapters/im/im.go)                          *)
(***************************************************************************)
EXTENDS Subscribers, FiniteSets

CONSTANTS Broadcasts,  \* the calls of Broadcast
          Chunks,      \* chunks of a message
          MaxRetries   \* TELEGRAM_MAX_RETRIES

ASSUME BroadcastAssumption == Chunks \in Nat \ {0} /\ MaxRetries \in Nat

VARIABLES
  state,      \* broadcast -> "idle", "sends", "waits" (for a retry) or "returned"
  recipients, \* broadcast -> the chats that All() returned
  todo,       \* broadcast -> the chats whose turn has not come or not ended
  current,    \* broadcast -> the chat whose turn it is: a set of at most one
  sentChunks, \* broadcast -> chunks that sendTo has sent to the current chat
  attempt,    \* broadcast -> retries of the current chunk
  failed,     \* broadcast -> lastErr is not nil
  expired,    \* broadcast -> its context is done
  received,   \* history: broadcast -> chat -> the chunks that arrived, in order
  refused     \* history: broadcast -> chats at which a request failed for good

senderVars == <<state, recipients, todo, current, sentChunks, attempt, failed, expired,
                received, refused>>
vars == <<subscriberVars, senderVars>>

SenderInit ==
  /\ state = [b \in Broadcasts |-> "idle"]
  /\ recipients = [b \in Broadcasts |-> {}]
  /\ todo = [b \in Broadcasts |-> {}]
  /\ current = [b \in Broadcasts |-> {}]
  /\ sentChunks = [b \in Broadcasts |-> 0]
  /\ attempt = [b \in Broadcasts |-> 0]
  /\ failed = [b \in Broadcasts |-> FALSE]
  /\ expired = [b \in Broadcasts |-> FALSE]
  /\ received = [b \in Broadcasts |-> [c \in Chats |-> <<>>]]
  /\ refused = [b \in Broadcasts |-> {}]

Init == SubscribersInit /\ SenderInit

\* Slip: the recipients are those of the file.
BeginsBroadcastSlip(b) ==
  /\ state[b] = "idle"
  /\ state' = [state EXCEPT ![b] = IF file = {} THEN "returned" ELSE "sends"]
  /\ recipients' = [recipients EXCEPT ![b] = file]
  /\ todo' = [todo EXCEPT ![b] = file]
  /\ UNCHANGED <<subscriberVars, current, sentChunks, attempt, failed, expired, received,
                 refused>>

\* All() is a snapshot; without subscribers Broadcast returns at once.
BeginsBroadcast(b) ==
  /\ state[b] = "idle"
  /\ state' = [state EXCEPT ![b] = IF subscribers = {} THEN "returned" ELSE "sends"]
  /\ recipients' = [recipients EXCEPT ![b] = subscribers]
  /\ todo' = [todo EXCEPT ![b] = subscribers]
  /\ UNCHANGED <<subscriberVars, current, sentChunks, attempt, failed, expired, received,
                 refused>>

\* The loop over the recipients, in any order: the store is a Go map.
NextRecipient(b, c) ==
  /\ state[b] = "sends" /\ current[b] = {} /\ c \in todo[b]
  /\ current' = [current EXCEPT ![b] = {c}]
  /\ sentChunks' = [sentChunks EXCEPT ![b] = 0]
  /\ attempt' = [attempt EXCEPT ![b] = 0]
  /\ UNCHANGED <<subscriberVars, state, recipients, todo, failed, expired, received, refused>>

Sends(b, c) == state[b] = "sends" /\ current[b] = {c}

\* Slip: only the last recipient's error is returned.
EndsTurnForgets(b, c, err) ==
  /\ todo' = [todo EXCEPT ![b] = @ \ {c}]
  /\ current' = [current EXCEPT ![b] = {}]
  /\ state' = [state EXCEPT ![b] = IF todo[b] = {c} THEN "returned" ELSE "sends"]
  /\ failed' = [failed EXCEPT ![b] = err]

\* Slip: the first error ends the broadcast.
EndsTurnGivesUp(b, c, err) ==
  /\ todo' = [todo EXCEPT ![b] = @ \ {c}]
  /\ current' = [current EXCEPT ![b] = {}]
  /\ state' = [state EXCEPT ![b] = IF err \/ todo[b] = {c} THEN "returned" ELSE "sends"]
  /\ failed' = [failed EXCEPT ![b] = @ \/ err]

\* sendTo returns: the loop goes on with the next recipient, or Broadcast returns.
EndsTurn(b, c, err) ==
  /\ todo' = [todo EXCEPT ![b] = @ \ {c}]
  /\ current' = [current EXCEPT ![b] = {}]
  /\ state' = [state EXCEPT ![b] = IF todo[b] = {c} THEN "returned" ELSE "sends"]
  /\ failed' = [failed EXCEPT ![b] = @ \/ err]

Arrives(b, c) == received' = [received EXCEPT ![b][c] = Append(@, sentChunks[b] + 1)]

\* doSendChunk returns nil: the next chunk, or the end of this recipient's turn.
ChunkSent(b, c) ==
  /\ Sends(b, c) /\ ~expired[b]
  /\ Arrives(b, c)
  /\ sentChunks' = [sentChunks EXCEPT ![b] = @ + 1]
  /\ attempt' = [attempt EXCEPT ![b] = 0]
  /\ IF sentChunks[b] + 1 = Chunks THEN EndsTurn(b, c, FALSE)
     ELSE UNCHANGED <<state, todo, current, failed>>
  /\ UNCHANGED <<subscriberVars, recipients, expired, refused>>

\* Slip: any error is retried, not only the rate limit.
ChunkFailsSlip(b, c) ==
  /\ Sends(b, c)
  /\ Arrives(b, c) \/ UNCHANGED received
  /\ attempt[b] < MaxRetries
  /\ attempt' = [attempt EXCEPT ![b] = @ + 1]
  /\ UNCHANGED <<subscriberVars, state, recipients, todo, current, sentChunks, failed, expired, refused>>

\* doSendChunk fails, and at once when the context is done: the chunk may have
\* arrived all the same.  The chat gets no more of this message.
ChunkFails(b, c) ==
  /\ Sends(b, c)
  /\ \/ ~expired[b] /\ Arrives(b, c)
     \/ UNCHANGED received
  /\ refused' = [refused EXCEPT ![b] = @ \union {c}]
  /\ EndsTurn(b, c, TRUE)
  /\ UNCHANGED <<subscriberVars, recipients, sentChunks, attempt, expired>>

\* Telegram answers 429: wait for a retry, or give up after the last.
RateLimited(b, c) ==
  /\ Sends(b, c) /\ ~expired[b]
  /\ IF attempt[b] < MaxRetries
       THEN /\ state' = [state EXCEPT ![b] = "waits"]
            /\ UNCHANGED <<todo, current, failed, refused>>
       ELSE /\ EndsTurn(b, c, TRUE)
            /\ refused' = [refused EXCEPT ![b] = @ \union {c}]
  /\ UNCHANGED <<subscriberVars, recipients, sentChunks, attempt, expired, received>>

\* Slip: the attempts are not counted.
RetriesSlip(b) ==
  /\ state[b] = "waits"
  /\ state' = [state EXCEPT ![b] = "sends"]
  /\ UNCHANGED <<subscriberVars, recipients, todo, current, sentChunks, attempt, failed,
                 expired, received, refused>>

\* The wait ends: the same chunk again.
Retries(b) ==
  /\ state[b] = "waits"
  /\ state' = [state EXCEPT ![b] = "sends"]
  /\ attempt' = [attempt EXCEPT ![b] = @ + 1]
  /\ UNCHANGED <<subscriberVars, recipients, todo, current, sentChunks, failed, expired,
                 received, refused>>

\* The context ends the wait.
WaitCancelled(b, c) ==
  /\ state[b] = "waits" /\ expired[b] /\ current[b] = {c}
  /\ EndsTurn(b, c, TRUE)
  /\ UNCHANGED <<subscriberVars, recipients, sentChunks, attempt, expired, received, refused>>

\* TELEGRAM_BROADCAST_TIMEOUT passes, or the daemon stops.
Expires(b) ==
  /\ state[b] \in {"sends", "waits"} /\ ~expired[b]
  /\ expired' = [expired EXCEPT ![b] = TRUE]
  /\ UNCHANGED <<subscriberVars, state, recipients, todo, current, sentChunks, attempt,
                 failed, received, refused>>

\* A restart of the daemon forgets the broadcasts that were under way.
RestartsWithBroadcasts ==
  /\ Restarts
  /\ state' = [b \in Broadcasts |-> IF state[b] \in {"sends", "waits"} THEN "gone" ELSE state[b]]
  /\ todo' = [b \in Broadcasts |-> {}]
  /\ current' = [b \in Broadcasts |-> {}]
  /\ UNCHANGED <<recipients, sentChunks, attempt, failed, expired, received, refused>>

BroadcastStep(b) ==
  \/ Retries(b)
  \/ \E c \in Chats : \/ NextRecipient(b, c) \/ ChunkSent(b, c) \/ ChunkFails(b, c)
                      \/ RateLimited(b, c) \/ WaitCancelled(b, c)

Next ==
  \/ /\ \/ \E u \in Updates : SendsUpdate(u)
        \/ \E on \in BOOLEAN : SetActive(on)
        \/ PollerStep
     /\ UNCHANGED senderVars
  \/ RestartsWithBroadcasts
  \/ \E b \in Broadcasts : BeginsBroadcast(b) \/ BroadcastStep(b) \/ Expires(b)

Spec == Init /\ [][Next]_vars

\* Every call of the poller and of a broadcast ends: each has a time limit.  That
\* Telegram answers again and again is assumed of the network.
Fairness ==
  /\ WF_vars(PollerStep /\ UNCHANGED senderVars)
  /\ SF_vars(PollAnswered /\ UNCHANGED senderVars)
  /\ \A b \in Broadcasts : WF_vars(BroadcastStep(b))
FairSpec == Spec /\ Fairness

(***************************************************************************)
(* Properties                                                              *)
(***************************************************************************)
SenderTypeOK ==
  /\ state \in [Broadcasts -> {"idle", "sends", "waits", "returned", "gone"}]
  /\ recipients \in [Broadcasts -> SUBSET Chats]
  /\ todo \in [Broadcasts -> SUBSET Chats]
  /\ current \in [Broadcasts -> SUBSET Chats]
  /\ sentChunks \in [Broadcasts -> Nat]
  /\ attempt \in [Broadcasts -> 0 .. MaxRetries]
  /\ failed \in [Broadcasts -> BOOLEAN]
  /\ expired \in [Broadcasts -> BOOLEAN]
  /\ received \in [Broadcasts -> [Chats -> Seq(Nat)]]
  /\ refused \in [Broadcasts -> SUBSET Chats]
TypeOK == SubscribersTypeOK /\ SenderTypeOK

\* However requests fail, are retried or time out, what a chat has received of a
\* message is its beginning: in order, without a gap and nothing twice.
ChunksInOrder ==
  \A b \in Broadcasts, c \in Chats :
    LET got == received[b][c]
    IN  Len(got) <= Chunks /\ \A i \in 1 .. Len(got) : got[i] = i

\* Broadcast returns nil only if every subscriber of the snapshot got the whole
\* message.
NilMeansDelivered ==
  \A b \in Broadcasts : state[b] = "returned" /\ ~failed[b] =>
    \A c \in recipients[b] : Len(received[b][c]) = Chunks

\* A subscriber whom Telegram refuses does not keep the others from the message,
\* as long as the time limit does not pass.
FailureIsIsolated ==
  \A b \in Broadcasts : state[b] = "returned" /\ ~expired[b] =>
    \A c \in recipients[b] \ refused[b] : Len(received[b][c]) = Chunks

\* A broadcast goes to the chats whose latest /start or /stop, as of some update
\* that Telegram has not been told to forget before, is /start.
RecipientsAreSubscribed ==
  [][\A b \in Broadcasts : state[b] = "idle" /\ state'[b] # "idle" /\ ~lost =>
       \A c \in recipients'[b] : \E j \in confirmed .. handled : SubscribedAt(c, j)]_vars

\* A broadcast ends, unless the daemon does.
BroadcastsReturn ==
  \A b \in Broadcasts : state[b] = "sends" ~> state[b] \in {"returned", "gone"}

(***************************************************************************)
(* The inductive invariant of the proofs                                   *)
(***************************************************************************)
Running(b) == state[b] \in {"sends", "waits"}
Whole(b, c) == Len(received[b][c]) = Chunks

\* What the loop over the recipients has done: those of `todo` that are not the
\* current one have nothing, the current one what has been sent to it, and the
\* others the whole message or a failure that is remembered.
TurnsInOrder(b) ==
  /\ current[b] \subseteq todo[b] /\ todo[b] \subseteq recipients[b]
  /\ \A c, d \in current[b] : c = d
  /\ todo[b] = {} <=> ~Running(b)
  /\ state[b] = "waits" => attempt[b] < MaxRetries
  /\ state[b] = "idle" => recipients[b] = {}
  /\ \A c \in Chats : c \notin recipients[b] \/ c \in todo[b] \ current[b] =>
                        received[b][c] = <<>>
  /\ \A c \in current[b] : Len(received[b][c]) = sentChunks[b] /\ sentChunks[b] < Chunks
  /\ state[b] # "gone" =>
       \A c \in recipients[b] \ todo[b] :
         Whole(b, c) \/ (failed[b] /\ (c \in refused[b] \/ expired[b]))

SenderInv == SenderTypeOK /\ ChunksInOrder /\ \A b \in Broadcasts : TurnsInOrder(b)

TelegramInv == SubscribersInv /\ SenderInv
=============================================================================

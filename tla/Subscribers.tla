---------------------------- MODULE Subscribers ----------------------------
(***************************************************************************)
(* The subscribers of the Telegram bot: the chats' commands, Telegram's    *)
(* queue of updates, the poller that fetches and handles them, and the     *)
(* store, in memory and on disk.  (adapters/im/poller/poller.go,           *)
(* adapters/im/store/store.go)                                             *)
(*                                                                         *)
(* Update i is the i-th message sent to the bot.  Telegram hands out every *)
(* update that is not confirmed, and a request for offset n confirms those *)
(* below n.  The poller keeps its offset in memory only.                   *)
(*                                                                         *)
(* Add and Remove hold the store's lock from the change of the map to the  *)
(* rename of the file, so that no reader sees one without the other, and a *)
(* crash in between loses the map: each is one step.                       *)
(***************************************************************************)
EXTENDS Naturals, Sequences

CONSTANTS Chats,
          MaxUpdates,   \* bound: messages sent to the bot
          MaxFailures,  \* bound: writes of the file that fail
          MaxRestarts   \* bound: crashes or restarts of the daemon

ASSUME SubscribersAssumption == {MaxUpdates, MaxFailures, MaxRestarts} \subseteq Nat

Texts   == {"/start", "/stop", "other"}
Updates == [chat : Chats, text : Texts]

VARIABLES
  sent,        \* Telegram: the updates, oldest first
  confirmed,   \* Telegram: the updates 1 .. confirmed are not handed out again
  active,      \* poller: OUTPUT_METHOD is telegram
  polling,     \* poller: a request is under way or its reply is being handled
  offset,      \* poller: the offset of the next request
  batch,       \* poller: the updates of the reply still to handle, by number
  subscribers, \* store: the map
  file,        \* store: the chats in the file
  handled,     \* history: the number of the latest update ever handled
  unsaved,     \* history: the last write of the file failed
  lost,        \* history: a restart happened while `unsaved`
  failures, restarts \* counters of what the bounds limit

telegramVars == <<sent, confirmed>>
pollerVars   == <<active, polling, offset, batch>>
storeVars    == <<subscribers, file, unsaved, failures>>
subscriberVars == <<telegramVars, pollerVars, storeVars, handled, lost, restarts>>

SubscribersInit ==
  /\ sent = <<>> /\ confirmed = 0
  /\ active \in BOOLEAN /\ polling = FALSE /\ offset = 0 /\ batch = <<>>
  /\ subscribers = {} /\ file = {} /\ unsaved = FALSE
  /\ handled = 0 /\ lost = FALSE /\ failures = 0 /\ restarts = 0

SendsUpdate(u) ==
  /\ Len(sent) < MaxUpdates
  /\ sent' = Append(sent, u)
  /\ UNCHANGED <<confirmed, pollerVars, storeVars, handled, lost, restarts>>

\* SetOutputMethod switches the poller on or off.
SetActive(on) ==
  /\ active # on
  /\ active' = on
  /\ UNCHANGED <<telegramVars, polling, offset, batch, storeVars, handled, lost, restarts>>

\* Run and pollUntilInactive: `active` is tested only between two polls.
BeginsPoll ==
  /\ active /\ ~polling
  /\ polling' = TRUE
  /\ UNCHANGED <<telegramVars, active, offset, batch, storeVars, handled, lost, restarts>>

\* What a request for the poller's offset confirms.
Confirmed == IF offset > confirmed + 1 THEN offset - 1 ELSE confirmed

Waiting == polling /\ batch = <<>>

\* Slip: the offset is one too high, so that an update is skipped.
PollAnsweredSlip ==
  /\ Waiting /\ Confirmed < Len(sent)
  /\ confirmed' = Confirmed + 1
  /\ batch' = [i \in 1 .. Len(sent) - Confirmed - 1 |-> Confirmed + 1 + i]
  /\ polling' = (Len(sent) > Confirmed + 1)
  /\ UNCHANGED <<sent, active, offset, storeVars, handled, lost, restarts>>

\* The reply holds every update that is not confirmed.
PollAnswered ==
  /\ Waiting
  /\ confirmed' = Confirmed
  /\ batch' = [i \in 1 .. Len(sent) - Confirmed |-> Confirmed + i]
  /\ polling' = (Len(sent) > Confirmed)
  /\ UNCHANGED <<sent, active, offset, storeVars, handled, lost, restarts>>

\* The request, or only its reply, is lost, times out or is an error.
PollFails ==
  /\ Waiting
  /\ confirmed' \in {confirmed, Confirmed}
  /\ polling' = FALSE
  /\ UNCHANGED <<sent, active, offset, batch, storeVars, handled, lost, restarts>>

\* persist: the whole set replaces the file, or the file stays as it is.
Persist(chats) ==
  /\ subscribers' = chats
  /\ \/ file' = chats /\ unsaved' = FALSE /\ UNCHANGED failures
     \/ /\ failures < MaxFailures
        /\ failures' = failures + 1
        /\ unsaved' = TRUE /\ UNCHANGED file

\* handleUpdate: Add, Remove or nothing.
HandleUpdate(u) ==
  \/ u.text = "/start" /\ Persist(subscribers \union {u.chat})
  \/ u.text = "/stop" /\ Persist(subscribers \ {u.chat})
  \/ u.text = "other" /\ UNCHANGED storeVars

\* The loop of poll over the reply: the offset advances whatever came of the update.
HandlesNext ==
  /\ batch # <<>>
  /\ HandleUpdate(sent[Head(batch)])
  /\ offset' = Head(batch) + 1
  /\ handled' = IF Head(batch) > handled THEN Head(batch) ELSE handled
  /\ batch' = Tail(batch)
  /\ polling' = (Len(batch) > 1)
  /\ UNCHANGED <<telegramVars, active, lost, restarts>>

\* Slip: the file is not loaded.
RestartsSlip ==
  /\ restarts < MaxRestarts
  /\ restarts' = restarts + 1
  /\ subscribers' = {}
  /\ lost' = (lost \/ unsaved) /\ unsaved' = FALSE
  /\ offset' = 0 /\ batch' = <<>> /\ polling' = FALSE /\ active' \in BOOLEAN
  /\ UNCHANGED <<telegramVars, file, failures, handled>>

\* The daemon ends at any point and another one loads the file (New, load); its
\* poller starts at offset 0, with the output method of the configuration.
Restarts ==
  /\ restarts < MaxRestarts
  /\ restarts' = restarts + 1
  /\ subscribers' = file
  /\ lost' = (lost \/ unsaved) /\ unsaved' = FALSE
  /\ offset' = 0 /\ batch' = <<>> /\ polling' = FALSE /\ active' \in BOOLEAN
  /\ UNCHANGED <<telegramVars, file, failures, handled>>

PollerStep == BeginsPoll \/ PollAnswered \/ PollFails \/ HandlesNext

(***************************************************************************)
(* Properties                                                              *)
(***************************************************************************)
SubscribersTypeOK ==
  /\ sent \in Seq(Updates) /\ confirmed \in Nat
  /\ active \in BOOLEAN /\ polling \in BOOLEAN
  /\ offset \in Nat /\ batch \in Seq(Nat)
  /\ subscribers \subseteq Chats /\ file \subseteq Chats
  /\ unsaved \in BOOLEAN /\ lost \in BOOLEAN
  /\ handled \in Nat /\ failures \in Nat /\ restarts \in Nat

\* The latest of the updates 1 .. j that is a command of chat c is /start.
SubscribedAt(c, j) ==
  \E i \in 1 .. j : /\ sent[i] = [chat |-> c, text |-> "/start"]
                    /\ \A k \in i + 1 .. j : sent[k] # [chat |-> c, text |-> "/stop"]

\* No command is lost, unless a restart came after a failed write of the file: a
\* chat is in the store as of some update at or after the last that Telegram has
\* been told to forget.  Updates that are handed out again after a restart, polls
\* whose reply is lost, and a poller that is switched off do not change that.
StoreKeepsConfirmed ==
  ~lost => \A c \in Chats : \E j \in confirmed .. handled :
             (c \in subscribers) = SubscribedAt(c, j)

\* Once every update that Telegram hands out has been handled, the store is what
\* the chats have asked for, however often the updates were handled before.
CaughtUp == batch = <<>> /\ offset = handled + 1
CaughtUpIsExact ==
  ~lost /\ CaughtUp => \A c \in Chats : (c \in subscribers) = SubscribedAt(c, handled)

\* Every update is handled, as often as polls fail and the daemon restarts, if the
\* output method stays telegram.
UpdatesAreHandled == <>[]active => <>[](handled = Len(sent))

(***************************************************************************)
(* The inductive invariant of the proofs                                   *)
(***************************************************************************)
\* A failed write is repaired by the next command of any chat.
FileIsStore == ~unsaved => file = subscribers

\* The reply being handled goes on where the last confirmation ended.
BatchIsNext ==
  /\ Confirmed <= handled /\ handled <= Len(sent) /\ offset <= handled + 1
  /\ Confirmed + Len(batch) <= Len(sent)
  /\ \A i \in 1 .. Len(batch) : batch[i] = Confirmed + i

StoreKeepsHandled ==
  ~lost => \A c \in Chats : \E j \in Confirmed .. handled :
             (c \in subscribers) = SubscribedAt(c, j)

SubscribersInv == SubscribersTypeOK /\ FileIsStore /\ BatchIsNext /\ StoreKeepsHandled
=============================================================================

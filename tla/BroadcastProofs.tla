-------------------------- MODULE BroadcastProofs --------------------------
(***************************************************************************)
(* Proofs about Subscribers and Broadcast for every set of chats and of    *)
(* broadcasts, every number of chunks and of retries, and every bound.     *)
(***************************************************************************)
EXTENDS Broadcast, TLAPS

(***************************************************************************)
(* The commands of a chat                                                  *)
(***************************************************************************)
\* A command decides whether its chat is subscribed as of it.
LEMMA CommandDecides ==
  ASSUME NEW i \in 1 .. Len(sent), NEW c \in Chats, SubscribersTypeOK
  PROVE  /\ sent[i] = [chat |-> c, text |-> "/start"] => SubscribedAt(c, i)
         /\ sent[i] = [chat |-> c, text |-> "/stop"] => ~SubscribedAt(c, i)
  <1>1. ASSUME sent[i] = [chat |-> c, text |-> "/start"] PROVE SubscribedAt(c, i)
    <2>1. \A k \in i + 1 .. i : FALSE
      BY DEF SubscribersTypeOK
    <2>2. i \in 1 .. i
      BY DEF SubscribersTypeOK
    <2> QED
      BY <1>1, <2>1, <2>2 DEF SubscribedAt
  <1>2. ASSUME sent[i] = [chat |-> c, text |-> "/stop"], SubscribedAt(c, i) PROVE FALSE
    <2>1. PICK j \in 1 .. i : /\ sent[j] = [chat |-> c, text |-> "/start"]
                              /\ \A k \in j + 1 .. i : sent[k] # [chat |-> c, text |-> "/stop"]
      BY <1>2 DEF SubscribedAt
    <2>2. j = i
      BY <1>2, <2>1 DEF SubscribersTypeOK
    <2> QED
      BY <1>2, <2>1, <2>2
  <1> QED
    BY <1>1, <1>2

\* An update that is no command of the chat changes nothing for it.
LEMMA OthersDoNot ==
  ASSUME NEW i \in 1 .. Len(sent), NEW c \in Chats, SubscribersTypeOK,
         sent[i] # [chat |-> c, text |-> "/start"], sent[i] # [chat |-> c, text |-> "/stop"]
  PROVE  SubscribedAt(c, i - 1) = SubscribedAt(c, i)
  <1>0. i \in Nat \ {0}
    BY DEF SubscribersTypeOK
  <1>1. ASSUME SubscribedAt(c, i) PROVE SubscribedAt(c, i - 1)
    <2>1. PICK j \in 1 .. i : /\ sent[j] = [chat |-> c, text |-> "/start"]
                              /\ \A k \in j + 1 .. i : sent[k] # [chat |-> c, text |-> "/stop"]
      BY <1>1 DEF SubscribedAt
    <2>2. j \in 1 .. i - 1 /\ \A k \in j + 1 .. i - 1 : k \in j + 1 .. i
      BY <1>0, <2>1
    <2> QED
      BY <2>1, <2>2 DEF SubscribedAt
  <1>2. ASSUME SubscribedAt(c, i - 1) PROVE SubscribedAt(c, i)
    <2>1. PICK j \in 1 .. i - 1 :
            /\ sent[j] = [chat |-> c, text |-> "/start"]
            /\ \A k \in j + 1 .. i - 1 : sent[k] # [chat |-> c, text |-> "/stop"]
      BY <1>2 DEF SubscribedAt
    <2>2. j \in 1 .. i /\ \A k \in j + 1 .. i : k = i \/ k \in j + 1 .. i - 1
      BY <1>0, <2>1
    <2> QED
      BY <2>1, <2>2 DEF SubscribedAt
  <1>3. SubscribedAt(c, i - 1) \in BOOLEAN /\ SubscribedAt(c, i) \in BOOLEAN
    BY DEF SubscribedAt
  <1> QED
    BY <1>1, <1>2, <1>3

\* A new update changes nothing as of the earlier ones.
LEMMA LaterDoNot ==
  ASSUME SubscribersTypeOK, NEW u \in Updates, sent' = Append(sent, u),
         NEW j \in 0 .. Len(sent), NEW c \in Chats
  PROVE  SubscribedAt(c, j)' = SubscribedAt(c, j)
  <1>1. \A i \in 1 .. j : sent'[i] = sent[i]
    BY DEF SubscribersTypeOK
  <1>2. \A i \in 1 .. j : \A k \in i + 1 .. j : sent'[k] = sent[k]
    BY DEF SubscribersTypeOK
  <1> QED
    BY <1>1, <1>2 DEF SubscribedAt

(***************************************************************************)
(* The poller and the store                                                *)
(***************************************************************************)
LEMMA SubscribersInitInv == SubscribersInit => SubscribersInv
  <1> SUFFICES ASSUME SubscribersInit PROVE SubscribersInv
    OBVIOUS
  <1> USE DEF SubscribersInit
  <1>1. SubscribersTypeOK
    <2>1. active \in BOOLEAN /\ polling \in BOOLEAN /\ unsaved \in BOOLEAN /\ lost \in BOOLEAN
      BY Zenon
    <2>2. sent \in Seq(Updates) /\ batch \in Seq(Nat)
      OBVIOUS
    <2> QED
      BY <2>1, <2>2 DEF SubscribersTypeOK
  <1>2. FileIsStore /\ BatchIsNext
    BY DEF FileIsStore, BatchIsNext, Confirmed
  <1>3. \A c \in Chats : ~SubscribedAt(c, 0)
    BY DEF SubscribedAt
  <1>4. StoreKeepsHandled
    <2>1. 0 \in Confirmed .. handled
      BY DEF Confirmed
    <2>2. \A c \in Chats : SubscribedAt(c, 0) \in BOOLEAN
      BY DEF SubscribedAt
    <2>3. ASSUME NEW c \in Chats PROVE (c \in subscribers) = SubscribedAt(c, 0)
      <3>1. c \notin subscribers /\ ~SubscribedAt(c, 0) /\ SubscribedAt(c, 0) \in BOOLEAN
        BY <1>3, <2>2
      <3> QED
        BY <3>1
    <2> QED
      BY <2>1, <2>3 DEF StoreKeepsHandled
  <1> QED
    BY <1>1, <1>2, <1>4 DEF SubscribersInv

LEMMA SendsUpdateInv ==
  ASSUME SubscribersInv, NEW u \in Updates, SendsUpdate(u)
  PROVE  SubscribersInv'
  <1> USE DEF SubscribersInv, SendsUpdate, telegramVars, pollerVars, storeVars
  <1>1. SubscribersTypeOK' /\ FileIsStore'
    BY DEF SubscribersTypeOK, FileIsStore
  <1>2. Len(sent') = Len(sent) + 1 /\ Confirmed' = Confirmed
    BY DEF SubscribersTypeOK, Confirmed
  <1>3. BatchIsNext'
    BY <1>2 DEF BatchIsNext, SubscribersTypeOK, Confirmed
  <1>4. ASSUME NEW j \in Confirmed .. handled, NEW c \in Chats
        PROVE  SubscribedAt(c, j)' = SubscribedAt(c, j)
    <2>1. j \in 0 .. Len(sent)
      BY DEF SubscribersTypeOK, BatchIsNext, Confirmed
    <2> QED
      BY <2>1, LaterDoNot
  <1>5. StoreKeepsHandled'
    BY <1>2, <1>4 DEF StoreKeepsHandled
  <1> QED
    BY <1>1, <1>3, <1>5

LEMMA PollInv ==
  ASSUME SubscribersInv,
         BeginsPoll \/ PollAnswered \/ PollFails \/ \E on \in BOOLEAN : SetActive(on)
  PROVE  SubscribersInv'
  <1> USE DEF SubscribersInv, telegramVars, pollerVars, storeVars
  <1>0. Confirmed \in Nat /\ confirmed <= Confirmed
    BY DEF SubscribersTypeOK, Confirmed
  <1>1. CASE BeginsPoll
    <2> USE <1>1 DEF BeginsPoll
    <2>1. polling' \in BOOLEAN
      BY Zenon
    <2>2. SubscribersTypeOK' /\ FileIsStore'
      BY <2>1 DEF SubscribersTypeOK, FileIsStore
    <2>3. BatchIsNext' /\ StoreKeepsHandled'
      BY DEF BatchIsNext, Confirmed, StoreKeepsHandled, SubscribedAt
    <2> QED
      BY <2>2, <2>3
  <1>2. CASE PollAnswered
    <2> USE <1>2 DEF PollAnswered
    <2>1. Confirmed' = Confirmed
      BY <1>0 DEF SubscribersTypeOK, Confirmed
    <2>2. Len(sent) - Confirmed \in Nat
      BY <1>0 DEF SubscribersTypeOK, BatchIsNext
    <2>3. batch' \in Seq(Nat) /\ Len(batch') = Len(sent) - Confirmed
      BY <1>0, <2>2
    <2>4. SubscribersTypeOK'
      <3>1. polling' \in BOOLEAN
        OBVIOUS
      <3> QED
        BY <1>0, <2>3, <3>1 DEF SubscribersTypeOK
    <2>5. \A i \in 1 .. Len(batch') : batch'[i] = Confirmed + i
      BY <2>2, <2>3
    <2>6. BatchIsNext'
      BY <1>0, <2>1, <2>3, <2>5 DEF BatchIsNext, SubscribersTypeOK
    <2>7. StoreKeepsHandled' /\ FileIsStore'
      BY <2>1 DEF StoreKeepsHandled, FileIsStore, SubscribedAt
    <2> QED
      BY <2>4, <2>6, <2>7
  <1>3. CASE PollFails
    <2> USE <1>3 DEF PollFails
    <2>1. Confirmed' = Confirmed
      BY <1>0 DEF SubscribersTypeOK, Confirmed
    <2>2. SubscribersTypeOK' /\ FileIsStore'
      BY <1>0 DEF SubscribersTypeOK, FileIsStore
    <2>3. BatchIsNext' /\ StoreKeepsHandled'
      BY <2>1 DEF BatchIsNext, StoreKeepsHandled, SubscribedAt
    <2> QED
      BY <2>2, <2>3
  <1>4. CASE \E on \in BOOLEAN : SetActive(on)
    <2>0. PICK on \in BOOLEAN : SetActive(on)
      BY <1>4
    <2> USE <2>0 DEF SetActive
    <2>1. active' \in BOOLEAN
      BY Zenon
    <2>2. SubscribersTypeOK' /\ FileIsStore'
      BY <2>1 DEF SubscribersTypeOK, FileIsStore
    <2>3. Confirmed' = Confirmed
      BY DEF Confirmed
    <2>4. BatchIsNext' /\ StoreKeepsHandled'
      BY <2>3 DEF BatchIsNext, StoreKeepsHandled, SubscribedAt
    <2> QED
      BY <2>2, <2>4
  <1> QED
    BY <1>1, <1>2, <1>3, <1>4

\* The update handled is the one after those that the next request confirms.
LEMMA HandlesNextInv ==
  ASSUME SubscribersInv, HandlesNext
  PROVE  SubscribersInv'
  <1> USE DEF SubscribersInv, HandlesNext, telegramVars, pollerVars
  <1> DEFINE h == Head(batch)
             u == sent[h]
  <1>0. Confirmed \in Nat
    BY DEF SubscribersTypeOK, Confirmed
  <1>1. h = Confirmed + 1 /\ h \in 1 .. Len(sent) /\ u \in Updates /\ Len(batch) \in Nat \ {0}
    <2>1. batch \in Seq(Nat) /\ batch # <<>> /\ sent \in Seq(Updates)
      BY DEF SubscribersTypeOK
    <2>2. Len(batch) \in Nat \ {0} /\ h = batch[1]
      BY <2>1
    <2>3. h = Confirmed + 1 /\ h <= Len(sent)
      BY <1>0, <2>1, <2>2 DEF BatchIsNext
    <2>4. h \in 1 .. Len(sent)
      BY <1>0, <2>1, <2>3
    <2> QED
      BY <2>1, <2>2, <2>3, <2>4
  <1>2. Confirmed' = h
    BY <1>0, <1>1 DEF SubscribersTypeOK, Confirmed
  <1>3. /\ Tail(batch) \in Seq(Nat) /\ Len(Tail(batch)) = Len(batch) - 1
        /\ \A i \in 1 .. Len(batch) - 1 : Tail(batch)[i] = batch[i + 1]
    BY DEF SubscribersTypeOK
  <1>4. handled' \in Nat /\ handled' >= h /\ handled' >= handled /\ handled' <= Len(sent)
    BY <1>1 DEF SubscribersTypeOK, BatchIsNext
  <1>5. /\ subscribers' \subseteq Chats /\ file' \subseteq Chats
        /\ failures' \in Nat /\ unsaved' \in BOOLEAN /\ FileIsStore'
    <2>1. u.chat \in Chats
      BY <1>1 DEF Updates
    <2>2. ASSUME NEW chats \in SUBSET Chats, Persist(chats)
          PROVE  /\ subscribers' \subseteq Chats /\ file' \subseteq Chats
                 /\ failures' \in Nat /\ FileIsStore'
      BY <2>2 DEF Persist, SubscribersTypeOK, FileIsStore
    <2>3. ASSUME NEW chats \in SUBSET Chats, Persist(chats) PROVE unsaved' \in BOOLEAN
      BY <2>3, Zenon DEF Persist
    <2>4. CASE UNCHANGED storeVars
      BY <2>4 DEF storeVars, SubscribersTypeOK, FileIsStore
    <2>5. subscribers \union {u.chat} \in SUBSET Chats /\ subscribers \ {u.chat} \in SUBSET Chats
      BY <2>1 DEF SubscribersTypeOK
    <2> QED
      BY <2>2, <2>3, <2>4, <2>5 DEF HandleUpdate
  <1>6. polling' \in BOOLEAN
    OBVIOUS
  <1>7. SubscribersTypeOK'
    BY <1>1, <1>3, <1>4, <1>5, <1>6 DEF SubscribersTypeOK
  <1>8. BatchIsNext'
    <2>1. Confirmed' <= handled' /\ handled' <= Len(sent') /\ offset' <= handled' + 1
      BY <1>1, <1>2, <1>4 DEF SubscribersTypeOK
    <2>2. Confirmed' + Len(batch') <= Len(sent')
      BY <1>0, <1>1, <1>2, <1>3 DEF BatchIsNext, SubscribersTypeOK
    <2>3. ASSUME NEW i \in 1 .. Len(batch') PROVE batch'[i] = Confirmed' + i
      <3>1. i + 1 \in 1 .. Len(batch) /\ batch'[i] = batch[i + 1]
        BY <1>1, <1>3
      <3>2. batch[i + 1] = Confirmed + (i + 1)
        BY <3>1 DEF BatchIsNext
      <3>3. i \in Nat
        BY <1>3
      <3> HIDE DEF h, HandlesNext
      <3> QED
        BY <1>0, <1>1, <1>2, <3>1, <3>2, <3>3
    <2> QED
      BY <2>1, <2>2, <2>3 DEF BatchIsNext
  <1>9. ASSUME ~lost, NEW c \in Chats
        PROVE  \E j \in h .. handled' : (c \in subscribers') = SubscribedAt(c, j)
    <2>1. h \in h .. handled'
      BY <1>1, <1>4
    <2>2. CASE u = [chat |-> c, text |-> "/start"]
      <3>1. c \in subscribers' /\ SubscribedAt(c, h)
        <4>1. u.chat = c /\ u.text = "/start"
          BY <2>2
        <4>2. c \in subscribers'
          BY <4>1 DEF HandleUpdate, Persist
        <4> QED
          BY <1>1, <2>2, <4>2, CommandDecides
      <3> QED
        BY <2>1, <3>1
    <2>3. CASE u = [chat |-> c, text |-> "/stop"]
      <3>1. c \notin subscribers' /\ ~SubscribedAt(c, h)
        <4>1. u.chat = c /\ u.text = "/stop"
          BY <2>3
        <4>2. c \notin subscribers'
          BY <4>1 DEF HandleUpdate, Persist
        <4> QED
          BY <1>1, <2>3, <4>2, CommandDecides
      <3>2. SubscribedAt(c, h) \in BOOLEAN
        BY DEF SubscribedAt
      <3> QED
        BY <2>1, <3>1, <3>2
    <2>4. CASE u # [chat |-> c, text |-> "/start"] /\ u # [chat |-> c, text |-> "/stop"]
      <3>1. (c \in subscribers') = (c \in subscribers)
        <4>1. u.text \in {"/start", "/stop"} => u.chat # c
          BY <1>1, <2>4 DEF Updates
        <4> QED
          BY <1>1, <4>1 DEF HandleUpdate, Persist, storeVars, SubscribersTypeOK, Updates
      <3>2. PICK j \in Confirmed .. handled : (c \in subscribers) = SubscribedAt(c, j)
        BY <1>9 DEF StoreKeepsHandled
      <3>3. CASE j = h - 1
        <4>1. SubscribedAt(c, j) = SubscribedAt(c, h)
          BY <1>1, <2>4, <3>3, OthersDoNot
        <4> QED
          BY <2>1, <3>1, <3>2, <4>1
      <3>4. CASE j # h - 1
        <4>1. j \in h .. handled'
          <5>1. j \in Nat /\ handled' \in Nat /\ h \in Nat
            BY <1>0, <1>1, <1>4, <3>2 DEF SubscribersTypeOK
          <5>2. Confirmed <= j /\ j <= handled
            BY <1>0, <3>2 DEF SubscribersTypeOK
          <5> QED
            BY <1>0, <1>1, <1>4, <3>4, <5>1, <5>2 DEF SubscribersTypeOK
        <4> QED
          BY <3>1, <3>2, <4>1
      <3> QED
        BY <3>3, <3>4
    <2> QED
      BY <2>2, <2>3, <2>4
  <1>10. StoreKeepsHandled'
    <2> HIDE DEF h, u
    <2>1. lost' = lost /\ sent' = sent
      OBVIOUS
    <2> HIDE DEF SubscribersInv, HandlesNext
    <2>2. \A c, j : SubscribedAt(c, j)' = SubscribedAt(c, j)
      BY <2>1 DEF SubscribedAt
    <2>3. ASSUME ~lost, NEW c \in Chats
          PROVE  \E j \in Confirmed' .. handled' :
                   (c \in subscribers') = SubscribedAt(c, j)'
      BY <1>2, <1>9, <2>2, <2>3
    <2> QED
      BY <2>1, <2>3 DEF StoreKeepsHandled
  <1> QED
    BY <1>5, <1>7, <1>8, <1>10

\* A restart takes the offset back, and more updates may be handled again.
LEMMA RestartsInv ==
  ASSUME SubscribersInv, Restarts
  PROVE  SubscribersInv'
  <1> USE DEF SubscribersInv, Restarts, telegramVars
  <1>0. Confirmed \in Nat /\ confirmed \in Nat /\ confirmed <= Confirmed
    BY DEF SubscribersTypeOK, Confirmed
  <1>1. lost' \in BOOLEAN /\ unsaved' \in BOOLEAN /\ polling' \in BOOLEAN
    BY Zenon
  <1>2. SubscribersTypeOK'
    BY <1>1 DEF SubscribersTypeOK
  <1>3. FileIsStore'
    BY DEF FileIsStore
  <1>4. Confirmed' = confirmed
    BY <1>0 DEF Confirmed
  <1>5. BatchIsNext'
    BY <1>0, <1>4 DEF BatchIsNext, SubscribersTypeOK
  <1>6. StoreKeepsHandled'
    <2> SUFFICES ASSUME ~lost', NEW c \in Chats
                 PROVE  \E j \in confirmed .. handled : (c \in subscribers') = SubscribedAt(c, j)
      BY <1>4 DEF StoreKeepsHandled, SubscribedAt
    <2>1. subscribers' = subscribers /\ ~lost
      BY DEF FileIsStore
    <2>2. PICK j \in Confirmed .. handled : (c \in subscribers) = SubscribedAt(c, j)
      BY <2>1 DEF StoreKeepsHandled
    <2>3. j \in confirmed .. handled
      BY <1>0, <2>2 DEF SubscribersTypeOK
    <2> QED
      BY <2>1, <2>2, <2>3
  <1> QED
    BY <1>2, <1>3, <1>5, <1>6

(***************************************************************************)
(* The sender                                                              *)
(***************************************************************************)
LEMMA SenderInitInv == SenderInit => SenderInv
  <1> SUFFICES ASSUME SenderInit PROVE SenderInv
    OBVIOUS
  <1> USE BroadcastAssumption DEF SenderInit
  <1>1. SenderTypeOK
    BY DEF SenderTypeOK
  <1>2. ChunksInOrder
    BY DEF ChunksInOrder
  <1>3. \A b \in Broadcasts : TurnsInOrder(b)
    BY DEF TurnsInOrder, Running
  <1> QED
    BY <1>1, <1>2, <1>3 DEF SenderInv

\* What a step leaves alone of a broadcast keeps its part of the invariant.
LEMMA UnchangedTurn ==
  ASSUME NEW b \in Broadcasts, TurnsInOrder(b),
         state'[b] = state[b], recipients'[b] = recipients[b], todo'[b] = todo[b],
         current'[b] = current[b], sentChunks'[b] = sentChunks[b], attempt'[b] = attempt[b],
         failed'[b] = failed[b], expired'[b] = expired[b], received'[b] = received[b],
         refused'[b] = refused[b]
  PROVE  TurnsInOrder(b)'
  BY DEF TurnsInOrder, Running, Whole

\* A chunk that arrives is the next one of the current chat.
LEMMA ArrivalInOrder ==
  ASSUME SenderInv, NEW b \in Broadcasts, NEW c \in Chats, current[b] = {c}, Arrives(b, c)
  PROVE  /\ received' \in [Broadcasts -> [Chats -> Seq(Nat)]]
         /\ ChunksInOrder'
         /\ Len(received'[b][c]) = sentChunks[b] + 1
         /\ \A d \in Chats \ {c} : received'[b][d] = received[b][d]
         /\ \A e \in Broadcasts \ {b} : received'[e] = received[e]
  <1> USE DEF SenderInv, SenderTypeOK
  <1> DEFINE got == received[b][c]
             n   == sentChunks[b]
  <1>1. got \in Seq(Nat) /\ Len(got) = n /\ n \in Nat /\ n < Chunks
    BY DEF TurnsInOrder
  <1>2. received'[b][c] = Append(got, n + 1)
    BY DEF Arrives
  <1>3. /\ \A d \in Chats \ {c} : received'[b][d] = received[b][d]
        /\ \A e \in Broadcasts \ {b} : received'[e] = received[e]
    BY DEF Arrives
  <1>4. received' \in [Broadcasts -> [Chats -> Seq(Nat)]]
    <2>1. Append(got, n + 1) \in Seq(Nat)
      BY <1>1
    <2> QED
      BY <2>1 DEF Arrives
  <1>5. Len(received'[b][c]) = n + 1
    BY <1>1, <1>2
  <1>6. /\ Len(received'[b][c]) <= Chunks
        /\ \A i \in 1 .. Len(received'[b][c]) : received'[b][c][i] = i
    <2>1. \A i \in 1 .. n : got[i] = i
      BY <1>1 DEF ChunksInOrder
    <2> HIDE DEF got, n
    <2> QED
      BY <1>1, <1>2, <1>5, <2>1, BroadcastAssumption
  <1>7. ChunksInOrder'
    BY <1>3, <1>6 DEF ChunksInOrder
  <1> QED
    BY <1>3, <1>4, <1>5, <1>7

\* What EndsTurn does for its broadcast and for the others.
TurnEnded(b, c) ==
  /\ todo'[b] = todo[b] \ {c} /\ current'[b] = {}
  /\ todo[b] = {c} => state'[b] = "returned"
  /\ todo[b] # {c} => state'[b] = "sends"
  /\ failed[b] => failed'[b]
TurnsTyped ==
  /\ state \in [Broadcasts -> {"idle", "sends", "waits", "returned", "gone"}]
  /\ todo \in [Broadcasts -> SUBSET Chats] /\ current \in [Broadcasts -> SUBSET Chats]
  /\ failed \in [Broadcasts -> BOOLEAN]

LEMMA EndsTurnValues ==
  ASSUME SenderTypeOK, NEW b \in Broadcasts, NEW c \in Chats, NEW err \in BOOLEAN,
         EndsTurn(b, c, err)
  PROVE  /\ TurnEnded(b, c) /\ TurnsTyped' /\ (err => failed'[b])
         /\ \A e \in Broadcasts \ {b} : /\ state'[e] = state[e] /\ todo'[e] = todo[e]
                                        /\ current'[e] = current[e] /\ failed'[e] = failed[e]
  <1> USE DEF SenderTypeOK, EndsTurn
  <1>1. failed' = [failed EXCEPT ![b] = failed[b] \/ err]
    OBVIOUS
  <1>2. failed' \in [Broadcasts -> BOOLEAN] /\ ((failed[b] \/ err) => failed'[b])
    BY <1>1
  <1> QED
    BY <1>2 DEF TurnEnded, TurnsTyped

\* A turn that ends with the whole message or with a failure that is remembered.
LEMMA EndedTurn ==
  ASSUME SenderTypeOK, NEW b \in Broadcasts, TurnsInOrder(b), Running(b),
         NEW c \in Chats, current[b] = {c},
         TurnEnded(b, c), recipients'[b] = recipients[b], refused[b] \subseteq refused'[b], expired'[b] = expired[b],
         \A d \in Chats \ {c} : received'[b][d] = received[b][d],
         Whole(b, c)' \/ (failed'[b] /\ (c \in refused'[b] \/ expired'[b]))
  PROVE  TurnsInOrder(b)'
  <1> USE DEF TurnsInOrder, Running, TurnEnded
  <1>1. c \in todo[b] /\ todo[b] \subseteq Chats /\ recipients[b] \subseteq Chats
    BY DEF SenderTypeOK
  <1>2. todo'[b] = {} <=> ~Running(b)'
    BY <1>1
  <1>3. \A d \in Chats : d \notin recipients'[b] \/ d \in todo'[b] \ current'[b] =>
                           received'[b][d] = <<>>
    BY <1>1
  <1>4. \A d \in recipients'[b] \ todo'[b] :
          Whole(b, d)' \/ (failed'[b] /\ (d \in refused'[b] \/ expired'[b]))
    <2> SUFFICES ASSUME NEW d \in recipients[b], d \notin todo[b] \ {c}, d # c
                 PROVE  Whole(b, d)' \/ (failed'[b] /\ (d \in refused'[b] \/ expired'[b]))
      OBVIOUS
    <2>1. Whole(b, d) \/ (failed[b] /\ (d \in refused[b] \/ expired[b]))
      OBVIOUS
    <2>2. received'[b][d] = received[b][d]
      BY <1>1
    <2> QED
      BY <2>1, <2>2 DEF Whole
  <1> QED
    BY <1>1, <1>2, <1>3, <1>4

LEMMA BeginsBroadcastInv ==
  ASSUME SubscribersTypeOK, SenderInv, NEW b \in Broadcasts, BeginsBroadcast(b)
  PROVE  SenderInv'
  <1> USE DEF SenderInv, BeginsBroadcast
  <1>1. SenderTypeOK'
    BY DEF SenderTypeOK, SubscribersTypeOK
  <1>2. ChunksInOrder'
    BY DEF ChunksInOrder
  <1>3. TurnsInOrder(b)'
    BY DEF TurnsInOrder, Running, Whole, SenderTypeOK
  <1>4. ASSUME NEW e \in Broadcasts \ {b} PROVE TurnsInOrder(e)'
    BY UnchangedTurn DEF SenderTypeOK
  <1> QED
    BY <1>1, <1>2, <1>3, <1>4

LEMMA NextRecipientInv ==
  ASSUME SenderInv, NEW b \in Broadcasts, NEW c \in Chats, NextRecipient(b, c)
  PROVE  SenderInv'
  <1> USE BroadcastAssumption DEF SenderInv
  <1>1. SenderTypeOK'
    BY DEF SenderTypeOK, NextRecipient
  <1>2. ChunksInOrder'
    BY DEF ChunksInOrder, NextRecipient
  <1>3. /\ state[b] = "sends" /\ current[b] = {} /\ c \in todo[b]
        /\ current'[b] = {c} /\ sentChunks'[b] = 0
        /\ UNCHANGED <<state, recipients, todo, failed, expired, received, refused>>
    BY DEF SenderTypeOK, NextRecipient
  <1>4. received[b][c] = <<>>
    BY <1>3 DEF TurnsInOrder
  <1>5. TurnsInOrder(b)'
    BY <1>3, <1>4 DEF TurnsInOrder, Running, Whole
  <1>6. ASSUME NEW e \in Broadcasts \ {b} PROVE TurnsInOrder(e)'
    BY UnchangedTurn DEF SenderTypeOK, NextRecipient
  <1> QED
    BY <1>1, <1>2, <1>5, <1>6

LEMMA ChunkSentInv ==
  ASSUME SenderInv, NEW b \in Broadcasts, NEW c \in Chats, ChunkSent(b, c)
  PROVE  SenderInv'
  <1> USE BroadcastAssumption DEF SenderInv
  <1>0. Sends(b, c) /\ state[b] = "sends" /\ current[b] = {c} /\ Arrives(b, c)
    BY DEF ChunkSent, Sends
  <1>1. /\ ChunksInOrder'
        /\ received' \in [Broadcasts -> [Chats -> Seq(Nat)]]
        /\ Len(received'[b][c]) = sentChunks[b] + 1
        /\ \A d \in Chats \ {c} : received'[b][d] = received[b][d]
        /\ \A e \in Broadcasts \ {b} : received'[e] = received[e]
    BY <1>0, ArrivalInOrder
  <1>2. /\ sentChunks' \in [Broadcasts -> Nat] /\ attempt' \in [Broadcasts -> 0 .. MaxRetries]
        /\ sentChunks'[b] = sentChunks[b] + 1
        /\ UNCHANGED <<recipients, expired, refused>>
        /\ \A e \in Broadcasts \ {b} : /\ sentChunks'[e] = sentChunks[e]
                                       /\ attempt'[e] = attempt[e]
    BY DEF ChunkSent, SenderTypeOK
  <1>3. CASE sentChunks[b] + 1 = Chunks
    <2>1. EndsTurn(b, c, FALSE)
      BY <1>3 DEF ChunkSent
    <2>2. /\ TurnEnded(b, c) /\ TurnsTyped'
          /\ \A e \in Broadcasts \ {b} : /\ state'[e] = state[e] /\ todo'[e] = todo[e]
                                         /\ current'[e] = current[e] /\ failed'[e] = failed[e]
      BY <2>1, EndsTurnValues
    <2>3. SenderTypeOK'
      BY <1>1, <1>2, <2>2 DEF SenderTypeOK, TurnsTyped
    <2>4. Whole(b, c)'
      BY <1>1, <1>3 DEF Whole
    <2>5. TurnsInOrder(b)'
      BY <1>0, <1>1, <1>2, <2>2, <2>4, EndedTurn DEF Running
    <2>6. ASSUME NEW e \in Broadcasts \ {b} PROVE TurnsInOrder(e)'
      BY <1>1, <1>2, <2>2, UnchangedTurn
    <2> QED
      BY <1>1, <2>3, <2>5, <2>6
  <1>4. CASE sentChunks[b] + 1 # Chunks
    <2>1. UNCHANGED <<state, todo, current, failed>>
      BY <1>4 DEF ChunkSent
    <2>2. SenderTypeOK'
      BY <1>1, <1>2, <2>1 DEF SenderTypeOK
    <2>3. sentChunks[b] + 1 < Chunks
      <3>1. sentChunks[b] < Chunks
        BY <1>0 DEF TurnsInOrder
      <3>2. sentChunks[b] \in Nat
        BY DEF SenderTypeOK
      <3> QED
        BY <1>4, <3>1, <3>2
    <2>4. TurnsInOrder(b)'
      <3>1. c \in todo[b] /\ c \in recipients[b]
        BY <1>0 DEF TurnsInOrder
      <3>2. \A d \in Chats : d \notin recipients'[b] \/ d \in todo'[b] \ current'[b] =>
                               received'[b][d] = <<>>
        BY <1>0, <1>1, <1>2, <2>1, <3>1 DEF TurnsInOrder
      <3>3. \A d \in recipients'[b] \ todo'[b] :
              Whole(b, d)' \/ (failed'[b] /\ (d \in refused'[b] \/ expired'[b]))
        <4> SUFFICES ASSUME NEW d \in recipients[b] \ todo[b]
                     PROVE  Whole(b, d)' \/ (failed[b] /\ (d \in refused[b] \/ expired[b]))
          BY <1>2, <2>1
        <4>1. d \in Chats \ {c}
          BY <3>1 DEF SenderTypeOK
        <4> QED
          BY <1>0, <1>1, <4>1 DEF TurnsInOrder, Whole
      <3> QED
        BY <1>0, <1>1, <1>2, <2>1, <2>3, <3>2, <3>3 DEF TurnsInOrder, Running
    <2>5. ASSUME NEW e \in Broadcasts \ {b} PROVE TurnsInOrder(e)'
      BY <1>1, <1>2, <2>1, UnchangedTurn
    <2> QED
      BY <1>1, <2>2, <2>4, <2>5
  <1> QED
    BY <1>3, <1>4

LEMMA ChunkFailsInv ==
  ASSUME SenderInv, NEW b \in Broadcasts, NEW c \in Chats, ChunkFails(b, c)
  PROVE  SenderInv'
  <1> USE DEF SenderInv
  <1>0. /\ state[b] = "sends" /\ current[b] = {c} /\ EndsTurn(b, c, TRUE)
        /\ Arrives(b, c) \/ UNCHANGED received
    BY DEF ChunkFails, Sends
  <1>1. /\ ChunksInOrder'
        /\ received' \in [Broadcasts -> [Chats -> Seq(Nat)]]
        /\ \A d \in Chats \ {c} : received'[b][d] = received[b][d]
        /\ \A e \in Broadcasts \ {b} : received'[e] = received[e]
    BY <1>0, ArrivalInOrder DEF SenderTypeOK, ChunksInOrder
  <1>2. /\ TurnEnded(b, c) /\ TurnsTyped' /\ failed'[b]
        /\ \A e \in Broadcasts \ {b} : /\ state'[e] = state[e] /\ todo'[e] = todo[e]
                                       /\ current'[e] = current[e] /\ failed'[e] = failed[e]
    BY <1>0, EndsTurnValues
  <1>3. /\ refused' \in [Broadcasts -> SUBSET Chats]
        /\ c \in refused'[b] /\ refused[b] \subseteq refused'[b]
        /\ UNCHANGED <<recipients, sentChunks, attempt, expired>>
        /\ \A e \in Broadcasts \ {b} : refused'[e] = refused[e]
    BY DEF ChunkFails, SenderTypeOK
  <1>4. SenderTypeOK'
    BY <1>1, <1>2, <1>3 DEF SenderTypeOK, TurnsTyped
  <1>5. TurnsInOrder(b)'
    BY <1>0, <1>1, <1>2, <1>3, EndedTurn DEF Running
  <1>6. ASSUME NEW e \in Broadcasts \ {b} PROVE TurnsInOrder(e)'
    BY <1>1, <1>2, <1>3, UnchangedTurn
  <1> QED
    BY <1>1, <1>4, <1>5, <1>6

LEMMA RateLimitedInv ==
  ASSUME SenderInv, NEW b \in Broadcasts, NEW c \in Chats, RateLimited(b, c)
  PROVE  SenderInv'
  <1> USE BroadcastAssumption DEF SenderInv
  <1>0. /\ state[b] = "sends" /\ current[b] = {c}
        /\ UNCHANGED <<recipients, sentChunks, attempt, expired, received>>
    BY DEF RateLimited, Sends
  <1>1. ChunksInOrder'
    BY <1>0 DEF ChunksInOrder
  <1>2. CASE attempt[b] < MaxRetries
    <2> USE <1>2 DEF RateLimited
    <2>1. SenderTypeOK'
      BY DEF SenderTypeOK
    <2>2. state'[b] = "waits" /\ state[b] = "sends"
      BY DEF SenderTypeOK, Sends
    <2>3. TurnsInOrder(b)'
      BY <2>2 DEF TurnsInOrder, Running, Whole
    <2>4. ASSUME NEW e \in Broadcasts \ {b} PROVE TurnsInOrder(e)'
      BY UnchangedTurn DEF SenderTypeOK
    <2> QED
      BY <1>1, <2>1, <2>3, <2>4
  <1>3. CASE ~(attempt[b] < MaxRetries)
    <2>1. EndsTurn(b, c, TRUE) /\ refused' = [refused EXCEPT ![b] = @ \union {c}]
      BY <1>3 DEF RateLimited
    <2>2. /\ TurnEnded(b, c) /\ TurnsTyped' /\ failed'[b]
          /\ \A e \in Broadcasts \ {b} : /\ state'[e] = state[e] /\ todo'[e] = todo[e]
                                         /\ current'[e] = current[e] /\ failed'[e] = failed[e]
      BY <2>1, EndsTurnValues
    <2>3. /\ refused' \in [Broadcasts -> SUBSET Chats]
          /\ c \in refused'[b] /\ refused[b] \subseteq refused'[b]
          /\ \A e \in Broadcasts \ {b} : refused'[e] = refused[e]
      BY <2>1 DEF SenderTypeOK
    <2>4. SenderTypeOK'
      BY <1>0, <2>2, <2>3 DEF SenderTypeOK, TurnsTyped
    <2>5. TurnsInOrder(b)'
      BY <1>0, <2>2, <2>3, EndedTurn DEF Running
    <2>6. ASSUME NEW e \in Broadcasts \ {b} PROVE TurnsInOrder(e)'
      BY <1>0, <2>2, <2>3, UnchangedTurn
    <2> QED
      BY <1>1, <2>4, <2>5, <2>6
  <1> QED
    BY <1>2, <1>3

LEMMA RetriesInv ==
  ASSUME SenderInv, NEW b \in Broadcasts, Retries(b)
  PROVE  SenderInv'
  <1> USE BroadcastAssumption DEF SenderInv, Retries
  <1>1. SenderTypeOK'
    BY DEF SenderTypeOK, TurnsInOrder
  <1>2. ChunksInOrder'
    BY DEF ChunksInOrder
  <1>3. TurnsInOrder(b)'
    <2>1. state'[b] = "sends" /\ state[b] = "waits"
      BY DEF SenderTypeOK
    <2> QED
      BY <2>1 DEF TurnsInOrder, Running, Whole
  <1>4. ASSUME NEW e \in Broadcasts \ {b} PROVE TurnsInOrder(e)'
    BY UnchangedTurn DEF SenderTypeOK
  <1> QED
    BY <1>1, <1>2, <1>3, <1>4

LEMMA WaitCancelledInv ==
  ASSUME SenderInv, NEW b \in Broadcasts, NEW c \in Chats, WaitCancelled(b, c)
  PROVE  SenderInv'
  <1> USE DEF SenderInv, WaitCancelled
  <1>1. EndsTurn(b, c, TRUE)
    OBVIOUS
  <1>2. SenderTypeOK' /\ failed'[b]
    BY <1>1, EndsTurnValues DEF SenderTypeOK, TurnsTyped
  <1>3. ChunksInOrder'
    BY DEF ChunksInOrder
  <1>4. TurnsInOrder(b)'
    BY <1>1, <1>2, EndsTurnValues, EndedTurn DEF Running
  <1>5. ASSUME NEW e \in Broadcasts \ {b} PROVE TurnsInOrder(e)'
    BY <1>1, EndsTurnValues, UnchangedTurn DEF SenderTypeOK
  <1> QED
    BY <1>2, <1>3, <1>4, <1>5

LEMMA ExpiresInv ==
  ASSUME SenderInv, NEW b \in Broadcasts, Expires(b)
  PROVE  SenderInv'
  <1> USE DEF SenderInv, Expires
  <1>1. SenderTypeOK'
    BY DEF SenderTypeOK
  <1>2. ChunksInOrder'
    BY DEF ChunksInOrder
  <1>3. TurnsInOrder(b)'
    BY DEF TurnsInOrder, Running, Whole, SenderTypeOK
  <1>4. ASSUME NEW e \in Broadcasts \ {b} PROVE TurnsInOrder(e)'
    BY UnchangedTurn DEF SenderTypeOK
  <1> QED
    BY <1>1, <1>2, <1>3, <1>4

LEMMA RestartsWithBroadcastsInv ==
  ASSUME SenderInv, RestartsWithBroadcasts
  PROVE  SenderInv'
  <1> USE DEF SenderInv, RestartsWithBroadcasts
  <1>1. SenderTypeOK'
    BY DEF SenderTypeOK
  <1>2. ChunksInOrder'
    BY DEF ChunksInOrder
  <1>3. ASSUME NEW b \in Broadcasts PROVE TurnsInOrder(b)'
    BY DEF TurnsInOrder, Running, Whole, SenderTypeOK
  <1> QED
    BY <1>1, <1>2, <1>3

(***************************************************************************)
(* The theorems                                                            *)
(***************************************************************************)
LEMMA InitInv == Init => TelegramInv
  BY SubscribersInitInv, SenderInitInv DEF Init, TelegramInv

LEMMA UnchangedSubscribers == SubscribersInv /\ UNCHANGED subscriberVars => SubscribersInv'
  <1> SUFFICES ASSUME SubscribersInv, UNCHANGED subscriberVars PROVE SubscribersInv'
    OBVIOUS
  <1> USE DEF SubscribersInv, subscriberVars, telegramVars, pollerVars, storeVars
  <1>1. Confirmed' = Confirmed
    BY DEF Confirmed
  <1>2. SubscribersTypeOK' /\ FileIsStore'
    BY DEF SubscribersTypeOK, FileIsStore
  <1>3. BatchIsNext' /\ StoreKeepsHandled'
    BY <1>1 DEF BatchIsNext, StoreKeepsHandled, SubscribedAt
  <1> QED
    BY <1>2, <1>3

LEMMA UnchangedSender == SenderInv /\ UNCHANGED senderVars => SenderInv'
  BY DEF SenderInv, SenderTypeOK, ChunksInOrder, TurnsInOrder, Running, Whole, senderVars

LEMMA NextInv == TelegramInv /\ [Next]_vars => TelegramInv'
  <1> SUFFICES ASSUME TelegramInv, [Next]_vars PROVE TelegramInv'
    OBVIOUS
  <1> USE DEF TelegramInv
  <1>0. SubscribersTypeOK
    BY DEF SubscribersInv
  <1>1. CASE UNCHANGED senderVars /\ \E u \in Updates : SendsUpdate(u)
    BY <1>1, SendsUpdateInv, UnchangedSender
  <1>2. CASE UNCHANGED senderVars /\ (PollerStep \/ \E on \in BOOLEAN : SetActive(on))
    BY <1>2, PollInv, HandlesNextInv, UnchangedSender DEF PollerStep
  <1>3. CASE RestartsWithBroadcasts
    BY <1>3, RestartsInv, RestartsWithBroadcastsInv DEF RestartsWithBroadcasts
  <1>4. CASE \E b \in Broadcasts : BeginsBroadcast(b) \/ BroadcastStep(b) \/ Expires(b)
    <2>1. PICK b \in Broadcasts : BeginsBroadcast(b) \/ BroadcastStep(b) \/ Expires(b)
      BY <1>4
    <2>2. UNCHANGED subscriberVars
      BY <2>1 DEF BroadcastStep, BeginsBroadcast, NextRecipient, ChunkSent, ChunkFails,
                  RateLimited, Retries, WaitCancelled, Expires
    <2>3. SenderInv'
      BY <1>0, <2>1, BeginsBroadcastInv, NextRecipientInv, ChunkSentInv, ChunkFailsInv,
         RateLimitedInv, RetriesInv, WaitCancelledInv, ExpiresInv DEF BroadcastStep
    <2> QED
      BY <2>2, <2>3, UnchangedSubscribers
  <1>5. CASE UNCHANGED vars
    BY <1>5, UnchangedSubscribers, UnchangedSender DEF vars
  <1> QED
    BY <1>1, <1>2, <1>3, <1>4, <1>5 DEF Next

\* The inductive invariant of the poller, the store and the sender.
THEOREM TelegramInvariant == Spec => []TelegramInv
  BY InitInv, NextInv, PTL DEF Spec

\* Every variable of the poller, the store and the sender has its type.
THEOREM TelegramTypeCorrect == Spec => []TypeOK
  <1>1. TelegramInv => TypeOK
    BY DEF TelegramInv, SubscribersInv, SenderInv, TypeOK
  <1> QED
    BY <1>1, TelegramInvariant, PTL

\* A range that begins no later holds what the other holds.
LEMMA ConfirmedIsEarlier ==
  ASSUME SubscribersInv
  PROVE  StoreKeepsConfirmed
  <1> USE DEF SubscribersInv
  <1>1. \A j \in Confirmed .. handled : j \in confirmed .. handled
    BY DEF SubscribersTypeOK, Confirmed
  <1> QED
    BY <1>1 DEF StoreKeepsHandled, StoreKeepsConfirmed

\* No command that Telegram has been told to forget is lost (poll, handleUpdate,
\* Add, Remove, persist), whatever polls, writes and restarts do, unless a restart
\* follows a failed write.
THEOREM NoCommandLost == Spec => []StoreKeepsConfirmed
  <1>1. TelegramInv => StoreKeepsConfirmed
    BY ConfirmedIsEarlier DEF TelegramInv
  <1> QED
    BY <1>1, TelegramInvariant, PTL

\* A poller that has caught up after any number of restarts has the subscribers
\* right, although updates were handled twice.
THEOREM RedeliveryConverges == Spec => []CaughtUpIsExact
  <1>1. ASSUME SubscribersInv PROVE CaughtUpIsExact
    <2> SUFFICES ASSUME ~lost, CaughtUp, NEW c \in Chats
                 PROVE  (c \in subscribers) = SubscribedAt(c, handled)
      BY DEF CaughtUpIsExact
    <2>1. \A j \in Confirmed .. handled : j = handled
      BY <1>1 DEF CaughtUp, SubscribersInv, SubscribersTypeOK, BatchIsNext, Confirmed
    <2> QED
      BY <1>1, <2>1 DEF SubscribersInv, StoreKeepsHandled
  <1>2. TelegramInv => CaughtUpIsExact
    BY <1>1 DEF TelegramInv
  <1> QED
    BY <1>2, TelegramInvariant, PTL

\* A chat receives the beginning of a message, in order and nothing twice (sendTo,
\* sendChunk), for every number of chunks and of retries.
THEOREM ChunksAlwaysInOrder == Spec => []ChunksInOrder
  <1>1. TelegramInv => ChunksInOrder
    BY DEF TelegramInv, SenderInv
  <1> QED
    BY <1>1, TelegramInvariant, PTL

LEMMA ReturnedDelivers ==
  ASSUME TelegramInv, NEW b \in Broadcasts, state[b] = "returned", NEW c \in recipients[b]
  PROVE  Len(received[b][c]) = Chunks \/ (failed[b] /\ (c \in refused[b] \/ expired[b]))
  BY DEF TelegramInv, SenderInv, TurnsInOrder, Running, Whole

\* Broadcast returns nil only if every subscriber of its snapshot got all of it.
THEOREM NilAlwaysMeansDelivered == Spec => []NilMeansDelivered
  <1>1. TelegramInv => NilMeansDelivered
    BY ReturnedDelivers DEF NilMeansDelivered
  <1> QED
    BY <1>1, TelegramInvariant, PTL

\* A subscriber whom Telegram refuses keeps nobody else from the message.
THEOREM FailureAlwaysIsolated == Spec => []FailureIsIsolated
  <1>1. TelegramInv => FailureIsIsolated
    BY ReturnedDelivers DEF FailureIsIsolated
  <1> QED
    BY <1>1, TelegramInvariant, PTL

\* A broadcast goes to subscribers as of an update Telegram has not forgotten before.
THEOREM RecipientsAlwaysSubscribed == Spec => RecipientsAreSubscribed
  <1>1. ASSUME TelegramInv, [Next]_vars, ~lost, NEW b \in Broadcasts, state[b] = "idle",
               state'[b] # "idle"
        PROVE  recipients'[b] = subscribers
    <2> USE DEF TelegramInv, SenderInv, SenderTypeOK
    <2>1. todo[b] = {} /\ current[b] = {}
      BY <1>1 DEF TurnsInOrder, Running
    <2>2. CASE UNCHANGED senderVars
      BY <1>1, <2>2 DEF senderVars
    <2>3. CASE RestartsWithBroadcasts
      BY <1>1, <2>3 DEF RestartsWithBroadcasts
    <2>4. ASSUME NEW e \in Broadcasts, BeginsBroadcast(e) PROVE recipients'[b] = subscribers
      BY <1>1, <2>4 DEF BeginsBroadcast
    <2>5. ASSUME NEW e \in Broadcasts, BroadcastStep(e) \/ Expires(e)
          PROVE  FALSE
      <3>1. e # b
        BY <1>1, <2>1, <2>5 DEF BroadcastStep, NextRecipient, ChunkSent, ChunkFails,
             RateLimited, Retries, WaitCancelled, Expires, Sends
      <3>2. state'[b] = state[b]
        BY <1>1, <2>5, <3>1 DEF BroadcastStep, NextRecipient, ChunkSent, ChunkFails, RateLimited,
             Retries, WaitCancelled, Expires, EndsTurn
      <3> QED
        BY <1>1, <3>2
    <2> QED
      BY <1>1, <2>2, <2>3, <2>4, <2>5 DEF Next, vars, senderVars
  <1>2. ASSUME TelegramInv, ~lost, NEW c \in subscribers
        PROVE  \E j \in confirmed .. handled : SubscribedAt(c, j)
    <2>1. StoreKeepsConfirmed /\ c \in Chats
      BY <1>2, ConfirmedIsEarlier DEF TelegramInv, SubscribersInv, SubscribersTypeOK
    <2> QED
      BY <1>2, <2>1 DEF StoreKeepsConfirmed
  <1>3. TelegramInv /\ [Next]_vars =>
          [\A b \in Broadcasts : state[b] = "idle" /\ state'[b] # "idle" /\ ~lost =>
             \A c \in recipients'[b] : \E j \in confirmed .. handled : SubscribedAt(c, j)]_vars
    BY <1>1, <1>2
  <1> QED
    BY <1>3, TelegramInvariant, PTL DEF Spec, RecipientsAreSubscribed
=============================================================================

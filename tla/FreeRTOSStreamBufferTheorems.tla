-------------------- MODULE FreeRTOSStreamBufferTheorems --------------------
(***************************************************************************)
(* Theorems about FreeRTOSNotification and FreeRTOSStreamBuffer.            *)
(*                                                                          *)
(* NotificationInv says where a task is that waits, or is about to.         *)
(* StreamInv says who is where in the calls of the buffer, what a side that *)
(* copies has seen of the other, and, of a message buffer, where in the     *)
(* ring the messages begin.                                                 *)
(***************************************************************************)
EXTENDS FreeRTOSStreamBuffer, SequenceTheorems, TLAPS

WaitLabels == {"mark", "place", "resumeAll", "finish"}
SendLabels ==
  {"checkSpace", "sendWait", "sendWoken", "write", "publish", "sent", "sendCompleted"}
ReceiveLabels ==
  {"receiveWait", "receiveWoken", "read", "consume", "receiveCompleted"}
Labels == {"application"} \union WaitLabels \union SendLabels \union ReceiveLabels

(* A task suspends the scheduler from its first look until it is in its     *)
(* list, so no other task meets it there; what an interrupt does meanwhile  *)
(* is in xPendingReadyList.                                                 *)
WaitInv(t) ==
  /\ unseen[t] /\ ucNotifyState[t] # "received" =>
       pc[t] \in {"place", "resumeAll", "finish"} /\ request[t].op # "wait"
  /\ suspender = t <=> pc[t] \in {"mark", "place", "resumeAll"}
  /\ pc[t] \in {"mark", "place"} => taskState[t] = "ready"
  /\ pc[t] = "mark" => t \notin xPendingReadyList
  /\ pc[t] = "place" => ucNotifyState[t] = "waiting" \/ t \in xPendingReadyList
  /\ ucNotifyState[t] = "waiting" =>
       /\ pc[t] \in {"place", "resumeAll", "finish"}
       /\ t \notin xPendingReadyList
       /\ ~ Notified(t)
  /\ Blocked(t) => ucNotifyState[t] = "waiting" \/ t \in xPendingReadyList

NotificationInv ==
  /\ NotificationTypeOK
  /\ pc \in [Tasks -> Labels]
  /\ back \in [Tasks -> {"application", "sendWoken", "receiveWoken"}]
  /\ xPendingReadyList # {} => suspender # NULL
  /\ \A t \in Tasks : WaitInv(t)

-----------------------------------------------------------------------------
Writer == application.writer
Reader == application.reader

(* Only the writer is in a call to send and only the reader in one to       *)
(* receive; back says so of a task that waits for its notification.         *)
RolesInv ==
  \A t \in Tasks :
    /\ pc[t] \in SendLabels => t = Writer
    /\ pc[t] \in ReceiveLabels => t = Reader
    /\ back[t] = "sendWoken" => t = Writer /\ pc[t] \in WaitLabels \union {"sendWoken"}
    /\ back[t] = "receiveWoken" => t = Reader /\ pc[t] \in WaitLabels \union {"receiveWoken"}

SenderWaits ==
  /\ Writer \in Tasks
  /\ pc[Writer] \in {"sendWait", "sendWoken"} \/ back[Writer] = "sendWoken"
ReceiverWaits ==
  /\ Reader \in Tasks
  /\ pc[Reader] \in {"receiveWait", "receiveWoken"} \/ back[Reader] = "receiveWoken"

RegisteredInv ==
  /\ xTaskWaitingToSend # NULL => xTaskWaitingToSend = Writer /\ SenderWaits
  /\ xTaskWaitingToReceive # NULL => xTaskWaitingToReceive = Reader /\ ReceiverWaits

Sending == UNION {a.sends : a \in Applications}
Sendable == UNION {{SubSeq(data, 1, n) : n \in 1..Len(data)} : data \in Sending}

(* The bytes in the buffer, first to be read first.                         *)
Content == prvReadBytesFromBuffer(0, prvBytesInBuffer)

RingTypeOK ==
  /\ xHead \in 0..(xLength - 1) /\ xTail \in 0..(xLength - 1)
  /\ DOMAIN buffer = 0..(xLength - 1)
  /\ xTriggerLevelBytes \in application.levels
  /\ sendTicks \in Times /\ receiveTicks \in Times
  /\ xSpace \in 0..(xLength - 1) /\ xBytesAvailable \in 0..(xLength - 1)
  /\ xBytesToStoreMessageLength \in Nat /\ size \in Nat

(* What the writer saw of the space is still there; what it copied is       *)
(* behind xHead, and fits.                                                  *)
WriterInv ==
  /\ xSpace <= xStreamBufferSpacesAvailable
  /\ Writer \notin Tasks => xSpace = 0
  /\ Writer \in Tasks =>
       /\ pc[Writer] \in {"checkSpace", "sendWait", "sendWoken", "write"}
            \/ back[Writer] = "sendWoken" => pvTxData \in Sending
       /\ pc[Writer] = "publish" =>
            /\ xSpace = 0
            /\ pvTxData \in Sendable
            /\ Len(Framed(pvTxData)) <= xStreamBufferSpacesAvailable
            /\ \A i \in 1..Len(Framed(pvTxData)) :
                 buffer[(xHead + i - 1) % xLength] = Framed(pvTxData)[i]

(* Of the n bytes c: a message begins behind 0 of them and behind each p of *)
(* B but n.                                                                 *)
MessagesBegin(c, n, B) ==
  /\ B \subseteq 0..n
  /\ 0 \in B /\ n \in B
  /\ \A p \in B : p < n =>
       /\ c[p + 1] \in Nat \ {0}
       /\ p + 1 + c[p + 1] \in B
       /\ \A q \in B : p < q => p + 1 + c[p + 1] <= q

Boundaries(B) == MessagesBegin(Content, prvBytesInBuffer, B)

(* What the reader saw is still there, and ended where a message did.       *)
ReadInv(B) ==
  Reader \in Tasks /\ pc[Reader] = "read" =>
    /\ xBytesAvailable <= prvBytesInBuffer
    /\ IsMessageBuffer => xBytesAvailable \in B
ConsumeInv ==
  Reader \in Tasks /\ pc[Reader] = "consume" =>
    \E n \in 1..(prvBytesInBuffer - Header) :
      /\ taken = [i \in 1..n |-> Content[Header + i]]
      /\ IsMessageBuffer => n = Content[1]

MessagesInv ==
  /\ IF IsMessageBuffer THEN \E B \in SUBSET (0..prvBytesInBuffer) : Boundaries(B) /\ ReadInv(B)
     ELSE ReadInv({})
  /\ ConsumeInv

StreamInv ==
  /\ RolesInv /\ RegisteredInv /\ RingTypeOK /\ WriterInv /\ MessagesInv
  /\ WaitersAreTold

IInv == NotificationInv /\ StreamInv

-----------------------------------------------------------------------------
(* Notifications.                                                           *)

Action == [action : Actions, value : Values]

(* Between calls, and from one to the next.                                 *)
CallsMove ==
  /\ pc' \in [Tasks -> Labels]
  /\ back' \in [Tasks -> {"application", "sendWoken", "receiveWoken"}]
  /\ request' \in [Tasks -> Requests]
  /\ \A t \in Tasks :
       \/ pc'[t] = pc[t] /\ request'[t] = request[t]
       \/ pc[t] \notin WaitLabels /\ pc'[t] \notin WaitLabels

LEMMA ApplicationFacts ==
  ASSUME NotificationTypeOK
  PROVE  /\ application.waits \subseteq Requests
         /\ application.notifies \subseteq Action
         /\ NULL \notin Tasks
BY NotificationAssumption DEF NotificationTypeOK, Action

LEMMA ValuesClosed ==
  /\ \A v, w \in Values : ClearBits(v, w) \in Values /\ v \union w \in Values
  /\ \A v \in Values : Increment(v) \in Values /\ Decrement(v) \in Values
  /\ {} \in Values
BY DEF Values, ClearBits, Increment, Decrement

LEMMA NewValueType ==
  ASSUME NotificationTypeOK, NEW t \in Tasks, NEW a \in Action
  PROVE  NewValue(t, a) \in Values
<1>1. ulNotifiedValue[t] \in Values /\ a.value \in Values
  BY DEF NotificationTypeOK, Action
<1>2. /\ ulNotifiedValue[t] \union a.value \in Values
      /\ Increment(ulNotifiedValue[t]) \in Values
  BY <1>1, ValuesClosed
<1>3. PICK v \in Values : v = ulNotifiedValue[t]
  BY <1>1
<1> QED BY <1>1, <1>2 DEF NewValue

(* In the words of the invariant, what a notification changes.              *)
LEMMA SetNotifiedEffect ==
  ASSUME NotificationTypeOK, NEW t \in Tasks, NEW a \in Action, SetNotified(t, a)
  PROVE  /\ ulNotifiedValue' \in [Tasks -> Values]
         /\ ucNotifyState' \in [Tasks -> {"not waiting", "waiting", "received"}]
         /\ unseen' \in [Tasks -> BOOLEAN]
         /\ ucNotifyState'[t] = "received"
         /\ \A u \in Tasks \ {t} :
              /\ ucNotifyState'[u] = ucNotifyState[u]
              /\ unseen'[u] = unseen[u]
              /\ ulNotifiedValue'[u] = ulNotifiedValue[u]
<1>1. NewValue(t, a) \in Values
  BY NewValueType
<1>2. /\ ulNotifiedValue' = [ulNotifiedValue EXCEPT ![t] = NewValue(t, a)]
      /\ ucNotifyState' = [ucNotifyState EXCEPT ![t] = "received"]
      /\ unseen' = [unseen EXCEPT ![t] = TRUE]
  BY DEF SetNotified
<1> QED BY <1>1, <1>2 DEF NotificationTypeOK

LEMMA MoveInv ==
  ASSUME NotificationInv, CallsMove, UNCHANGED <<application, notifyVars, kernelVars>>
  PROVE  NotificationInv'
<1>1. UNCHANGED <<application, ucNotifyState, ulNotifiedValue, unseen, taskState,
                  xPendingReadyList, suspender>>
  BY DEF notifyVars, kernelVars
<1>2. NotificationTypeOK'
  BY <1>1 DEF NotificationInv, NotificationTypeOK, CallsMove
<1>3. ASSUME NEW t \in Tasks
      PROVE  WaitInv(t)'
  <2>1. WaitInv(t)
    BY DEF NotificationInv
  <2>2. CASE pc'[t] = pc[t] /\ request'[t] = request[t]
    BY <1>1, <2>1, <2>2 DEF WaitInv, Notified, Blocked
  <2>3. CASE pc[t] \notin WaitLabels /\ pc'[t] \notin WaitLabels
    BY <1>1, <2>1, <2>3 DEF WaitInv, Notified, Blocked, WaitLabels
  <2> QED
    BY <2>2, <2>3 DEF CallsMove
<1> QED
  BY <1>1, <1>2, <1>3 DEF NotificationInv, CallsMove

LEMMA ClearInv ==
  ASSUME NotificationInv, CallsMove, NEW t \in Tasks, ClearState(t),
         UNCHANGED <<application, ulNotifiedValue, kernelVars>>
  PROVE  NotificationInv'
<1>1. /\ ucNotifyState' \in [Tasks -> {"not waiting", "waiting", "received"}]
      /\ unseen' \in [Tasks -> BOOLEAN]
      /\ unseen'[t] = FALSE
      /\ (ucNotifyState'[t] = "waiting") <=> (ucNotifyState[t] = "waiting")
      /\ \A u \in Tasks \ {t} :
           ucNotifyState'[u] = ucNotifyState[u] /\ unseen'[u] = unseen[u]
  BY DEF ClearState, ClearedState, NotificationInv, NotificationTypeOK
<1>2. ASSUME NEW u \in Tasks
      PROVE  WaitInv(u)'
  <2>1. WaitInv(u) /\ UNCHANGED <<ulNotifiedValue, taskState, xPendingReadyList, suspender>>
    BY DEF NotificationInv, kernelVars
  <2>2. /\ (ucNotifyState'[u] = "waiting") <=> (ucNotifyState[u] = "waiting")
        /\ unseen'[u] => unseen[u] /\ ucNotifyState'[u] = ucNotifyState[u]
    BY <1>1
  <2>3. \/ pc'[u] = pc[u] /\ request'[u] = request[u]
        \/ pc[u] \notin WaitLabels /\ pc'[u] \notin WaitLabels
    BY DEF CallsMove
  <2> QED
    BY <2>1, <2>2, <2>3 DEF WaitInv, Notified, Blocked, WaitLabels
<1> QED
  BY <1>1, <1>2 DEF NotificationInv, NotificationTypeOK, CallsMove, kernelVars

LEMMA NotifyInv ==
  ASSUME NotificationInv, CallsMove, UNCHANGED application, suspender = NULL,
         NEW t \in Tasks, NEW a \in Action, Notify(t, a)
  PROVE  NotificationInv'
<1>1. /\ ulNotifiedValue' \in [Tasks -> Values]
      /\ ucNotifyState' \in [Tasks -> {"not waiting", "waiting", "received"}]
      /\ unseen' \in [Tasks -> BOOLEAN]
      /\ ucNotifyState'[t] = "received"
      /\ \A u \in Tasks \ {t} :
           /\ ucNotifyState'[u] = ucNotifyState[u]
           /\ unseen'[u] = unseen[u]
           /\ ulNotifiedValue'[u] = ulNotifiedValue[u]
  BY SetNotifiedEffect DEF NotificationInv, Notify
<1>2. xPendingReadyList = {} /\ xPendingReadyList' = {} /\ suspender' = NULL
  BY DEF NotificationInv, Notify
<1>3. /\ taskState' \in [Tasks -> {"ready", "delayed", "forever", "suspended"}]
      /\ ~ Blocked(t)'
      /\ \A u \in Tasks \ {t} : taskState'[u] = taskState[u]
  BY <1>2 DEF Notify, NotificationInv, NotificationTypeOK, WaitInv, Blocked
<1>4. ASSUME NEW u \in Tasks
      PROVE  WaitInv(u)'
  <2>1. WaitInv(u) /\ NULL \notin Tasks
    BY ApplicationFacts DEF NotificationInv
  <2>2. \/ pc'[u] = pc[u] /\ request'[u] = request[u]
        \/ pc[u] \notin WaitLabels /\ pc'[u] \notin WaitLabels
    BY DEF CallsMove
  <2>3. CASE u = t
    BY <1>1, <1>2, <1>3, <2>1, <2>2, <2>3 DEF WaitInv, WaitLabels
  <2>4. CASE u # t
    BY <1>1, <1>2, <1>3, <2>1, <2>2, <2>4 DEF WaitInv, Notified, Blocked, WaitLabels
  <2> QED
    BY <2>3, <2>4
<1> QED
  BY <1>1, <1>2, <1>3, <1>4 DEF NotificationInv, NotificationTypeOK, CallsMove

LEMMA NotifyFromISRInv ==
  ASSUME NotificationInv, CallsMove, UNCHANGED application,
         NEW t \in Tasks, NEW a \in Action, NotifyFromISR(t, a)
  PROVE  NotificationInv'
<1>1. CASE suspender = NULL
  BY <1>1, NotifyInv DEF NotifyFromISR
<1>2. CASE suspender # NULL
  <2>1. /\ ulNotifiedValue' \in [Tasks -> Values]
        /\ ucNotifyState' \in [Tasks -> {"not waiting", "waiting", "received"}]
        /\ unseen' \in [Tasks -> BOOLEAN]
        /\ ucNotifyState'[t] = "received"
        /\ \A u \in Tasks \ {t} :
             /\ ucNotifyState'[u] = ucNotifyState[u]
             /\ unseen'[u] = unseen[u]
             /\ ulNotifiedValue'[u] = ulNotifiedValue[u]
    BY <1>2, SetNotifiedEffect DEF NotificationInv, NotifyFromISR
  <2>2. /\ xPendingReadyList' = IF ucNotifyState[t] = "waiting"
                                THEN xPendingReadyList \union {t} ELSE xPendingReadyList
        /\ UNCHANGED <<taskState, suspender>>
    BY <1>2 DEF NotifyFromISR
  <2>3. ASSUME NEW u \in Tasks
        PROVE  WaitInv(u)'
    <3>1. WaitInv(u)
      BY DEF NotificationInv
    <3>2. \/ pc'[u] = pc[u] /\ request'[u] = request[u]
          \/ pc[u] \notin WaitLabels /\ pc'[u] \notin WaitLabels
      BY DEF CallsMove
    <3>3. CASE u = t
      BY <2>1, <2>2, <3>1, <3>2, <3>3 DEF WaitInv, Blocked, WaitLabels
    <3>4. CASE u # t
      BY <2>1, <2>2, <3>1, <3>2, <3>4 DEF WaitInv, Notified, Blocked, WaitLabels
    <3> QED
      BY <3>3, <3>4
  <2> QED
    BY <2>1, <2>2, <2>3, <1>2 DEF NotificationInv, NotificationTypeOK, CallsMove
<1> QED BY <1>1, <1>2

LEMMA BeginWaitInv ==
  ASSUME NotificationInv, NEW t \in Tasks, Running(t), pc[t] \notin WaitLabels,
         NEW r \in Requests, NEW label \in {"application", "sendWoken", "receiveWoken"},
         BeginWait(t, r, label)
  PROVE  NotificationInv'
<1>1. /\ request' = [request EXCEPT ![t] = r] /\ back' = [back EXCEPT ![t] = label]
      /\ UNCHANGED <<application, notifyVars, taskState, xPendingReadyList>>
  BY DEF BeginWait
<1>2. suspender = NULL /\ xPendingReadyList = {} /\ taskState[t] = "ready" /\ NULL \notin Tasks
  BY ApplicationFacts DEF Running, NotificationInv, WaitInv, WaitLabels
<1>3. \/ suspender' = t /\ pc' = [pc EXCEPT ![t] = "mark"]
      \/ suspender' = NULL /\ pc' = [pc EXCEPT ![t] = "finish"]
  BY <1>2 DEF BeginWait, Goto
<1>4. /\ pc' \in [Tasks -> Labels]
      /\ suspender' \in Tasks \union {NULL}
      /\ request' \in [Tasks -> Requests]
      /\ back' \in [Tasks -> {"application", "sendWoken", "receiveWoken"}]
      /\ \A u \in Tasks \ {t} : pc'[u] = pc[u] /\ request'[u] = request[u]
      /\ pc'[t] \in {"mark", "finish"}
  BY <1>1, <1>3 DEF NotificationInv, NotificationTypeOK, Labels, WaitLabels
<1>5. suspender' = t <=> pc'[t] = "mark"
  BY <1>2, <1>3 DEF NotificationInv
<1>6. ASSUME NEW u \in Tasks
      PROVE  WaitInv(u)'
  <2>1. WaitInv(u) /\ UNCHANGED <<ucNotifyState, unseen, ulNotifiedValue, taskState,
                                  xPendingReadyList>>
    BY <1>1 DEF NotificationInv, notifyVars
  <2>2. CASE u = t
    BY <1>2, <1>4, <1>5, <2>1, <2>2 DEF WaitInv, Blocked, WaitLabels
  <2>3. CASE u # t
    BY <1>2, <1>3, <1>4, <2>1, <2>3 DEF WaitInv, Notified, Blocked
  <2> QED
    BY <2>2, <2>3
<1> QED
  BY <1>1, <1>2, <1>4, <1>6 DEF NotificationInv, NotificationTypeOK, notifyVars

LEMMA Still ==
  ASSUME NotificationInv, UNCHANGED callVars
  PROVE  CallsMove
BY DEF NotificationInv, NotificationTypeOK, CallsMove, callVars

(* Whoever runs outside a call has found the scheduler running.             *)
LEMMA NobodySuspends ==
  ASSUME NotificationInv, NEW t \in Tasks, Running(t), pc[t] \notin {"mark", "place", "resumeAll"}
  PROVE  suspender = NULL /\ xPendingReadyList = {} /\ taskState[t] = "ready"
BY ApplicationFacts DEF NotificationInv, WaitInv, Running

LEMMA MarkWaitingInv ==
  ASSUME NotificationInv, NEW t \in Tasks, MarkWaiting(t)
  PROVE  NotificationInv'
<1>1. /\ pc[t] = "mark" /\ taskState[t] = "ready" /\ WaitInv(t)
      /\ UNCHANGED <<application, unseen, kernelVars, request, back>>
  BY DEF MarkWaiting, At, Running, NotificationInv
<1>2. CASE NothingYet(t, request[t])
  <2>1. /\ ucNotifyState' = [ucNotifyState EXCEPT ![t] = "waiting"]
        /\ ulNotifiedValue' = [ulNotifiedValue EXCEPT ![t] =
                                 ClearBits(ulNotifiedValue[t], request[t].clearOnEntry)]
        /\ pc' = [pc EXCEPT ![t] = "place"]
    BY <1>2 DEF MarkWaiting, Goto
  <2>2. /\ ulNotifiedValue[t] \in Values
        /\ ClearBits(ulNotifiedValue[t], request[t].clearOnEntry) \in Values
    BY ValuesClosed DEF NotificationInv, NotificationTypeOK, Requests
  <2>3. /\ ulNotifiedValue' \in [Tasks -> Values]
        /\ ucNotifyState' \in [Tasks -> {"not waiting", "waiting", "received"}]
        /\ pc' \in [Tasks -> Labels]
        /\ ucNotifyState'[t] = "waiting" /\ pc'[t] = "place"
        /\ \A u \in Tasks \ {t} :
             /\ ucNotifyState'[u] = ucNotifyState[u] /\ pc'[u] = pc[u]
             /\ ulNotifiedValue'[u] = ulNotifiedValue[u]
    BY <2>1, <2>2 DEF NotificationInv, NotificationTypeOK, Labels, WaitLabels
  <2>4. ~ Notified(t)'
    <3>1. CASE request[t].op = "wait"
      BY <1>1, <1>2, <3>1 DEF WaitInv, NothingYet, Notified
    <3>2. CASE request[t].op # "wait"
      BY <1>1, <1>2, <2>1, <2>2, <3>2
         DEF NothingYet, Notified, ClearBits, NotificationInv, NotificationTypeOK
    <3> QED
      BY <3>1, <3>2
  <2>5. ASSUME NEW u \in Tasks
        PROVE  WaitInv(u)'
    <3>1. WaitInv(u) /\ UNCHANGED <<unseen, taskState, xPendingReadyList, suspender, request>>
      BY <1>1 DEF NotificationInv, kernelVars
    <3>2. CASE u = t
      BY <1>1, <1>2, <2>3, <2>4, <3>1, <3>2 DEF WaitInv, Blocked, NothingYet
    <3>3. CASE u # t
      BY <2>3, <3>1, <3>3 DEF WaitInv, Notified, Blocked
    <3> QED
      BY <3>2, <3>3
  <2> QED
    BY <1>1, <2>3, <2>5 DEF NotificationInv, NotificationTypeOK, kernelVars
<1>3. CASE ~ NothingYet(t, request[t])
  <2>1. /\ UNCHANGED notifyVars
        /\ pc' = [pc EXCEPT ![t] = "resumeAll"]
    BY <1>1, <1>3 DEF MarkWaiting, Goto, notifyVars
  <2>2. pc' \in [Tasks -> Labels]
    BY <2>1 DEF NotificationInv, Labels, WaitLabels
  <2>3. ASSUME NEW u \in Tasks
        PROVE  WaitInv(u)'
    <3>1. WaitInv(u) /\ (pc'[u] = IF u = t THEN "resumeAll" ELSE pc[u])
      BY <2>1 DEF NotificationInv
    <3> QED
      BY <1>1, <2>1, <3>1 DEF WaitInv, Notified, Blocked, notifyVars, kernelVars
  <2> QED
    BY <1>1, <2>1, <2>2, <2>3 DEF NotificationInv, NotificationTypeOK, kernelVars, notifyVars
<1> QED
  BY <1>2, <1>3

LEMMA AddToDelayedListInv ==
  ASSUME NotificationInv, NEW t \in Tasks, AddToDelayedList(t)
  PROVE  NotificationInv'
<1>1. /\ pc[t] = "place" /\ pc' = [pc EXCEPT ![t] = "resumeAll"]
      /\ \E s \in {"forever", "delayed"} : taskState' = [taskState EXCEPT ![t] = s]
      /\ UNCHANGED <<application, notifyVars, xPendingReadyList, suspender, request, back>>
  BY DEF AddToDelayedList, At, Goto
<1>2. /\ pc' \in [Tasks -> Labels]
      /\ taskState' \in [Tasks -> {"ready", "delayed", "forever", "suspended"}]
  BY <1>1 DEF NotificationInv, NotificationTypeOK, Labels, WaitLabels
<1>3. ASSUME NEW u \in Tasks
      PROVE  WaitInv(u)'
  <2>1. /\ WaitInv(u)
        /\ pc'[u] = IF u = t THEN "resumeAll" ELSE pc[u]
        /\ u # t => taskState'[u] = taskState[u]
    BY <1>1 DEF NotificationInv, NotificationTypeOK
  <2> QED
    BY <1>1, <2>1 DEF WaitInv, Notified, Blocked, notifyVars
<1> QED
  BY <1>1, <1>2, <1>3 DEF NotificationInv, NotificationTypeOK, notifyVars

LEMMA ResumeAllInv ==
  ASSUME NotificationInv, NEW t \in Tasks, ResumeAll(t)
  PROVE  NotificationInv'
<1>1. /\ suspender = t /\ pc[t] = "resumeAll" /\ suspender' = NULL
      /\ taskState' = [u \in Tasks |-> IF u \in xPendingReadyList THEN "ready" ELSE taskState[u]]
      /\ xPendingReadyList' = {}
      /\ pc' = [pc EXCEPT ![t] = "finish"]
      /\ UNCHANGED <<application, notifyVars, request, back>>
  BY DEF ResumeAll, Goto
<1>2. /\ pc' \in [Tasks -> Labels]
      /\ taskState' \in [Tasks -> {"ready", "delayed", "forever", "suspended"}]
  BY <1>1 DEF NotificationInv, NotificationTypeOK, Labels, WaitLabels
<1>3. ASSUME NEW u \in Tasks
      PROVE  WaitInv(u)'
  <2>1. /\ WaitInv(u) /\ u # NULL
        /\ pc'[u] = IF u = t THEN "finish" ELSE pc[u]
        /\ taskState'[u] = IF u \in xPendingReadyList THEN "ready" ELSE taskState[u]
    BY <1>1, ApplicationFacts DEF NotificationInv, NotificationTypeOK
  <2> QED
    BY <1>1, <2>1 DEF WaitInv, Notified, Blocked, notifyVars
<1> QED
  BY <1>1, <1>2, <1>3 DEF NotificationInv, NotificationTypeOK, notifyVars

LEMMA FinishWaitInv ==
  ASSUME NotificationInv, NEW t \in Tasks, FinishWait(t)
  PROVE  NotificationInv'
<1>1. /\ pc[t] = "finish" /\ taskState[t] = "ready"
      /\ ulNotifiedValue' = [ulNotifiedValue EXCEPT ![t] = ValueTaken(t)]
      /\ ucNotifyState' = [ucNotifyState EXCEPT ![t] = "not waiting"]
      /\ unseen' = [unseen EXCEPT ![t] = FALSE]
      /\ pc' = [pc EXCEPT ![t] = back[t]]
      /\ UNCHANGED <<application, kernelVars, request, back>>
  BY DEF FinishWait, At, Running, Goto
<1>2. back[t] \in {"application", "sendWoken", "receiveWoken"}
  BY DEF NotificationInv
<1>3. ValueTaken(t) \in Values
  <2>1. /\ ulNotifiedValue[t] \in Values /\ request[t].clearOnExit \in Values
    BY DEF NotificationInv, NotificationTypeOK, Requests
  <2>2. /\ Decrement(ulNotifiedValue[t]) \in Values /\ {} \in Values
        /\ ClearBits(ulNotifiedValue[t], request[t].clearOnExit) \in Values
    BY <2>1, ValuesClosed
  <2> QED
    BY <2>1, <2>2 DEF ValueTaken
<1>4. /\ ulNotifiedValue' \in [Tasks -> Values]
      /\ ucNotifyState' \in [Tasks -> {"not waiting", "waiting", "received"}]
      /\ unseen' \in [Tasks -> BOOLEAN]
      /\ pc' \in [Tasks -> Labels]
  BY <1>1, <1>2, <1>3 DEF NotificationInv, NotificationTypeOK, Labels, WaitLabels, SendLabels,
                          ReceiveLabels
<1>5. ASSUME NEW u \in Tasks
      PROVE  WaitInv(u)'
  <2>1. WaitInv(u) /\ UNCHANGED <<taskState, xPendingReadyList, suspender, request>>
    BY <1>1 DEF NotificationInv, kernelVars
  <2>2. CASE u = t
    <3>1. pc'[u] = back[t] /\ ucNotifyState'[u] = "not waiting" /\ unseen'[u] = FALSE
      BY <1>1, <2>2 DEF NotificationInv, NotificationTypeOK
    <3> QED
      BY <1>1, <1>2, <2>1, <2>2, <3>1 DEF WaitInv, Blocked
  <2>3. CASE u # t
    <3>1. /\ pc'[u] = pc[u] /\ ucNotifyState'[u] = ucNotifyState[u] /\ unseen'[u] = unseen[u]
          /\ ulNotifiedValue'[u] = ulNotifiedValue[u]
      BY <1>1, <2>3 DEF NotificationInv, NotificationTypeOK
    <3> QED
      BY <2>1, <3>1 DEF WaitInv, Blocked, Notified
  <2> QED
    BY <2>2, <2>3
<1> QED
  BY <1>1, <1>4, <1>5 DEF NotificationInv, NotificationTypeOK, kernelVars

LEMMA TimeOutInv ==
  ASSUME NotificationInv, NEW t \in Tasks, TimeOut(t)
  PROVE  NotificationInv'
<1>1. /\ suspender = NULL /\ taskState[t] = "delayed"
      /\ taskState' = [taskState EXCEPT ![t] = "ready"]
      /\ request' = [request EXCEPT ![t].ticks = "none"]
      /\ UNCHANGED <<application, notifyVars, xPendingReadyList, suspender, pc, back>>
  BY DEF TimeOut
<1>2. /\ taskState' \in [Tasks -> {"ready", "delayed", "forever", "suspended"}]
      /\ request' \in [Tasks -> Requests]
      /\ \A u \in Tasks : request'[u].op = request[u].op
  <2>1. /\ taskState \in [Tasks -> {"ready", "delayed", "forever", "suspended"}]
        /\ request \in [Tasks -> Requests]
    BY DEF NotificationInv, NotificationTypeOK
  <2>2. taskState' \in [Tasks -> {"ready", "delayed", "forever", "suspended"}]
    BY <1>1, <2>1
  <2>3. ASSUME NEW r \in Requests
        PROVE  [r EXCEPT !.ticks = "none"] \in Requests /\ [r EXCEPT !.ticks = "none"].op = r.op
    BY DEF Requests, Times
  <2>4. /\ request' = [request EXCEPT ![t] = [request[t] EXCEPT !.ticks = "none"]]
        /\ request[t] \in Requests
    BY <1>1, <2>1
  <2> QED
    BY <2>1, <2>2, <2>3, <2>4
<1>3. ASSUME NEW u \in Tasks
      PROVE  WaitInv(u)'
  <2>1. /\ WaitInv(u) /\ request'[u].op = request[u].op
        /\ taskState'[u] = IF u = t THEN "ready" ELSE taskState[u]
    BY <1>1, <1>2 DEF NotificationInv, NotificationTypeOK
  <2> QED
    BY <1>1, <2>1 DEF WaitInv, Notified, Blocked, notifyVars
<1> QED
  BY <1>1, <1>2, <1>3 DEF NotificationInv, NotificationTypeOK, notifyVars

LEMMA ValueClearInv ==
  ASSUME NotificationInv, NEW t \in Tasks, NEW u \in Tasks, ulTaskGenericNotifyValueClear(u, t)
  PROVE  NotificationInv'
<1>1. PICK bits \in Values :
        ulNotifiedValue' = [ulNotifiedValue EXCEPT ![t] = ClearBits(ulNotifiedValue[t], bits)]
  BY DEF ulTaskGenericNotifyValueClear
<1>2. UNCHANGED <<application, ucNotifyState, unseen, kernelVars, callVars>>
  BY DEF ulTaskGenericNotifyValueClear
<1>3. ulNotifiedValue' \in [Tasks -> Values]
  <2>1. ClearBits(ulNotifiedValue[t], bits) \in Values
    BY ValuesClosed DEF NotificationInv, NotificationTypeOK
  <2> QED
    BY <1>1, <2>1 DEF NotificationInv, NotificationTypeOK
<1>4. ASSUME NEW v \in Tasks
      PROVE  WaitInv(v)'
  <2>1. WaitInv(v) /\ (ulNotifiedValue[v] = {} => ulNotifiedValue'[v] = {})
    BY <1>1 DEF NotificationInv, NotificationTypeOK, ClearBits
  <2> QED
    BY <1>2, <2>1 DEF WaitInv, Notified, Blocked, kernelVars, callVars
<1> QED
  BY <1>2, <1>3, <1>4 DEF NotificationInv, NotificationTypeOK, kernelVars, callVars

LEMMA SuspendInv ==
  ASSUME NotificationInv, NEW t \in Tasks, NEW u \in Tasks, vTaskSuspend(u, t)
  PROVE  NotificationInv'
<1>1. /\ taskState' = [taskState EXCEPT ![t] = "suspended"]
      /\ xPendingReadyList' = xPendingReadyList \ {t}
      /\ ucNotifyState' = [ucNotifyState EXCEPT ![t] =
           IF ucNotifyState[t] = "waiting" THEN "not waiting" ELSE ucNotifyState[t]]
      /\ UNCHANGED <<application, ulNotifiedValue, unseen, suspender, callVars>>
      /\ Running(u) /\ pc[u] = "application"
  BY DEF vTaskSuspend, At
<1>2. suspender = NULL /\ xPendingReadyList = {}
  BY <1>1, NobodySuspends
<1>3. /\ taskState' \in [Tasks -> {"ready", "delayed", "forever", "suspended"}]
      /\ ucNotifyState' \in [Tasks -> {"not waiting", "waiting", "received"}]
      /\ xPendingReadyList' = {}
  BY <1>1, <1>2 DEF NotificationInv, NotificationTypeOK
<1>4. ASSUME NEW v \in Tasks
      PROVE  WaitInv(v)'
  <2>1. WaitInv(v) /\ v # NULL /\ UNCHANGED <<ulNotifiedValue, unseen, suspender, pc, request>>
    BY <1>1, ApplicationFacts DEF NotificationInv, callVars
  <2>2. CASE v = t
    <3>1. /\ taskState'[v] = "suspended"
          /\ ucNotifyState'[v] # "waiting"
          /\ ucNotifyState'[v] # ucNotifyState[v] => ucNotifyState[v] = "waiting"
      BY <1>1, <2>2 DEF NotificationInv, NotificationTypeOK
    <3> QED
      BY <1>2, <1>3, <2>1, <2>2, <3>1 DEF WaitInv, Blocked, Notified
  <2>3. CASE v # t
    <3>1. taskState'[v] = taskState[v] /\ ucNotifyState'[v] = ucNotifyState[v]
      BY <1>1, <2>3 DEF NotificationInv, NotificationTypeOK
    <3> QED
      BY <1>2, <1>3, <2>1, <3>1 DEF WaitInv, Blocked, Notified
  <2> QED
    BY <2>2, <2>3
<1> QED
  BY <1>1, <1>3, <1>4 DEF NotificationInv, NotificationTypeOK, callVars

(* A task to resume waits for no notification.                              *)
LEMMA ResumeInv ==
  ASSUME NotificationInv, NEW t \in Tasks,
         (\E u \in Tasks : vTaskResume(u, t)) \/ xTaskResumeFromISR(t)
  PROVE  NotificationInv'
<1>1. /\ prvTaskIsTaskSuspended(t)
      /\ UNCHANGED <<application, notifyVars, suspender, callVars>>
      /\ \/ /\ taskState' = [taskState EXCEPT ![t] = "ready"] /\ UNCHANGED xPendingReadyList
         \/ /\ suspender # NULL /\ xPendingReadyList' = xPendingReadyList \union {t}
            /\ UNCHANGED taskState
  BY DEF vTaskResume, xTaskResumeFromISR
<1>2. taskState' \in [Tasks -> {"ready", "delayed", "forever", "suspended"}]
  BY <1>1 DEF NotificationInv, NotificationTypeOK
<1>3. ASSUME NEW v \in Tasks
      PROVE  WaitInv(v)'
  <2>1. /\ WaitInv(v)
        /\ v # t => taskState'[v] = taskState[v]
        /\ taskState'[v] \in {taskState[v], "ready"}
        /\ v # t => (v \in xPendingReadyList' <=> v \in xPendingReadyList)
    BY <1>1 DEF NotificationInv, NotificationTypeOK
  <2> QED
    BY <1>1, <2>1
       DEF WaitInv, Notified, Blocked, notifyVars, callVars, prvTaskIsTaskSuspended
<1> QED
  BY <1>1, <1>2, <1>3 DEF NotificationInv, NotificationTypeOK, notifyVars, callVars

LEMMA NotificationStep ==
  ASSUME NotificationInv, NotificationNext
  PROVE  NotificationInv'
<1>1. ASSUME NEW t \in Tasks, CallWait(t)
      PROVE  NotificationInv'
  <2>1. PICK r \in application.waits : BeginWait(t, r, "application")
    BY <1>1 DEF CallWait
  <2>2. r \in Requests
    BY <2>1, ApplicationFacts DEF NotificationInv
  <2> QED
    BY <1>1, <2>1, <2>2, BeginWaitInv DEF CallWait, At, WaitLabels
<1>2. ASSUME NEW t \in Tasks, InterruptNotifies(t)
      PROVE  NotificationInv'
  <2>1. PICK a \in application.notifies : NotifyFromISR(t, a)
    BY <1>2 DEF InterruptNotifies
  <2>2. a \in Action
    BY <2>1, ApplicationFacts DEF NotificationInv
  <2>3. CallsMove
    BY <1>2, Still DEF InterruptNotifies
  <2> QED
    BY <1>2, <2>1, <2>2, <2>3, NotifyFromISRInv DEF InterruptNotifies
<1>3. ASSUME NEW t \in Tasks, NEW u \in Tasks, CallNotify(u, t)
      PROVE  NotificationInv'
  <2>1. PICK a \in application.notifies : Notify(t, a)
    BY <1>3 DEF CallNotify
  <2>2. a \in Action
    BY <2>1, ApplicationFacts DEF NotificationInv
  <2>3. CallsMove
    BY <1>3, Still DEF CallNotify
  <2>4. suspender = NULL
    BY <1>3, NobodySuspends DEF CallNotify, At
  <2> QED
    BY <1>3, <2>1, <2>2, <2>3, <2>4, NotifyInv DEF CallNotify
<1>4. ASSUME NEW t \in Tasks, NEW u \in Tasks, xTaskGenericNotifyStateClear(u, t)
      PROVE  NotificationInv'
  <2>1. CallsMove
    BY <1>4, Still DEF xTaskGenericNotifyStateClear
  <2> QED
    BY <1>4, <2>1, ClearInv DEF xTaskGenericNotifyStateClear
<1> QED
  BY <1>1, <1>2, <1>3, <1>4, MarkWaitingInv, AddToDelayedListInv, ResumeAllInv, FinishWaitInv,
     TimeOutInv, ValueClearInv, SuspendInv, ResumeInv DEF NotificationNext

-----------------------------------------------------------------------------
(* Places in a ring of l, with n of them between tail and head.             *)
Wrap(x, l) == x % l

LEMMA Wrapped ==
  ASSUME NEW l \in Nat \ {0}, NEW x \in 0..(2 * l - 1)
  PROVE  /\ Wrap(x, l) = IF x < l THEN x ELSE x - l
         /\ Wrap(x, l) \in 0..(l - 1)
BY DEF Wrap

LEMMA RingPlaces ==
  ASSUME NEW l \in Nat \ {0}, NEW head \in 0..(l - 1), NEW tail \in 0..(l - 1)
  PROVE  /\ Wrap(l + head - tail, l) \in 0..(l - 1)
         /\ Wrap(l + head - tail, l) = IF head >= tail THEN head - tail ELSE l + head - tail
         /\ Wrap(l + tail - head - 1, l) = l - 1 - Wrap(l + head - tail, l)
<1>1. Wrap(l + head - tail, l)
        = IF l + head - tail < l THEN l + head - tail ELSE head - tail
  BY Wrapped
<1>2. Wrap(l + tail - head - 1, l)
        = IF l + tail - head - 1 < l THEN l + tail - head - 1 ELSE tail - head - 1
  BY Wrapped
<1> QED
  BY <1>1, <1>2

Ring(l, head, tail, n) ==
  /\ l \in Nat \ {0} /\ head \in 0..(l - 1) /\ tail \in 0..(l - 1)
  /\ n = Wrap(l + head - tail, l)

(* A place behind the head, counted from the tail.                          *)
LEMMA RingBehind ==
  ASSUME NEW l \in Int, NEW head \in Int, NEW tail \in Int, NEW n \in Int,
         Ring(l, head, tail, n), NEW p \in Int, NEW q \in Int,
         head <= q, q < head + (l - 1 - n), p - (tail + n) = q - head
  PROVE  Wrap(p, l) = Wrap(q, l)
<1>1. /\ l \in Nat \ {0} /\ head \in 0..(l - 1) /\ tail \in 0..(l - 1)
      /\ n \in 0..(l - 1)
      /\ n = IF head >= tail THEN head - tail ELSE l + head - tail
  BY RingPlaces DEF Ring
<1>2. Wrap(q, l) = IF q < l THEN q ELSE q - l
  BY <1>1, Wrapped
<1>3. Wrap(p, l) = IF p < l THEN p ELSE p - l
  <2>1. p \in 0..(2 * l - 1)
    BY <1>1
  <2> QED
    BY <1>1, <2>1, Wrapped
<1> QED
  BY <1>1, <1>2, <1>3

(* k more behind the head.                                                  *)
LEMMA RingPublish ==
  ASSUME NEW l \in Int, NEW head \in Int, NEW tail \in Int, NEW n \in Int,
         Ring(l, head, tail, n), NEW k \in Int, 0 <= k, k <= l - 1 - n
  PROVE  Ring(l, Wrap(head + k, l), tail, n + k)
<1>1. /\ l \in Nat \ {0} /\ head \in 0..(l - 1) /\ tail \in 0..(l - 1)
      /\ n \in 0..(l - 1)
      /\ n = IF head >= tail THEN head - tail ELSE l + head - tail
  BY RingPlaces DEF Ring
<1>2. PICK new \in 0..(l - 1) :
        /\ new = Wrap(head + k, l)
        /\ new = IF head + k < l THEN head + k ELSE head + k - l
  BY <1>1, Wrapped
<1>3. Wrap(l + new - tail, l) = IF l + new - tail < l THEN l + new - tail ELSE new - tail
  BY <1>1, <1>2, Wrapped
<1>4. Wrap(l + new - tail, l) = n + k
  BY <1>1, <1>2, <1>3
<1> QED
  BY <1>1, <1>2, <1>4 DEF Ring

(* m fewer before the tail.                                                 *)
LEMMA RingConsume ==
  ASSUME NEW l \in Nat \ {0}, NEW head \in 0..(l - 1), NEW tail \in 0..(l - 1),
         NEW n, n = Wrap(l + head - tail, l), NEW m \in 0..n,
         NEW new, new = Wrap(tail + m, l)
  PROVE  /\ new \in 0..(l - 1)
         /\ Wrap(l + head - new, l) = n - m
         /\ \A i \in 1..(n - m) : Wrap(new + i - 1, l) = Wrap(tail + (m + i) - 1, l)
<1>1. /\ n \in 0..(l - 1)
      /\ n = IF head >= tail THEN head - tail ELSE l + head - tail
  BY RingPlaces
<1>2. new = (IF tail + m < l THEN tail + m ELSE tail + m - l) /\ new \in 0..(l - 1)
  BY <1>1, Wrapped
<1>3. Wrap(l + head - new, l) = IF l + head - new < l THEN l + head - new ELSE head - new
  BY <1>2, Wrapped
<1>4. ASSUME NEW i \in 1..(n - m)
      PROVE  Wrap(new + i - 1, l) = Wrap(tail + (m + i) - 1, l)
  <2>1. Wrap(new + i - 1, l) = IF new + i - 1 < l THEN new + i - 1 ELSE new + i - 1 - l
    BY <1>1, <1>2, Wrapped
  <2>2. Wrap(tail + (m + i) - 1, l)
          = IF tail + (m + i) - 1 < l THEN tail + (m + i) - 1 ELSE tail + (m + i) - 1 - l
    <3>1. tail + (m + i) - 1 \in 0..(2 * l - 1)
      BY <1>1
    <3> QED
      BY <3>1, Wrapped
  <2> QED
    BY <1>1, <1>2, <2>1, <2>2
<1> QED
  BY <1>1, <1>2, <1>3, <1>4

(* What is written behind the head is not between tail and head.            *)
LEMMA RingOffsets ==
  ASSUME NEW l \in Nat \ {0}, NEW head \in 0..(l - 1), NEW tail \in 0..(l - 1),
         NEW n, n = Wrap(l + head - tail, l)
  PROVE  /\ \A i \in 1..n : /\ Wrap(tail + i - 1, l) \in 0..(l - 1)
                            /\ Wrap(l + Wrap(tail + i - 1, l) - head, l) >= l - n
         /\ \A i \in 1..(l - 1) : /\ Wrap(head + i - 1, l) \in 0..(l - 1)
                                  /\ Wrap(l + Wrap(head + i - 1, l) - head, l) = i - 1
<1>1. /\ n \in 0..(l - 1)
      /\ n = IF head >= tail THEN head - tail ELSE l + head - tail
  BY RingPlaces
<1>2. ASSUME NEW i \in 1..n
      PROVE  /\ Wrap(tail + i - 1, l) \in 0..(l - 1)
             /\ Wrap(l + Wrap(tail + i - 1, l) - head, l) >= l - n
  <2>1. PICK p : p = Wrap(tail + i - 1, l)
    OBVIOUS
  <2>2. /\ p = IF tail + i - 1 < l THEN tail + i - 1 ELSE tail + i - 1 - l
        /\ p \in 0..(l - 1)
    BY <1>1, <2>1, Wrapped
  <2>3. Wrap(l + p - head, l) = IF l + p - head < l THEN l + p - head ELSE p - head
    BY <2>2, Wrapped
  <2>4. Wrap(l + p - head, l) >= l - n
    BY <1>1, <2>2, <2>3
  <2> QED
    BY <2>1, <2>2, <2>4
<1>3. ASSUME NEW i \in 1..(l - 1)
      PROVE  /\ Wrap(head + i - 1, l) \in 0..(l - 1)
             /\ Wrap(l + Wrap(head + i - 1, l) - head, l) = i - 1
  <2>1. PICK p : p = Wrap(head + i - 1, l)
    OBVIOUS
  <2>2. /\ p = IF head + i - 1 < l THEN head + i - 1 ELSE head + i - 1 - l
        /\ p \in 0..(l - 1)
    BY <2>1, Wrapped
  <2>3. Wrap(l + p - head, l) = IF l + p - head < l THEN l + p - head ELSE p - head
    BY <2>2, Wrapped
  <2>4. Wrap(l + p - head, l) = i - 1
    BY <2>2, <2>3
  <2> QED
    BY <2>1, <2>2, <2>4
<1> QED
  BY <1>2, <1>3

-----------------------------------------------------------------------------
(* Messages one behind the other.                                           *)
LEMMA MessageAdded ==
  ASSUME NEW n \in Nat, NEW c, NEW B, MessagesBegin(c, n, B),
         NEW m \in Nat \ {0}, NEW new, \A i \in 1..n : new[i] = c[i], new[n + 1] = m
  PROVE  MessagesBegin(new, n + 1 + m, B \union {n + 1 + m})
<1> DEFINE e == n + 1 + m
           C == B \union {e}
<1>1. e \in Nat /\ n < e /\ B \subseteq 0..n
  BY DEF MessagesBegin
<1>2. C \subseteq 0..e /\ 0 \in C /\ e \in C
  BY <1>1 DEF MessagesBegin
<1>3. ASSUME NEW p \in C, p < e
      PROVE  /\ new[p + 1] \in Nat \ {0}
             /\ p + 1 + new[p + 1] \in C
             /\ \A q \in C : p < q => p + 1 + new[p + 1] <= q
  <2>1. p \in B /\ p \in 0..n
    BY <1>1, <1>3
  <2>2. CASE p = n
    <3>1. new[p + 1] = m /\ p + 1 + m = e
      BY <2>2
    <3>2. \A q \in C : p < q => q = e
      BY <1>1, <2>2
    <3> QED
      BY <3>1, <3>2
  <2>3. CASE p < n
    <3>1. new[p + 1] = c[p + 1]
      BY <2>1, <2>3
    <3>2. /\ c[p + 1] \in Nat \ {0}
          /\ p + 1 + c[p + 1] \in B
          /\ \A q \in B : p < q => p + 1 + c[p + 1] <= q
      BY <2>1, <2>3 DEF MessagesBegin
    <3>3. p + 1 + c[p + 1] <= n
      BY <1>1, <3>2
    <3> QED
      BY <1>1, <3>1, <3>2, <3>3
  <2> QED
    BY <2>1, <2>2, <2>3
<1> QED
  BY <1>2, <1>3 DEF MessagesBegin

LEMMA MessageTaken ==
  ASSUME NEW n \in Nat, n > 0, NEW c, NEW B, MessagesBegin(c, n, B)
  PROVE  /\ c[1] \in Nat \ {0} /\ c[1] <= n - 1
         /\ \A k \in B : 0 < k => 1 + c[1] <= k
         /\ \A new : (\A i \in 1..(n - (1 + c[1])) : new[i] = c[1 + c[1] + i]) =>
              MessagesBegin(new, n - (1 + c[1]), {q \in 0..(n - (1 + c[1])) : q + (1 + c[1]) \in B})
<1>1. /\ c[0 + 1] \in Nat \ {0}
      /\ 0 + 1 + c[0 + 1] \in B
      /\ \A q \in B : 0 < q => 0 + 1 + c[0 + 1] <= q
  BY DEF MessagesBegin
<1>2. B \subseteq 0..n /\ n \in B
  BY DEF MessagesBegin
<1>3. PICK m \in Nat : m = 1 + c[1]
  BY <1>1
<1>4. /\ c[1] \in Nat \ {0} /\ m \in B /\ m \in 1..n
      /\ \A q \in B : 0 < q => m <= q
  BY <1>1, <1>2, <1>3
<1>5. ASSUME NEW new, \A i \in 1..(n - m) : new[i] = c[m + i]
      PROVE  MessagesBegin(new, n - m, {q \in 0..(n - m) : q + m \in B})
  <2> DEFINE C == {q \in 0..(n - m) : q + m \in B}
  <2>1. C \subseteq 0..(n - m) /\ 0 \in C /\ n - m \in C
    BY <1>2, <1>4
  <2>2. ASSUME NEW p \in C, p < n - m
        PROVE  /\ new[p + 1] \in Nat \ {0}
               /\ p + 1 + new[p + 1] \in C
               /\ \A q \in C : p < q => p + 1 + new[p + 1] <= q
    <3>1. p \in 0..(n - m) /\ p + m \in B /\ p + m < n
      BY <1>4, <2>2
    <3>2. PICK x : x = c[p + m + 1]
      OBVIOUS
    <3>3. /\ x \in Nat \ {0}
          /\ p + m + 1 + x \in B
          /\ \A q \in B : p + m < q => p + m + 1 + x <= q
      BY <3>1, <3>2 DEF MessagesBegin
    <3>4. new[p + 1] = x
      <4>1. p + 1 \in 1..(n - m) /\ m + (p + 1) = p + m + 1
        BY <1>4, <3>1
      <4>2. new[p + 1] = c[m + (p + 1)]
        BY <1>5, <4>1
      <4> QED
        BY <3>2, <4>1, <4>2
    <3>5. p + 1 + x \in 0..(n - m) /\ p + 1 + x + m \in B
      <4>1. p + 1 + x + m = p + m + 1 + x /\ p + m + 1 + x <= n
        BY <1>2, <1>4, <3>1, <3>3
      <4> QED
        BY <1>4, <3>1, <3>3, <4>1
    <3>6. ASSUME NEW q \in C, p < q
          PROVE  p + 1 + x <= q
      <4>1. q + m \in B /\ p + m < q + m /\ q \in Nat
        BY <1>4, <3>1, <3>6
      <4>2. p + m + 1 + x <= q + m
        BY <3>3, <4>1
      <4> QED
        BY <1>4, <3>1, <3>3, <4>1, <4>2
    <3> QED
      BY <3>3, <3>4, <3>5, <3>6
  <2> QED
    BY <2>1, <2>2 DEF MessagesBegin
<1>6. c[1] <= n - 1 /\ \A k \in B : 0 < k => 1 + c[1] <= k
  BY <1>3, <1>4
<1> QED
  BY <1>3, <1>4, <1>5, <1>6

-----------------------------------------------------------------------------
(* The ring of the buffer.                                                  *)

LEMMA StreamFacts ==
  ASSUME NotificationTypeOK
  PROVE  /\ xLength \in Nat \ {0} /\ xLength > 1
         /\ application.levels \subseteq 1..(xLength - 1)
         /\ Writer \in Tasks \union {"interrupt"} /\ Reader \in Tasks \union {"interrupt"}
         /\ Writer # Reader \/ Writer \notin Tasks
         /\ application.sends \subseteq Sending
         /\ application.sizes \subseteq Nat \ {0}
         /\ application.times \subseteq Times
         /\ Header \in {0, 1}
<1>1. PICK a \in Applications : a = application
  BY DEF NotificationTypeOK
<1>2. /\ a.length \in Nat \ {0, 1}
      /\ a.levels \subseteq 1..(a.length - 1)
      /\ a.writer \in Tasks \union {"interrupt"} /\ a.reader \in Tasks \union {"interrupt"}
      /\ a.writer # a.reader \/ a.writer = "interrupt"
      /\ a.sizes \subseteq Nat \ {0} /\ a.times \subseteq Times
      /\ "interrupt" \notin Tasks
  BY StreamBufferAssumption
<1>3. a.sends \subseteq Sending
  BY DEF Sending
<1>4. xLength \in Nat \ {0} /\ xLength > 1
  BY <1>1, <1>2 DEF xLength
<1>5. Writer # Reader \/ Writer \notin Tasks
  BY <1>1, <1>2 DEF Writer, Reader
<1> QED
  BY <1>1, <1>2, <1>3, <1>4, <1>5 DEF xLength, Writer, Reader, Header

LEMMA SendingFacts ==
  ASSUME NEW data \in Sending
  PROVE  data \in Seq(Bytes) /\ Len(data) \in Nat \ {0}
<1>1. data \in Seq(Bytes) /\ data # <<>>
  BY StreamBufferAssumption DEF Sending
<1> QED
  BY <1>1, LenProperties, EmptySeq

LEMMA SendableFacts ==
  ASSUME NEW data \in Sendable
  PROVE  data \in Seq(Bytes) /\ Len(data) \in Nat \ {0}
<1>1. PICK whole \in Sending : \E n \in 1..Len(whole) : data = SubSeq(whole, 1, n)
  BY DEF Sendable
<1> QED
  BY <1>1, SendingFacts, SubSeqProperties

LEMMA BeginningIsSendable ==
  ASSUME NEW data \in Sending, NEW n \in 1..Len(data)
  PROVE  SubSeq(data, 1, n) \in Sendable
BY DEF Sendable

LEMMA FramedFacts ==
  ASSUME NEW data \in Seq(Bytes)
  PROVE  /\ Framed(data) \in Seq(Bytes \union Nat)
         /\ Len(Framed(data)) = Header + Len(data)
         /\ Len(data) \in Nat
         /\ IsMessageBuffer => Framed(data)[1] = Len(data)
<1>1. Len(data) \in Nat /\ data \in Seq(Bytes \union Nat)
  BY LenProperties
<1>2. CASE IsMessageBuffer
  <2>1. Framed(data) = <<Len(data)>> \o data /\ Header = 1
    BY <1>2 DEF Framed, Header
  <2>2. <<Len(data)>> \in Seq(Bytes \union Nat) /\ Len(<<Len(data)>>) = 1
    BY <1>1
  <2>3. /\ Framed(data) \in Seq(Bytes \union Nat) /\ Len(Framed(data)) = 1 + Len(data)
        /\ Framed(data)[1] = <<Len(data)>>[1]
    BY <1>1, <2>1, <2>2, ConcatProperties
  <2> QED
    BY <1>1, <2>1, <2>3
<1>3. CASE ~ IsMessageBuffer
  BY <1>1, <1>3 DEF Framed, Header
<1> QED
  BY <1>2, <1>3

(* The byte i places behind the tail.                                       *)
Cell(i) == buffer[Wrap(xTail + i - 1, xLength)]

LEMMA ContentFacts ==
  ASSUME NotificationTypeOK, RingTypeOK
  PROVE  /\ prvBytesInBuffer \in 0..(xLength - 1)
         /\ xStreamBufferSpacesAvailable = xLength - 1 - prvBytesInBuffer
         /\ xStreamBufferSpacesAvailable \in 0..(xLength - 1)
         /\ Content = [i \in 1..prvBytesInBuffer |-> Cell(i)]
<1>1. /\ prvBytesInBuffer = Wrap(xLength + xHead - xTail, xLength)
      /\ xStreamBufferSpacesAvailable = Wrap(xLength + xTail - xHead - 1, xLength)
  BY DEF prvBytesInBuffer, BytesFrom, xStreamBufferSpacesAvailable, Wrap
<1>2. /\ prvBytesInBuffer \in 0..(xLength - 1)
      /\ xStreamBufferSpacesAvailable = xLength - 1 - prvBytesInBuffer
  BY <1>1, StreamFacts, RingPlaces DEF RingTypeOK
<1>3. xStreamBufferSpacesAvailable \in 0..(xLength - 1)
  BY <1>2, StreamFacts
<1>4. Content = [i \in 1..prvBytesInBuffer |-> Cell(i)]
  <2>1. ASSUME NEW i \in 1..prvBytesInBuffer
        PROVE  buffer[(xTail + 0 + i - 1) % xLength] = Cell(i)
    <3>1. xTail + 0 + i - 1 = xTail + i - 1
      BY <1>2 DEF RingTypeOK
    <3> QED
      BY <3>1 DEF Cell, Wrap
  <2> QED
    BY <2>1 DEF Content, prvReadBytesFromBuffer
<1> QED
  BY <1>2, <1>3, <1>4

(* What is read behind the first bytes is content.                          *)
LEMMA ReadFacts ==
  ASSUME NotificationTypeOK, RingTypeOK, NEW skip \in Nat,
         NEW n \in Nat, skip + n <= prvBytesInBuffer
  PROVE  prvReadBytesFromBuffer(skip, n) = [i \in 1..n |-> Content[skip + i]]
<1>1. ASSUME NEW i \in 1..n
      PROVE  buffer[(xTail + skip + i - 1) % xLength] = Content[skip + i]
  <2>1. skip + i \in 1..prvBytesInBuffer
    BY ContentFacts
  <2>2. Content[skip + i] = Cell(skip + i)
    BY <2>1, ContentFacts
  <2>3. xTail + skip + i - 1 = xTail + (skip + i) - 1
    BY DEF RingTypeOK
  <2> QED
    BY <2>2, <2>3 DEF Cell, Wrap
<1> QED
  BY <1>1 DEF prvReadBytesFromBuffer

(* Writing behind the head changes nothing between tail and head.           *)
LEMMA WriteFacts ==
  ASSUME NotificationTypeOK, RingTypeOK, NEW data, Len(data) \in Nat,
         Len(data) <= xStreamBufferSpacesAvailable,
         buffer' = prvWriteBytesToBuffer(data)
  PROVE  /\ DOMAIN buffer' = 0..(xLength - 1)
         /\ \A i \in 1..prvBytesInBuffer :
              buffer'[Wrap(xTail + i - 1, xLength)] = Cell(i)
         /\ \A i \in 1..Len(data) :
              buffer'[Wrap(xHead + i - 1, xLength)] = data[i]
<1>1. buffer' = [i \in 0..(xLength - 1) |->
                   IF Wrap(xLength + i - xHead, xLength) < Len(data)
                   THEN data[Wrap(xLength + i - xHead, xLength) + 1] ELSE buffer[i]]
  BY DEF prvWriteBytesToBuffer, Wrap
<1>2. prvBytesInBuffer = Wrap(xLength + xHead - xTail, xLength)
  BY DEF prvBytesInBuffer, BytesFrom, Wrap
<1>3. /\ prvBytesInBuffer \in 0..(xLength - 1) /\ Len(data) <= xLength - 1 - prvBytesInBuffer
      /\ xLength \in Nat \ {0} /\ xHead \in 0..(xLength - 1) /\ xTail \in 0..(xLength - 1)
  BY ContentFacts, StreamFacts DEF RingTypeOK
<1>4. /\ \A i \in 1..prvBytesInBuffer :
           /\ Wrap(xTail + i - 1, xLength) \in 0..(xLength - 1)
           /\ Wrap(xLength + Wrap(xTail + i - 1, xLength) - xHead, xLength)
                >= xLength - prvBytesInBuffer
      /\ \A i \in 1..(xLength - 1) :
           /\ Wrap(xHead + i - 1, xLength) \in 0..(xLength - 1)
           /\ Wrap(xLength + Wrap(xHead + i - 1, xLength) - xHead, xLength) = i - 1
  BY <1>2, <1>3, RingOffsets
<1>5. ASSUME NEW i \in 1..prvBytesInBuffer
      PROVE  buffer'[Wrap(xTail + i - 1, xLength)] = Cell(i)
  <2>1. PICK p : p = Wrap(xTail + i - 1, xLength)
    OBVIOUS
  <2>2. p \in 0..(xLength - 1) /\ Wrap(xLength + p - xHead, xLength) >= xLength - prvBytesInBuffer
    BY <1>4, <2>1
  <2>3. PICK o : o = Wrap(xLength + p - xHead, xLength)
    OBVIOUS
  <2>4. o \in Int
    <3>1. PICK q \in Int : q = xLength + p - xHead
      BY <1>3, <2>2
    <3>2. q \in 0..(2 * xLength - 1)
      BY <1>3, <2>2, <3>1
    <3>3. Wrap(q, xLength) = IF q < xLength THEN q ELSE q - xLength
      BY <1>3, <3>2, Wrapped
    <3> QED
      BY <1>3, <2>3, <3>1, <3>3
  <2>5. ~ (o < Len(data))
    BY <1>3, <2>2, <2>3, <2>4
  <2>6. buffer'[p] = buffer[p]
    BY <1>1, <2>2, <2>3, <2>5
  <2> QED
    BY <2>1, <2>6 DEF Cell
<1>6. ASSUME NEW i \in 1..Len(data)
      PROVE  buffer'[Wrap(xHead + i - 1, xLength)] = data[i]
  <2>1. PICK p : p = Wrap(xHead + i - 1, xLength)
    OBVIOUS
  <2>2. i \in 1..(xLength - 1)
    BY <1>3
  <2>3. p \in 0..(xLength - 1) /\ Wrap(xLength + p - xHead, xLength) = i - 1
    BY <1>4, <2>1, <2>2
  <2>4. i - 1 < Len(data) /\ (i - 1) + 1 = i
    OBVIOUS
  <2>5. buffer'[p] = data[i]
    BY <1>1, <2>3, <2>4
  <2> QED
    BY <2>1, <2>5
<1> QED
  BY <1>1, <1>5, <1>6

LEMMA ContentWritten ==
  ASSUME NotificationTypeOK, RingTypeOK, NEW data, Len(data) \in Nat,
         Len(data) <= xStreamBufferSpacesAvailable,
         buffer' = prvWriteBytesToBuffer(data), UNCHANGED <<application, xHead, xTail>>
  PROVE  /\ prvBytesInBuffer' = prvBytesInBuffer
         /\ xStreamBufferSpacesAvailable' = xStreamBufferSpacesAvailable
         /\ Content' = Content
<1>1. /\ prvBytesInBuffer' = prvBytesInBuffer
      /\ xStreamBufferSpacesAvailable' = xStreamBufferSpacesAvailable
      /\ xLength' = xLength
  BY DEF prvBytesInBuffer, BytesFrom, xStreamBufferSpacesAvailable, xLength
<1>2. NotificationTypeOK /\ RingTypeOK /\ DOMAIN buffer' = 0..(xLength - 1)
  BY WriteFacts
<1>3. ASSUME NEW i \in 1..prvBytesInBuffer
      PROVE  buffer'[(xTail' + 0 + i - 1) % xLength'] = Content[i]
  <2>1. xTail' + 0 + i - 1 = xTail + i - 1
    BY DEF RingTypeOK
  <2>2. buffer'[Wrap(xTail + i - 1, xLength)] = Cell(i)
    BY WriteFacts
  <2>3. Content[i] = Cell(i)
    BY ContentFacts
  <2> QED
    BY <1>1, <2>1, <2>2, <2>3 DEF Wrap
<1>4. Content' = [i \in 1..prvBytesInBuffer' |-> buffer'[(xTail' + 0 + i - 1) % xLength']]
  BY DEF Content, prvReadBytesFromBuffer
<1>5. Content = [i \in 1..prvBytesInBuffer |-> Content[i]]
  BY ContentFacts
<1> QED
  BY <1>1, <1>3, <1>4, <1>5

-----------------------------------------------------------------------------
(* A function on 1..n is a sequence.                                        *)
LEMMA FunctionIsSeq ==
  ASSUME NEW n \in Nat, NEW f, f = [i \in 1..n |-> f[i]], NEW S, \A i \in 1..n : f[i] \in S
  PROVE  f \in Seq(S) /\ Len(f) = n
<1>1. f \in [1..n -> S]
  OBVIOUS
<1>2. f \in Seq(S)
  BY <1>1
<1>3. Len(f) \in Nat /\ DOMAIN f = 1..Len(f) /\ DOMAIN f = 1..n
  BY <1>1, <1>2, LenProperties
<1> QED
  BY <1>2, <1>3

LEMMA ContentSeq ==
  ASSUME NotificationTypeOK, RingTypeOK, NEW S,
         \A i \in 1..prvBytesInBuffer : Content[i] \in S
  PROVE  Content \in Seq(S) /\ Len(Content) = prvBytesInBuffer
<1>1. prvBytesInBuffer \in Nat /\ Content = [i \in 1..prvBytesInBuffer |-> Content[i]]
  BY ContentFacts
<1> QED
  BY <1>1, FunctionIsSeq

(* What has been written behind the head comes to the content with it.      *)
LEMMA ContentAdded ==
  ASSUME NotificationTypeOK, RingTypeOK, NEW T, NEW data \in Seq(T),
         Len(data) <= xStreamBufferSpacesAvailable,
         \A i \in 1..prvBytesInBuffer : buffer'[Wrap(xTail + i - 1, xLength)] = Cell(i),
         \A i \in 1..Len(data) : buffer'[Wrap(xHead + i - 1, xLength)] = data[i],
         xHead' = Wrap(xHead + Len(data), xLength), UNCHANGED <<application, xTail>>
  PROVE  /\ xHead' \in 0..(xLength - 1)
         /\ prvBytesInBuffer' = prvBytesInBuffer + Len(data)
         /\ xStreamBufferSpacesAvailable' = xStreamBufferSpacesAvailable - Len(data)
         /\ \A i \in 1..prvBytesInBuffer : Content'[i] = Content[i]
         /\ \A i \in 1..Len(data) : Content'[prvBytesInBuffer + i] = data[i]
         /\ Content' = Content \o data
<1>1. PICK l, n, k : l = xLength /\ n = prvBytesInBuffer /\ k = Len(data)
  OBVIOUS
<1>2. /\ l \in Nat \ {0} /\ xHead \in 0..(l - 1) /\ xTail \in 0..(l - 1)
      /\ n = Wrap(l + xHead - xTail, l)
      /\ k \in Nat /\ n \in 0..(l - 1)
      /\ xStreamBufferSpacesAvailable = l - 1 - n /\ k \in 0..(l - 1 - n)
  BY <1>1, ContentFacts, StreamFacts, LenProperties
     DEF RingTypeOK, prvBytesInBuffer, BytesFrom, Wrap
<1>3. /\ xHead' \in 0..(l - 1)
      /\ Wrap(l + xHead' - xTail, l) = n + k
      /\ \A i \in 1..k : Wrap(xTail + (n + i) - 1, l) = Wrap(xHead + i - 1, l)
  <2>1. Ring(l, xHead, xTail, n) /\ xHead' = Wrap(xHead + k, l)
    BY <1>1, <1>2 DEF Ring
  <2>3. /\ l \in Int /\ xHead \in Int /\ xTail \in Int /\ n \in Int /\ k \in Int
        /\ 0 <= k /\ k <= l - 1 - n
    BY <1>2
  <2>2. /\ Ring(l, Wrap(xHead + k, l), xTail, n + k)
        /\ \A i \in 1..k : Wrap(xTail + (n + i) - 1, l) = Wrap(xHead + i - 1, l)
    <3>1. Ring(l, Wrap(xHead + k, l), xTail, n + k)
      BY <2>1, <2>3, RingPublish
    <3>2. ASSUME NEW i \in 1..k
          PROVE  Wrap(xTail + (n + i) - 1, l) = Wrap(xHead + i - 1, l)
      <4>1. PICK p \in Int, q \in Int : p = xTail + (n + i) - 1 /\ q = xHead + i - 1
        BY <2>3
      <4>2. xHead <= q /\ q < xHead + (l - 1 - n) /\ p - (xTail + n) = q - xHead
        BY <2>3, <4>1
      <4>3. Wrap(p, l) = Wrap(q, l)
        BY <2>1, <2>3, <4>1, <4>2, RingBehind
      <4> QED
        BY <4>1, <4>3
    <3> QED
      BY <3>1, <3>2
  <2> QED
    BY <2>1, <2>2 DEF Ring
<1>4. xLength' = l /\ xTail' = xTail
  BY <1>1 DEF xLength
<1>5. prvBytesInBuffer' = n + k
  BY <1>3, <1>4 DEF prvBytesInBuffer, BytesFrom, Wrap
<1>6. xStreamBufferSpacesAvailable' = l - 1 - (n + k)
  <2>1. Wrap(l + xTail - xHead' - 1, l) = l - 1 - Wrap(l + xHead' - xTail, l)
    BY <1>2, <1>3, RingPlaces
  <2> QED
    BY <1>3, <1>4, <2>1 DEF xStreamBufferSpacesAvailable, Wrap
<1>7. Content' = [i \in 1..(n + k) |-> buffer'[Wrap(xTail + i - 1, l)]]
  <2>1. Content' = [i \in 1..(n + k) |-> buffer'[(xTail + 0 + i - 1) % l]]
    BY <1>4, <1>5 DEF Content, prvReadBytesFromBuffer
  <2>2. \A i \in 1..(n + k) : xTail + 0 + i - 1 = xTail + i - 1
    BY <1>2
  <2> QED
    BY <2>1, <2>2 DEF Wrap
<1>8. ASSUME NEW i \in 1..n
      PROVE  Content'[i] = Content[i]
  <2>1. i \in 1..(n + k)
    BY <1>2
  <2> QED
    BY <1>1, <1>7, <2>1, ContentFacts
<1>9. ASSUME NEW i \in 1..k
      PROVE  Content'[n + i] = data[i]
  <2>1. n + i \in 1..(n + k)
    BY <1>2
  <2>2. Content'[n + i] = buffer'[Wrap(xTail + (n + i) - 1, l)]
    BY <1>7, <2>1
  <2> QED
    BY <1>1, <1>3, <2>2
<1>10. Content' = Content \o data
  <2>1. PICK S : S = {Content'[i] : i \in 1..(n + k)} \union {Content[i] : i \in 1..n} \union T
    OBVIOUS
  <2>2. PICK new : new = Content'
    OBVIOUS
  <2>3. new \in Seq(S) /\ Len(new) = n + k
    <3>1. new = [i \in 1..(n + k) |-> new[i]] /\ \A i \in 1..(n + k) : new[i] \in S
      BY <1>7, <2>1, <2>2
    <3>2. n + k \in Nat
      BY <1>2
    <3> QED
      BY <3>1, <3>2, FunctionIsSeq
  <2>4. Content \in Seq(S) /\ Len(Content) = n
    BY <1>1, <2>1, ContentSeq
  <2>5. data \in Seq(S)
    <3>1. T \subseteq S
      BY <2>1
    <3> QED
      BY <3>1, SeqMonotonic
  <2>6. /\ Content \o data \in Seq(S)
        /\ Len(Content \o data) = n + k
        /\ \A i \in 1..(n + k) :
             (Content \o data)[i] = IF i <= n THEN Content[i] ELSE data[i - n]
    <3>1. Len(data) = k
      BY <1>1
    <3> QED
      BY <2>4, <2>5, <3>1, ConcatProperties
  <2>7. ASSUME NEW i \in 1..(n + k)
        PROVE  new[i] = (Content \o data)[i]
    <3>1. CASE i <= n
      <4>1. i \in 1..n
        BY <1>2, <3>1
      <4> QED
        BY <1>8, <2>2, <2>6, <3>1, <4>1
    <3>2. CASE ~ (i <= n)
      <4>1. i - n \in 1..k /\ n + (i - n) = i
        BY <1>2, <3>2
      <4>2. Content'[n + (i - n)] = data[i - n]
        BY <1>9, <4>1
      <4> QED
        BY <2>2, <2>6, <3>2, <4>1, <4>2
    <3> QED
      BY <3>1, <3>2
  <2> QED
    BY <2>2, <2>3, <2>6, <2>7, SeqEqual
<1>11. xStreamBufferSpacesAvailable' = xStreamBufferSpacesAvailable - k
  BY <1>2, <1>6
<1> QED
  BY <1>1, <1>3, <1>5, <1>8, <1>9, <1>10, <1>11

(* What the tail passes goes from the content.                              *)
LEMMA ContentTaken ==
  ASSUME NotificationTypeOK, RingTypeOK, NEW m \in 0..prvBytesInBuffer,
         xTail' = Wrap(xTail + m, xLength), UNCHANGED <<application, buffer, xHead>>
  PROVE  /\ xTail' \in 0..(xLength - 1)
         /\ prvBytesInBuffer' = prvBytesInBuffer - m
         /\ xStreamBufferSpacesAvailable' = xStreamBufferSpacesAvailable + m
         /\ \A i \in 1..(prvBytesInBuffer - m) : Content'[i] = Content[m + i]
         /\ Content' = SubSeq(Content, m + 1, Len(Content))
         /\ Len(Content) = prvBytesInBuffer
<1>1. PICK l, n : l = xLength /\ n = prvBytesInBuffer
  OBVIOUS
<1>2. /\ l \in Nat \ {0} /\ xHead \in 0..(l - 1) /\ xTail \in 0..(l - 1)
      /\ n = Wrap(l + xHead - xTail, l)
      /\ n \in 0..(l - 1) /\ m \in 0..n
      /\ xStreamBufferSpacesAvailable = l - 1 - n
  BY <1>1, ContentFacts, StreamFacts DEF RingTypeOK, prvBytesInBuffer, BytesFrom, Wrap
<1>3. /\ xTail' \in 0..(l - 1)
      /\ Wrap(l + xHead - xTail', l) = n - m
      /\ \A i \in 1..(n - m) : Wrap(xTail' + i - 1, l) = Wrap(xTail + (m + i) - 1, l)
  BY <1>1, <1>2, RingConsume
<1>4. xLength' = l /\ xHead' = xHead /\ buffer' = buffer
  BY <1>1 DEF xLength
<1>5. prvBytesInBuffer' = n - m
  BY <1>3, <1>4 DEF prvBytesInBuffer, BytesFrom, Wrap
<1>6. xStreamBufferSpacesAvailable' = l - 1 - (n - m)
  <2>1. Wrap(l + xTail' - xHead - 1, l) = l - 1 - Wrap(l + xHead - xTail', l)
    BY <1>2, <1>3, RingPlaces
  <2> QED
    BY <1>3, <1>4, <2>1 DEF xStreamBufferSpacesAvailable, Wrap
<1>7. Content' = [i \in 1..(n - m) |-> buffer[Wrap(xTail' + i - 1, l)]]
  <2>1. Content' = [i \in 1..(n - m) |-> buffer[(xTail' + 0 + i - 1) % l]]
    BY <1>4, <1>5 DEF Content, prvReadBytesFromBuffer
  <2>2. \A i \in 1..(n - m) : xTail' + 0 + i - 1 = xTail' + i - 1
    BY <1>3
  <2> QED
    BY <2>1, <2>2 DEF Wrap
<1>8. ASSUME NEW i \in 1..(n - m)
      PROVE  Content'[i] = Content[m + i]
  <2>1. m + i \in 1..n
    BY <1>2
  <2>2. Content[m + i] = buffer[Wrap(xTail + (m + i) - 1, l)]
    BY <1>1, <2>1, ContentFacts DEF Cell
  <2> QED
    BY <1>3, <1>7, <2>2
<1>9. PICK S : S = {Content[i] : i \in 1..n}
  OBVIOUS
<1>10. Content \in Seq(S) /\ Len(Content) = n
  <2>1. \A i \in 1..prvBytesInBuffer : Content[i] \in S
    BY <1>1, <1>9
  <2> QED
    BY <1>1, <2>1, ContentSeq
<1>11. Content' = SubSeq(Content, m + 1, n)
  <2>1. PICK new : new = Content'
    OBVIOUS
  <2>2. \A i \in 1..(n - m) : m + i \in 1..n
    BY <1>2
  <2>3. new \in Seq(S) /\ Len(new) = n - m
    <3>1. new = [i \in 1..(n - m) |-> new[i]] /\ \A i \in 1..(n - m) : new[i] \in S
      BY <1>7, <1>8, <1>9, <2>1, <2>2
    <3>2. n - m \in Nat
      BY <1>2
    <3> QED
      BY <3>1, <3>2, FunctionIsSeq
  <2>4. /\ SubSeq(Content, m + 1, n) \in Seq(S)
        /\ Len(SubSeq(Content, m + 1, n)) = IF m + 1 <= n THEN n - (m + 1) + 1 ELSE 0
        /\ \A i \in 1..(n - (m + 1) + 1) :
             SubSeq(Content, m + 1, n)[i] = Content[m + 1 + i - 1]
    <3>1. \A i \in (m + 1)..n : Content[i] \in S
      BY <1>2, <1>9
    <3> QED
      BY <1>2, <3>1, SubSeqProperties
  <2>5. Len(SubSeq(Content, m + 1, n)) = n - m
    BY <1>2, <2>4
  <2>6. ASSUME NEW i \in 1..(n - m)
        PROVE  new[i] = SubSeq(Content, m + 1, n)[i]
    <3>1. i \in 1..(n - (m + 1) + 1) /\ m + 1 + i - 1 = m + i
      BY <1>2
    <3> QED
      BY <1>8, <2>1, <2>4, <3>1
  <2> QED
    BY <2>1, <2>3, <2>4, <2>5, <2>6, SeqEqual
<1>12. xStreamBufferSpacesAvailable' = xStreamBufferSpacesAvailable + m
  BY <1>2, <1>6
<1>13. Content' = SubSeq(Content, m + 1, Len(Content)) /\ Len(Content) = prvBytesInBuffer
  BY <1>1, <1>10, <1>11
<1> QED
  BY <1>1, <1>3, <1>5, <1>8, <1>12, <1>13

-----------------------------------------------------------------------------
(* A task's steps in its calls of the buffer.                               *)

Moves(t, label) ==
  /\ pc' = [pc EXCEPT ![t] = label]
  /\ back' = [back EXCEPT ![t] = "application"]
  /\ UNCHANGED application

(* Labels of calls in which a task does not wait.                           *)
Active == Labels \ (WaitLabels \union {"sendWoken", "receiveWoken"})

LEMMA BackOfActive ==
  ASSUME NotificationInv, RolesInv, NEW t \in Tasks, pc[t] \in Active
  PROVE  /\ back[t] = "application"
         /\ back = [back EXCEPT ![t] = "application"]
BY DEF NotificationInv, RolesInv, Active

LEMMA MoveFacts ==
  ASSUME NotificationInv, RolesInv, NEW t \in Tasks, NEW label \in Labels \ WaitLabels,
         label \in SendLabels => t = Writer, label \in ReceiveLabels => t = Reader,
         Moves(t, label)
  PROVE  /\ RolesInv'
         /\ Writer' = Writer /\ Reader' = Reader
         /\ pc'[t] = label /\ back'[t] = "application"
         /\ \A u \in Tasks \ {t} : pc'[u] = pc[u] /\ back'[u] = back[u]
<1>1. /\ Writer' = Writer /\ Reader' = Reader
      /\ pc'[t] = label /\ back'[t] = "application"
      /\ \A u \in Tasks \ {t} : pc'[u] = pc[u] /\ back'[u] = back[u]
  BY DEF Moves, Writer, Reader, NotificationInv
<1>2. RolesInv'
  BY <1>1 DEF RolesInv
<1> QED
  BY <1>1, <1>2

(* A task that is active is registered nowhere.                             *)
LEMMA ActiveWriter ==
  ASSUME NotificationInv, RolesInv, RegisteredInv,
         Writer \notin Tasks \/ pc[Writer] \in Active \ {"sendWait"}
  PROVE  xTaskWaitingToSend = NULL
BY BackOfActive DEF RegisteredInv, SenderWaits, Active

LEMMA ActiveReader ==
  ASSUME NotificationInv, RolesInv, RegisteredInv,
         Reader \notin Tasks \/ pc[Reader] \in Active \ {"receiveWait"}
  PROVE  xTaskWaitingToReceive = NULL
BY BackOfActive DEF RegisteredInv, ReceiverWaits, Active

LEMMA RingSame ==
  ASSUME UNCHANGED <<application, buffer, xHead, xTail>>
  PROVE  /\ prvBytesInBuffer' = prvBytesInBuffer
         /\ xStreamBufferSpacesAvailable' = xStreamBufferSpacesAvailable
         /\ Content' = Content
         /\ xLength' = xLength /\ Header' = Header
         /\ IsMessageBuffer' = IsMessageBuffer
BY DEF prvBytesInBuffer, BytesFrom, xStreamBufferSpacesAvailable, Content,
       prvReadBytesFromBuffer, xLength, Header, IsMessageBuffer

LEMMA KindSame ==
  ASSUME UNCHANGED application
  PROVE  /\ xLength' = xLength /\ Header' = Header /\ IsMessageBuffer' = IsMessageBuffer
         /\ Writer' = Writer /\ Reader' = Reader
         /\ \A data : Framed(data)' = Framed(data) /\ RequiredSpace(data)' = RequiredSpace(data)
BY DEF xLength, Header, IsMessageBuffer, Writer, Reader, Framed, RequiredSpace

(* The messages stay where the content and what the reader knows do.        *)
LEMMA MessagesSame ==
  ASSUME MessagesInv, UNCHANGED <<application, prvBytesInBuffer, Content>>,
         Reader \in Tasks /\ pc'[Reader] \in {"read", "consume"} =>
           pc'[Reader] = pc[Reader] /\ xBytesAvailable' = xBytesAvailable /\ taken' = taken
  PROVE  MessagesInv'
<1>1. /\ Reader' = Reader /\ IsMessageBuffer' = IsMessageBuffer /\ Header' = Header
  BY KindSame
<1>2. ConsumeInv'
  BY <1>1 DEF MessagesInv, ConsumeInv
<1>3. \A B : Boundaries(B)' <=> Boundaries(B)
  BY DEF Boundaries
<1>4. \A B : ReadInv(B) => ReadInv(B)'
  BY <1>1 DEF ReadInv
<1>5. CASE IsMessageBuffer
  <2>1. PICK B \in SUBSET (0..prvBytesInBuffer) : Boundaries(B) /\ ReadInv(B)
    BY <1>5 DEF MessagesInv
  <2> QED
    BY <1>1, <1>2, <1>3, <1>4, <1>5, <2>1 DEF MessagesInv
<1>6. CASE ~ IsMessageBuffer
  BY <1>1, <1>2, <1>4, <1>6 DEF MessagesInv
<1> QED
  BY <1>5, <1>6

(* Steps that leave the buffer alone, in which a task begins to wait, goes  *)
(* on waiting or has waited.                                                *)
WaitMove ==
  \A t \in Tasks :
    \/ pc'[t] = pc[t] /\ back'[t] = back[t]
    \/ pc[t] = "application" /\ pc'[t] \in WaitLabels /\ back'[t] = "application"
    \/ pc[t] = "sendWait" /\ pc'[t] \in WaitLabels /\ back'[t] = "sendWoken"
    \/ pc[t] = "receiveWait" /\ pc'[t] \in WaitLabels /\ back'[t] = "receiveWoken"
    \/ pc[t] \in WaitLabels /\ pc'[t] \in WaitLabels \union {back[t]} /\ back'[t] = back[t]

LEMMA WaitMoveInv ==
  ASSUME NotificationInv, StreamInv, WaitMove, UNCHANGED <<application, streamVars>>
  PROVE  StreamInv'
<1>1. /\ UNCHANGED <<application, buffer, xHead, xTail, xTriggerLevelBytes,
                     xTaskWaitingToSend, xTaskWaitingToReceive, pvTxData, xSpace, sendTicks,
                     xBytesToStoreMessageLength, xBytesAvailable, size, taken, receiveTicks>>
      /\ RolesInv /\ RegisteredInv /\ RingTypeOK /\ WriterInv /\ MessagesInv /\ WaitersAreTold
  BY DEF streamVars, ringVars, waitingVars, sendVars, receiveVars, StreamInv
<1>2. /\ prvBytesInBuffer' = prvBytesInBuffer /\ Content' = Content
      /\ xStreamBufferSpacesAvailable' = xStreamBufferSpacesAvailable
      /\ xLength' = xLength /\ Writer' = Writer /\ Reader' = Reader
      /\ \A data : Framed(data)' = Framed(data) /\ RequiredSpace(data)' = RequiredSpace(data)
  BY <1>1, RingSame, KindSame
<1>3. RolesInv'
  BY <1>1, <1>2
     DEF RolesInv, WaitMove, NotificationInv, WaitLabels, SendLabels, ReceiveLabels
<1>4. RegisteredInv'
  <2>1. SenderWaits => SenderWaits'
    BY <1>1, <1>2 DEF SenderWaits, WaitMove, RolesInv, WaitLabels
  <2>2. ReceiverWaits => ReceiverWaits'
    BY <1>1, <1>2 DEF ReceiverWaits, WaitMove, RolesInv, WaitLabels
  <2> QED
    BY <1>1, <1>2, <2>1, <2>2 DEF RegisteredInv
<1>5. RingTypeOK'
  BY <1>1, <1>2 DEF RingTypeOK
<1>6. WriterInv'
  <2>1. ASSUME Writer \in Tasks
        PROVE  /\ pc'[Writer] = "publish" => pc[Writer] = "publish"
               /\ pc'[Writer] \in {"checkSpace", "sendWait", "sendWoken", "write"}
                    \/ back'[Writer] = "sendWoken"
                  => pc[Writer] \in {"checkSpace", "sendWait", "sendWoken", "write"}
                       \/ back[Writer] = "sendWoken"
    BY <1>1, <2>1 DEF WaitMove, NotificationInv, WaitLabels
  <2>2. \A data : Len(Framed(data)') = Len(Framed(data)) /\ \A i : Framed(data)'[i] = Framed(data)[i]
    BY <1>2
  <2> QED
    BY <1>1, <1>2, <2>1, <2>2 DEF WriterInv
<1>7. MessagesInv'
  <2>1. Reader \in Tasks /\ pc'[Reader] \in {"read", "consume"} => pc'[Reader] = pc[Reader]
    BY DEF WaitMove, NotificationInv, WaitLabels
  <2> QED
    BY <1>1, <1>2, <2>1, MessagesSame
<1>8. WaitersAreTold'
  <2>1. /\ ReaderWillBeNotified => ReaderWillBeNotified'
        /\ WriterWillBeNotified => WriterWillBeNotified'
    BY DEF WaitMove, ReaderWillBeNotified, WriterWillBeNotified, WaitLabels
  <2> QED
    BY <1>1, <1>2, <2>1 DEF WaitersAreTold
<1> QED
  BY <1>3, <1>4, <1>5, <1>6, <1>7, <1>8 DEF StreamInv

LEMMA NotificationMoves ==
  ASSUME NotificationInv, NotificationNext
  PROVE  WaitMove /\ UNCHANGED application
<1>1. ASSUME NEW t \in Tasks, CallWait(t)
      PROVE  WaitMove /\ UNCHANGED application
  <2>1. PICK r : BeginWait(t, r, "application")
    BY <1>1 DEF CallWait
  <2>2. \E label \in WaitLabels : pc' = [pc EXCEPT ![t] = label]
    BY <2>1 DEF BeginWait, Goto, WaitLabels
  <2> QED
    BY <1>1, <2>1, <2>2 DEF CallWait, At, BeginWait, WaitMove, NotificationInv
<1>2. ASSUME NEW t \in Tasks, MarkWaiting(t) \/ AddToDelayedList(t) \/ ResumeAll(t) \/ FinishWait(t)
      PROVE  WaitMove /\ UNCHANGED application
  <2>1. /\ pc[t] \in WaitLabels /\ UNCHANGED <<application, back>>
        /\ \E label \in WaitLabels \union {back[t]} : pc' = [pc EXCEPT ![t] = label]
    BY <1>2 DEF MarkWaiting, AddToDelayedList, ResumeAll, FinishWait, At, Goto, WaitLabels
  <2> QED
    BY <2>1 DEF WaitMove, NotificationInv
<1>3. ASSUME UNCHANGED <<pc, back, application>>
      PROVE  WaitMove /\ UNCHANGED application
  BY <1>3 DEF WaitMove
<1> QED
  BY <1>1, <1>2, <1>3
     DEF NotificationNext, TimeOut, InterruptNotifies, xTaskResumeFromISR, CallNotify,
         xTaskGenericNotifyStateClear, ulTaskGenericNotifyValueClear, vTaskSuspend, vTaskResume,
         callVars

-----------------------------------------------------------------------------
(* Sending.                                                                 *)

WriterMoves(t, label) ==
  /\ t \in Tasks /\ t = Writer /\ Moves(t, label)
  /\ label \in {"application"} \union SendLabels
  /\ UNCHANGED <<xTriggerLevelBytes, xBytesToStoreMessageLength, xBytesAvailable, size, taken,
                 receiveTicks>>

(* What a step of the writer leaves alone.                                  *)
LEMMA WriterMoveFacts ==
  ASSUME NotificationInv, RolesInv, NEW t, NEW label, WriterMoves(t, label)
  PROVE  /\ RolesInv'
         /\ Writer' = Writer /\ Reader' = Reader /\ Writer \in Tasks /\ Writer # Reader
         /\ pc'[Writer] = label /\ back'[Writer] = "application"
         /\ \A u \in Tasks \ {Writer} : pc'[u] = pc[u] /\ back'[u] = back[u]
         /\ ReceiverWaits' = ReceiverWaits
         /\ WriterWillBeNotified => WriterWillBeNotified'
         /\ ReaderWillBeNotified' <=> label \in {"sent", "sendCompleted"}
         /\ Reader \in Tasks => pc'[Reader] = pc[Reader]
<1>1. /\ t \in Tasks /\ t = Writer /\ label \in Labels \ WaitLabels
      /\ label \notin ReceiveLabels
      /\ Writer # Reader
  BY StreamFacts DEF WriterMoves, Labels, WaitLabels, SendLabels, ReceiveLabels, NotificationInv
<1>2. /\ RolesInv'
      /\ Writer' = Writer /\ Reader' = Reader
      /\ pc'[t] = label /\ back'[t] = "application"
      /\ \A u \in Tasks \ {t} : pc'[u] = pc[u] /\ back'[u] = back[u]
  BY <1>1, MoveFacts DEF WriterMoves
<1>3. ReceiverWaits' = ReceiverWaits
  BY <1>1, <1>2 DEF ReceiverWaits
<1>4. WriterWillBeNotified => WriterWillBeNotified'
  BY <1>1, <1>2 DEF WriterWillBeNotified, RolesInv, ReceiveLabels
<1>5. ReaderWillBeNotified' <=> label \in {"sent", "sendCompleted"}
  <2>1. \A u \in Tasks \ {t} : pc[u] \notin SendLabels
    BY <1>1 DEF RolesInv
  <2> QED
    BY <1>1, <1>2, <2>1 DEF ReaderWillBeNotified, SendLabels
<1> QED
  BY <1>1, <1>2, <1>3, <1>4, <1>5

(* A step of the writer that leaves the ring alone.                         *)
LEMMA WriterStepInv ==
  ASSUME NotificationInv, StreamInv, NEW t, NEW label, WriterMoves(t, label),
         UNCHANGED <<xHead, xTail>>, DOMAIN buffer' = 0..(xLength - 1), Content' = Content,
         sendTicks' \in Times, xSpace' \in 0..xStreamBufferSpacesAvailable,
         xTaskWaitingToSend' = NULL \/ (xTaskWaitingToSend' = Writer /\ label = "sendWait"),
         xTaskWaitingToSend' # NULL => xStreamBufferSpacesAvailable < RequiredSpace(pvTxData'),
         xTaskWaitingToReceive' \in {NULL, xTaskWaitingToReceive},
         label \in {"checkSpace", "sendWait", "sendWoken", "write"} => pvTxData' \in Sending,
         label = "publish" =>
           /\ xSpace' = 0 /\ pvTxData' \in Sendable
           /\ Len(Framed(pvTxData')) <= xStreamBufferSpacesAvailable
           /\ \A i \in 1..Len(Framed(pvTxData')) :
                buffer'[(xHead + i - 1) % xLength] = Framed(pvTxData')[i],
         xTaskWaitingToReceive' = NULL \/ label = "sendCompleted"
           \/ (~ ReaderWillBeNotified \/ prvBytesInBuffer < xTriggerLevelBytes)
  PROVE  StreamInv'
<1>1. /\ RolesInv /\ RegisteredInv /\ RingTypeOK /\ WriterInv /\ MessagesInv /\ WaitersAreTold
      /\ NotificationTypeOK
  BY DEF StreamInv, NotificationInv
<1>2. /\ RolesInv'
      /\ Writer' = Writer /\ Reader' = Reader /\ Writer \in Tasks /\ Writer # Reader
      /\ pc'[Writer] = label /\ back'[Writer] = "application"
      /\ ReceiverWaits' = ReceiverWaits
      /\ WriterWillBeNotified => WriterWillBeNotified'
      /\ ReaderWillBeNotified' <=> label \in {"sent", "sendCompleted"}
      /\ Reader \in Tasks => pc'[Reader] = pc[Reader]
  BY <1>1, WriterMoveFacts
<1>3. UNCHANGED <<application, xTriggerLevelBytes, xBytesToStoreMessageLength, xBytesAvailable,
                  size, taken, receiveTicks>>
  BY DEF WriterMoves, Moves
<1>4. /\ xLength' = xLength
      /\ prvBytesInBuffer' = prvBytesInBuffer
      /\ xStreamBufferSpacesAvailable' = xStreamBufferSpacesAvailable
      /\ \A data : Framed(data)' = Framed(data) /\ RequiredSpace(data)' = RequiredSpace(data)
  BY <1>3, KindSame DEF prvBytesInBuffer, BytesFrom, xStreamBufferSpacesAvailable
<1>5. RegisteredInv'
  BY <1>1, <1>2 DEF RegisteredInv, SenderWaits
<1>6. RingTypeOK'
  <2>1. xSpace' \in 0..(xLength - 1)
    BY <1>1, ContentFacts, StreamFacts
  <2> QED
    BY <1>1, <1>3, <1>4, <2>1 DEF RingTypeOK
<1>7. WriterInv'
  <2>1. xSpace' <= xStreamBufferSpacesAvailable'
    BY <1>1, <1>4, ContentFacts
  <2>2. Framed(pvTxData)' = Framed(pvTxData')
    BY <1>3 DEF Framed, IsMessageBuffer
  <2> QED
    BY <1>2, <1>4, <2>1, <2>2 DEF WriterInv
<1>8. MessagesInv'
  BY <1>1, <1>2, <1>3, <1>4, MessagesSame
<1>9. WaitersAreTold'
  <2>1. RequiredSpace(pvTxData)' = RequiredSpace(pvTxData')
    BY <1>3 DEF RequiredSpace, IsMessageBuffer, Header, xLength
  <2> QED
    BY <1>1, <1>2, <1>3, <1>4, <2>1 DEF WaitersAreTold
<1> QED
  BY <1>2, <1>5, <1>6, <1>7, <1>8, <1>9 DEF StreamInv

LEMMA SpaceFacts ==
  ASSUME NotificationInv, StreamInv
  PROVE  /\ xStreamBufferSpacesAvailable \in Nat
         /\ xSpace \in 0..xStreamBufferSpacesAvailable
         /\ sendTicks \in Times /\ DOMAIN buffer = 0..(xLength - 1)
BY ContentFacts DEF StreamInv, NotificationInv, RingTypeOK, WriterInv

LEMMA CallSendInv ==
  ASSUME NotificationInv, StreamInv, NEW t \in Tasks, CallSend(t)
  PROVE  StreamInv' /\ NotificationInv'
<1>1. PICK data \in application.sends : \E ticks \in application.times :
        /\ pvTxData' = data
        /\ sendTicks' \in {"none", ticks}
        /\ \E label \in {"write", "checkSpace"} : pc' = [pc EXCEPT ![t] = label]
  BY DEF CallSend, Goto
<1>2. PICK label \in {"write", "checkSpace"} : pc' = [pc EXCEPT ![t] = label]
  BY <1>1
<1>3. /\ pc[t] = "application" /\ t = Writer /\ xSpace' = 0
      /\ UNCHANGED <<application, notifyVars, kernelVars, request, back, ringVars,
                     waitingVars, receiveVars>>
  BY DEF CallSend, At, Writer
<1>4. /\ data \in Sending /\ sendTicks' \in Times
  BY <1>1, StreamFacts DEF NotificationInv, Times
<1>5. WriterMoves(t, label) /\ RolesInv /\ RegisteredInv
  BY <1>2, <1>3, BackOfActive
     DEF WriterMoves, Moves, StreamInv, Active, Labels, WaitLabels, SendLabels, receiveVars, ringVars
<1>6. xTaskWaitingToSend = NULL /\ xTaskWaitingToSend' = NULL
      /\ UNCHANGED <<buffer, xHead, xTail, xTaskWaitingToReceive>>
  BY <1>3, <1>5, ActiveWriter DEF Active, Labels, WaitLabels, waitingVars, ringVars
<1>7. StreamInv'
  <2>1. Content' = Content
    BY <1>3, <1>6, RingSame
  <2>2. ~ ReaderWillBeNotified
    BY <1>3, <1>5 DEF RolesInv, ReaderWillBeNotified, SendLabels
  <2>3. xSpace' \in 0..xStreamBufferSpacesAvailable /\ DOMAIN buffer' = 0..(xLength - 1)
    BY <1>3, <1>6, SpaceFacts
  <2>4. pvTxData' \in Sending /\ label # "publish" /\ label # "sendWait"
    BY <1>1, <1>2, <1>4
  <2> QED
    BY <1>4, <1>5, <1>6, <2>1, <2>2, <2>3, <2>4, WriterStepInv
<1>8. CallsMove
  BY <1>2, <1>3
     DEF CallsMove, NotificationInv, NotificationTypeOK, WaitLabels, Labels, SendLabels
<1> QED
  BY <1>3, <1>7, <1>8, MoveInv

LEMMA CheckSpaceInv ==
  ASSUME NotificationInv, StreamInv, NEW t \in Tasks, CheckSpace(t)
  PROVE  StreamInv' /\ NotificationInv'
<1>1. /\ pc[t] = "checkSpace" /\ xSpace' = xStreamBufferSpacesAvailable
      /\ UNCHANGED <<application, ulNotifiedValue, kernelVars, request, back, ringVars,
                     xTaskWaitingToReceive, pvTxData, sendTicks, receiveVars>>
      /\ RolesInv /\ RegisteredInv
  BY DEF CheckSpace, At, StreamInv
<1>2. t = Writer /\ xTaskWaitingToSend = NULL
  BY <1>1, ActiveWriter DEF RolesInv, SendLabels, Active, Labels, WaitLabels
<1>3. pvTxData \in Sending
  BY <1>1, <1>2 DEF StreamInv, WriterInv
<1>4. PICK label \in {"sendWait", "write"} :
        /\ pc' = [pc EXCEPT ![t] = label]
        /\ label = "sendWait" =>
             /\ xSpace' < RequiredSpace(pvTxData) /\ xTaskWaitingToSend' = t /\ ClearState(t)
        /\ label = "write" =>
             /\ xTaskWaitingToSend' = NULL /\ UNCHANGED <<ucNotifyState, unseen>>
  BY <1>2 DEF CheckSpace, Goto
<1>5. WriterMoves(t, label)
  BY <1>1, <1>2, <1>4, BackOfActive
     DEF WriterMoves, Moves, Active, Labels, WaitLabels, SendLabels, receiveVars, ringVars
<1>6. StreamInv'
  <2>1. Content' = Content /\ UNCHANGED <<buffer, xHead, xTail>>
    BY <1>1, RingSame DEF ringVars
  <2>2. ~ ReaderWillBeNotified
    BY <1>1, <1>2 DEF RolesInv, ReaderWillBeNotified, SendLabels
  <2>3. /\ xSpace' \in 0..xStreamBufferSpacesAvailable /\ DOMAIN buffer' = 0..(xLength - 1)
        /\ sendTicks' \in Times
    BY <1>1, <2>1, SpaceFacts
  <2>4. xTaskWaitingToSend' # NULL => xStreamBufferSpacesAvailable < RequiredSpace(pvTxData')
    BY <1>1, <1>4
  <2> QED
    BY <1>1, <1>2, <1>3, <1>4, <1>5, <2>1, <2>2, <2>3, <2>4, WriterStepInv
<1>7. CallsMove
  BY <1>1, <1>4
     DEF CallsMove, NotificationInv, NotificationTypeOK, WaitLabels, Labels, SendLabels
<1>8. NotificationInv'
  <2>1. CASE label = "sendWait"
    BY <1>1, <1>4, <1>7, <2>1, ClearInv
  <2>2. CASE label = "write"
    BY <1>1, <1>4, <1>7, <2>2, MoveInv DEF notifyVars
  <2> QED
    BY <2>1, <2>2
<1> QED
  BY <1>6, <1>8

LEMMA WaitForType ==
  ASSUME NEW ticks \in Times
  PROVE  WaitFor(ticks) \in Requests
BY ValuesClosed DEF WaitFor, Requests

LEMMA WaitToSendInv ==
  ASSUME NotificationInv, StreamInv, NEW t \in Tasks, WaitToSend(t)
  PROVE  StreamInv' /\ NotificationInv'
<1>1. /\ pc[t] = "sendWait" /\ Running(t)
      /\ BeginWait(t, WaitFor(sendTicks), "sendWoken")
      /\ UNCHANGED streamVars
  BY DEF WaitToSend, At
<1>2. sendTicks \in Times
  BY SpaceFacts
<1>3. NotificationInv'
  BY <1>1, <1>2, WaitForType, BeginWaitInv DEF WaitLabels
<1>4. WaitMove /\ UNCHANGED application
  <2>1. \E label \in WaitLabels : pc' = [pc EXCEPT ![t] = label]
    BY <1>1 DEF BeginWait, Goto, WaitLabels
  <2> QED
    BY <1>1, <2>1 DEF BeginWait, WaitMove, NotificationInv
<1> QED
  BY <1>1, <1>3, <1>4, WaitMoveInv

LEMMA SendWokenInv ==
  ASSUME NotificationInv, StreamInv, NEW t \in Tasks, SendWoken(t)
  PROVE  StreamInv' /\ NotificationInv'
<1>1. /\ pc[t] = "sendWoken" /\ xTaskWaitingToSend' = NULL
      /\ UNCHANGED <<application, notifyVars, kernelVars, ringVars,
                     xTaskWaitingToReceive, sendVars, receiveVars>>
      /\ request' = [request EXCEPT ![t] = NoRequest]
      /\ back' = [back EXCEPT ![t] = "application"]
      /\ RolesInv /\ RegisteredInv
  BY DEF SendWoken, At, StreamInv, Forget
<1>2. t = Writer
  BY <1>1 DEF RolesInv, SendLabels
<1>3. pvTxData \in Sending
  BY <1>1, <1>2 DEF StreamInv, WriterInv
<1>4. PICK label \in {"checkSpace", "write"} : pc' = [pc EXCEPT ![t] = label]
  BY DEF SendWoken, Goto
<1>5. WriterMoves(t, label)
  BY <1>1, <1>2, <1>4 DEF WriterMoves, Moves, SendLabels, receiveVars, ringVars
<1>6. StreamInv'
  <2>1. Content' = Content /\ UNCHANGED <<buffer, xHead, xTail>>
    BY <1>1, RingSame DEF ringVars
  <2>2. ~ ReaderWillBeNotified
    BY <1>1, <1>2 DEF RolesInv, ReaderWillBeNotified, SendLabels
  <2>3. /\ xSpace' \in 0..xStreamBufferSpacesAvailable /\ DOMAIN buffer' = 0..(xLength - 1)
        /\ sendTicks' \in Times /\ pvTxData' \in Sending
    BY <1>1, <1>3, <2>1, SpaceFacts DEF sendVars
  <2> QED
    BY <1>1, <1>2, <1>4, <1>5, <2>1, <2>2, <2>3, WriterStepInv
<1>7. NoRequest \in Requests
  BY ValuesClosed DEF NoRequest, Requests, Times
<1>8. CallsMove
  BY <1>1, <1>4, <1>7
     DEF CallsMove, NotificationInv, NotificationTypeOK, WaitLabels, Labels, SendLabels
<1> QED
  BY <1>1, <1>6, <1>8, MoveInv

(* What the writer writes of its data fits, and is a beginning of the data. *)
LEMMA WrittenFacts ==
  ASSUME NotificationTypeOK, NEW data \in Sending, NEW space \in Nat
  PROVE  \/ Written(data, space) = <<>>
         \/ /\ Written(data, space) \in Sendable
            /\ Len(Framed(Written(data, space))) <= space
<1>1. /\ data \in Seq(Bytes) /\ Len(data) \in Nat \ {0}
      /\ \A i \in 1..Len(data) : data[i] \in Bytes
  BY SendingFacts, ElementOfSeq
<1>2. CASE IsMessageBuffer
  <2>1. CASE space >= RequiredSpace(data)
    <3>1. Written(data, space) = data /\ RequiredSpace(data) = Len(data) + Header
      BY <1>2, <2>1 DEF Written, RequiredSpace
    <3>2. SubSeq(data, 1, Len(data)) = data
      <4>1. /\ SubSeq(data, 1, Len(data)) \in Seq(Bytes)
            /\ Len(SubSeq(data, 1, Len(data))) = Len(data) - 1 + 1
            /\ \A i \in 1..(Len(data) - 1 + 1) : SubSeq(data, 1, Len(data))[i] = data[1 + i - 1]
        BY <1>1, SubSeqProperties
      <4>2. Len(data) - 1 + 1 = Len(data) /\ \A i \in 1..Len(data) : 1 + i - 1 = i
        BY <1>1
      <4> QED
        BY <1>1, <4>1, <4>2, SeqEqual
    <3>3. data \in Sendable
      <4>1. Len(data) \in 1..Len(data)
        BY <1>1
      <4> QED
        BY <3>2, <4>1, BeginningIsSendable
    <3>4. Len(Framed(data)) = Header + Len(data)
      BY <1>1, FramedFacts
    <3> QED
      BY <1>1, <2>1, <3>1, <3>3, <3>4, StreamFacts
  <2>2. CASE ~ (space >= RequiredSpace(data))
    BY <1>2, <2>2 DEF Written
  <2> QED
    BY <2>1, <2>2
<1>3. CASE ~ IsMessageBuffer
  <2>1. PICK n \in Nat : /\ n = Smaller(Len(data), space) /\ n <= Len(data) /\ n <= space
    BY <1>1 DEF Smaller
  <2>2. Written(data, space) = SubSeq(data, 1, n)
    BY <1>3, <2>1 DEF Written
  <2>3. CASE n = 0
    BY <2>2, <2>3, SubSeqEmpty
  <2>4. CASE n > 0
    <3>1. n \in 1..Len(data) /\ SubSeq(data, 1, n) \in Sendable
      BY <2>1, <2>4, BeginningIsSendable
    <3>2. Len(SubSeq(data, 1, n)) = n
      BY <1>1, <2>4, <3>1, SubSeqProperties
    <3>3. Framed(SubSeq(data, 1, n)) = SubSeq(data, 1, n)
      BY <1>3 DEF Framed
    <3> QED
      BY <2>1, <2>2, <3>1, <3>2, <3>3
  <2> QED
    BY <2>1, <2>3, <2>4
<1> QED
  BY <1>2, <1>3

LEMMA WriteMessageInv ==
  ASSUME NotificationInv, StreamInv, NEW t \in Tasks, WriteMessage(t)
  PROVE  StreamInv' /\ NotificationInv' /\ Content' = Content
<1>1. /\ pc[t] = "write" /\ xSpace' = 0 /\ sendTicks' = "none"
      /\ UNCHANGED <<application, notifyVars, kernelVars, request, back, xHead, xTail,
                     xTriggerLevelBytes, waitingVars, receiveVars>>
      /\ RolesInv /\ RegisteredInv /\ RingTypeOK /\ NotificationTypeOK
  BY DEF WriteMessage, At, StreamInv, NotificationInv
<1>2. t = Writer /\ xTaskWaitingToSend = NULL
  BY <1>1, ActiveWriter DEF RolesInv, SendLabels, Active, Labels, WaitLabels
<1>3. pvTxData \in Sending
  BY <1>1, <1>2 DEF StreamInv, WriterInv
<1>4. PICK space \in 0..xStreamBufferSpacesAvailable : pvTxData' = Written(pvTxData, space)
  BY SpaceFacts DEF WriteMessage
<1>5. PICK data : data = pvTxData'
  OBVIOUS
<1>6. \/ data = <<>>
      \/ data \in Sendable /\ Len(Framed(data)) <= space
  BY <1>1, <1>3, <1>4, <1>5, WrittenFacts
<1>7. PICK label \in {"application", "publish"} :
        /\ pc' = [pc EXCEPT ![t] = label]
        /\ label = "application" => buffer' = buffer
        /\ label = "publish" => data # <<>> /\ buffer' = prvWriteBytesToBuffer(Framed(data))
  BY <1>5 DEF WriteMessage, Goto
<1>8. WriterMoves(t, label)
  BY <1>1, <1>2, <1>7, BackOfActive
     DEF WriterMoves, Moves, Active, Labels, WaitLabels, SendLabels, receiveVars
<1>9. /\ UNCHANGED <<xHead, xTail, xTaskWaitingToReceive>> /\ xTaskWaitingToSend' = NULL
      /\ sendTicks' \in Times /\ xSpace' \in 0..xStreamBufferSpacesAvailable
      /\ ~ ReaderWillBeNotified
  BY <1>1, <1>2, SpaceFacts
     DEF waitingVars, Times, RolesInv, ReaderWillBeNotified, SendLabels
<1>10. ASSUME label = "application"
       PROVE  StreamInv' /\ Content' = Content
  <2>1. Content' = Content /\ DOMAIN buffer' = 0..(xLength - 1)
    BY <1>1, <1>7, <1>10, RingSame, SpaceFacts
  <2> QED
    BY <1>8, <1>9, <1>10, <2>1, WriterStepInv
<1>11. ASSUME label = "publish"
       PROVE  StreamInv' /\ Content' = Content
  <2>1. data \in Sendable /\ Len(Framed(data)) <= xStreamBufferSpacesAvailable
    <3>1. data \in Sendable
      BY <1>6, <1>7, <1>11
    <3>2. Len(Framed(data)) \in Nat
      BY <3>1, SendableFacts, FramedFacts, LenProperties
    <3> QED
      BY <1>6, <1>7, <1>11, <3>1, <3>2, SpaceFacts
  <2>2. Len(Framed(data)) \in Nat
    BY <2>1, SendableFacts, FramedFacts, LenProperties
  <2>3. /\ Content' = Content /\ DOMAIN buffer' = 0..(xLength - 1)
        /\ \A i \in 1..Len(Framed(data)) :
             buffer'[(xHead + i - 1) % xLength] = Framed(data)[i]
    BY <1>1, <1>7, <1>11, <2>1, <2>2, ContentWritten, WriteFacts DEF Wrap
  <2> QED
    BY <1>1, <1>5, <1>8, <1>9, <1>11, <2>1, <2>3, WriterStepInv
<1>12. StreamInv' /\ Content' = Content
  BY <1>10, <1>11
<1>13. CallsMove
  BY <1>1, <1>7
     DEF CallsMove, NotificationInv, NotificationTypeOK, WaitLabels, Labels, SendLabels
<1> QED
  BY <1>1, <1>12, <1>13, MoveInv

LEMMA SentInv ==
  ASSUME NotificationInv, StreamInv, NEW t \in Tasks, Sent(t)
  PROVE  StreamInv' /\ NotificationInv'
<1>1. /\ pc[t] = "sent"
      /\ UNCHANGED <<application, notifyVars, kernelVars, request, back>>
      /\ UNCHANGED <<ringVars, waitingVars, sendVars, receiveVars>>
      /\ RolesInv /\ RegisteredInv
  BY DEF Sent, At, StreamInv, streamVars
<1>2. t = Writer /\ xTaskWaitingToSend = NULL
  BY <1>1, ActiveWriter DEF RolesInv, SendLabels, Active, Labels, WaitLabels
<1>3. PICK label \in {"application", "sendCompleted"} :
        /\ pc' = [pc EXCEPT ![t] = label]
        /\ label = "application" => ~ EnoughBytes(xHead)
  BY DEF Sent, Goto
<1>4. label = "application" => prvBytesInBuffer < xTriggerLevelBytes
  <2>1. prvBytesInBuffer \in Int /\ xTriggerLevelBytes \in Int
    BY ContentFacts, StreamFacts DEF StreamInv, NotificationInv, RingTypeOK
  <2> QED
    BY <1>3, <2>1 DEF EnoughBytes, prvBytesInBuffer
<1>5. WriterMoves(t, label)
  BY <1>1, <1>2, <1>3, BackOfActive
     DEF WriterMoves, Moves, Active, Labels, WaitLabels, SendLabels, receiveVars, ringVars
<1>6. /\ UNCHANGED <<xHead, xTail, buffer, xTaskWaitingToReceive>> /\ xTaskWaitingToSend' = NULL
      /\ sendTicks' \in Times /\ xSpace' \in 0..xStreamBufferSpacesAvailable
      /\ DOMAIN buffer' = 0..(xLength - 1) /\ Content' = Content
  BY <1>1, <1>2, SpaceFacts, RingSame DEF waitingVars, ringVars, sendVars
<1>7. StreamInv'
  BY <1>3, <1>4, <1>5, <1>6, WriterStepInv
<1>8. CallsMove
  BY <1>1, <1>3
     DEF CallsMove, NotificationInv, NotificationTypeOK, WaitLabels, Labels, SendLabels
<1> QED
  BY <1>1, <1>7, <1>8, MoveInv

LEMMA NoActionType == NoAction \in Action
BY ValuesClosed DEF NoAction, Action, Actions

LEMMA SendCompletedInv ==
  ASSUME NotificationInv, StreamInv, NEW t \in Tasks, SendCompleted(t)
  PROVE  StreamInv' /\ NotificationInv'
<1>1. /\ pc[t] = "sendCompleted" /\ Running(t) /\ xTaskWaitingToReceive' = NULL
      /\ pc' = [pc EXCEPT ![t] = "application"]
      /\ UNCHANGED <<application, request, back, ringVars, xTaskWaitingToSend, sendVars,
                     receiveVars>>
      /\ RolesInv /\ RegisteredInv
  BY DEF SendCompleted, At, StreamInv, Goto
<1>2. t = Writer /\ xTaskWaitingToSend = NULL
  BY <1>1, ActiveWriter DEF RolesInv, SendLabels, Active, Labels, WaitLabels
<1>3. WriterMoves(t, "application")
  BY <1>1, <1>2, BackOfActive
     DEF WriterMoves, Moves, Active, Labels, WaitLabels, SendLabels, receiveVars, ringVars
<1>4. /\ UNCHANGED <<xHead, xTail, buffer>> /\ xTaskWaitingToSend' = NULL
      /\ sendTicks' \in Times /\ xSpace' \in 0..xStreamBufferSpacesAvailable
      /\ DOMAIN buffer' = 0..(xLength - 1) /\ Content' = Content
  BY <1>1, <1>2, SpaceFacts, RingSame DEF ringVars, sendVars
<1>5. StreamInv'
  BY <1>1, <1>3, <1>4, WriterStepInv
<1>6. CallsMove
  BY <1>1 DEF CallsMove, NotificationInv, NotificationTypeOK, WaitLabels, Labels, SendLabels
<1>7. ASSUME xTaskWaitingToReceive = NULL
      PROVE  NotificationInv'
  BY <1>1, <1>6, <1>7, MoveInv DEF SendCompleted
<1>8. ASSUME xTaskWaitingToReceive # NULL
      PROVE  NotificationInv'
  <2>1. Notify(xTaskWaitingToReceive, NoAction) /\ xTaskWaitingToReceive \in Tasks
    BY <1>1, <1>8 DEF SendCompleted, RegisteredInv, ReceiverWaits
  <2>2. suspender = NULL
    BY <1>1, NobodySuspends
  <2> QED
    BY <1>1, <1>6, <2>1, <2>2, NoActionType, NotifyInv
<1> QED
  BY <1>5, <1>7, <1>8

(* What has come to the content is whole messages.                          *)
LEMMA MessagesAdded ==
  ASSUME NotificationTypeOK, RingTypeOK, MessagesInv, NEW data \in Sendable,
         prvBytesInBuffer' = prvBytesInBuffer + Len(Framed(data)),
         \A i \in 1..prvBytesInBuffer : Content'[i] = Content[i],
         \A i \in 1..Len(Framed(data)) : Content'[prvBytesInBuffer + i] = Framed(data)[i],
         UNCHANGED <<application, xBytesAvailable, taken>>,
         Reader \in Tasks => pc'[Reader] = pc[Reader]
  PROVE  MessagesInv'
<1>1. /\ Reader' = Reader /\ IsMessageBuffer' = IsMessageBuffer /\ Header' = Header
  BY KindSame
<1>2. PICK n, m, k : n = prvBytesInBuffer /\ m = Len(data) /\ k = Len(Framed(data))
  OBVIOUS
<1>3. /\ n \in Nat /\ m \in Nat \ {0} /\ k = Header + m /\ Header \in {0, 1}
      /\ IsMessageBuffer => Framed(data)[1] = m /\ Header = 1
      /\ prvBytesInBuffer' = n + k
  BY <1>2, ContentFacts, StreamFacts, SendableFacts, FramedFacts DEF Header
<1>4. ConsumeInv'
  <2>1. ASSUME Reader \in Tasks, pc'[Reader] = "consume"
        PROVE  \E j \in 1..(n + k - Header) :
                 /\ taken' = [i \in 1..j |-> Content'[Header + i]]
                 /\ IsMessageBuffer => j = Content'[1]
    <3>1. PICK j \in 1..(n - Header) :
            /\ taken = [i \in 1..j |-> Content[Header + i]]
            /\ IsMessageBuffer => j = Content[1]
      BY <1>2, <2>1 DEF MessagesInv, ConsumeInv
    <3>2. j \in 1..(n + k - Header) /\ 1 \in 1..n
      BY <1>3
    <3>3. \A i \in 1..j : Header + i \in 1..n
      BY <1>3
    <3>4. [i \in 1..j |-> Content'[Header + i]] = [i \in 1..j |-> Content[Header + i]]
      BY <1>2, <3>3
    <3> QED
      BY <1>2, <3>1, <3>2, <3>4
  <2> QED
    BY <1>1, <1>3, <2>1 DEF ConsumeInv
<1>5. \A B, C : B \subseteq C /\ ReadInv(B) => ReadInv(C)'
  <2>1. xBytesAvailable <= n => xBytesAvailable <= n + k
    BY <1>3 DEF RingTypeOK
  <2> QED
    BY <1>1, <1>2, <1>3, <2>1 DEF ReadInv
<1>6. CASE IsMessageBuffer
  <2>1. PICK B \in SUBSET (0..n) : MessagesBegin(Content, n, B) /\ ReadInv(B)
    BY <1>2, <1>6 DEF MessagesInv, Boundaries
  <2>2. PICK new : new = Content'
    OBVIOUS
  <2>3. \A i \in 1..n : new[i] = Content[i]
    BY <1>2, <2>2
  <2>4. new[n + 1] = m
    <3>1. 1 \in 1..k
      BY <1>3
    <3> QED
      BY <1>2, <1>3, <1>6, <2>2, <3>1
  <2>5. MessagesBegin(new, n + 1 + m, B \union {n + 1 + m})
    <3>1. n \in Nat /\ m \in Nat \ {0}
      BY <1>3
    <3> QED
      BY <2>1, <2>3, <2>4, <3>1, MessageAdded
  <2>6. n + 1 + m = prvBytesInBuffer'
    BY <1>3, <1>6
  <2>7. ReadInv(B \union {n + 1 + m})'
    BY <1>5, <2>1
  <2>8. Boundaries(B \union {n + 1 + m})'
    BY <2>2, <2>5, <2>6 DEF Boundaries
  <2>9. B \union {n + 1 + m} \in SUBSET (0..prvBytesInBuffer')
    BY <2>5, <2>6 DEF MessagesBegin
  <2> QED
    BY <1>1, <1>4, <1>6, <2>7, <2>8, <2>9 DEF MessagesInv
<1>7. CASE ~ IsMessageBuffer
  <2>1. ReadInv({})
    BY <1>7 DEF MessagesInv
  <2>2. ReadInv({})'
    BY <1>5, <2>1
  <2> QED
    BY <1>1, <1>4, <1>7, <2>2 DEF MessagesInv
<1> QED
  BY <1>6, <1>7

(* Data comes to the content, and n bytes of data go to the reader.         *)
Comes(data) ==
  /\ Len(Framed(data)) <= xStreamBufferSpacesAvailable
  /\ Content' = Content \o Framed(data)

Goes(n) ==
  /\ IsMessageBuffer => n = Content[1]
  /\ pvRxData' = [i \in 1..n |-> Content[Header + i]]
  /\ Content' = SubSeq(Content, Header + n + 1, Len(Content))

LEMMA PublishHeadInv ==
  ASSUME NotificationInv, StreamInv, NEW t \in Tasks, PublishHead(t)
  PROVE  StreamInv' /\ NotificationInv' /\ \E data \in Sendable : Comes(data)
<1>1. /\ pc[t] = "publish" /\ pc' = [pc EXCEPT ![t] = "sent"]
      /\ xHead' = HeadAfter(pvTxData)
      /\ UNCHANGED <<application, notifyVars, kernelVars, request, back, buffer, xTail,
                     xTriggerLevelBytes, waitingVars, xSpace, sendTicks, receiveVars>>
      /\ RolesInv /\ RegisteredInv /\ RingTypeOK /\ WriterInv /\ MessagesInv
      /\ NotificationTypeOK
  BY DEF PublishHead, At, Goto, StreamInv, NotificationInv
<1>2. t = Writer /\ xTaskWaitingToSend = NULL
  BY <1>1, ActiveWriter DEF RolesInv, SendLabels, Active, Labels, WaitLabels
<1>3. WriterMoves(t, "sent")
  BY <1>1, <1>2, BackOfActive
     DEF WriterMoves, Moves, Active, Labels, WaitLabels, SendLabels, receiveVars
<1>4. /\ RolesInv'
      /\ Writer' = Writer /\ Reader' = Reader /\ Writer \in Tasks
      /\ pc'[Writer] = "sent" /\ back'[Writer] = "application"
      /\ ReceiverWaits' = ReceiverWaits
      /\ ReaderWillBeNotified'
      /\ Reader \in Tasks => pc'[Reader] = pc[Reader]
  BY <1>1, <1>3, WriterMoveFacts
<1>5. PICK data \in Sendable : data = pvTxData
  BY <1>1, <1>2 DEF WriterInv
<1>6. /\ xSpace = 0
      /\ Len(Framed(data)) <= xStreamBufferSpacesAvailable
      /\ \A i \in 1..Len(Framed(data)) :
           buffer[Wrap(xHead + i - 1, xLength)] = Framed(data)[i]
  BY <1>1, <1>2, <1>5 DEF WriterInv, Wrap
<1>7. Framed(data) \in Seq(Bytes \union Nat) /\ Len(Framed(data)) \in Nat
  BY SendableFacts, FramedFacts, LenProperties
<1>8. /\ xHead' \in 0..(xLength - 1)
      /\ prvBytesInBuffer' = prvBytesInBuffer + Len(Framed(data))
      /\ xStreamBufferSpacesAvailable' = xStreamBufferSpacesAvailable - Len(Framed(data))
      /\ \A i \in 1..prvBytesInBuffer : Content'[i] = Content[i]
      /\ \A i \in 1..Len(Framed(data)) : Content'[prvBytesInBuffer + i] = Framed(data)[i]
      /\ Content' = Content \o Framed(data)
  <2>1. \A i \in 1..prvBytesInBuffer : buffer'[Wrap(xTail + i - 1, xLength)] = Cell(i)
    BY <1>1 DEF Cell
  <2>2. \A i \in 1..Len(Framed(data)) :
          buffer'[Wrap(xHead + i - 1, xLength)] = Framed(data)[i]
    BY <1>1, <1>6
  <2>3. xHead' = Wrap(xHead + Len(Framed(data)), xLength)
    BY <1>1, <1>5 DEF HeadAfter, Wrap
  <2> QED
    BY <1>1, <1>6, <1>7, <2>1, <2>2, <2>3, ContentAdded
<1>9. /\ xLength' = xLength
      /\ UNCHANGED <<xTaskWaitingToSend, xTaskWaitingToReceive, xBytesAvailable, taken,
                     xBytesToStoreMessageLength, size, receiveTicks>>
  BY <1>1, KindSame DEF waitingVars, receiveVars
<1>10. RegisteredInv'
  BY <1>1, <1>2, <1>4, <1>9 DEF RegisteredInv
<1>11. RingTypeOK'
  BY <1>1, <1>8, <1>9 DEF RingTypeOK
<1>12. WriterInv'
  <2>1. xStreamBufferSpacesAvailable' \in Nat
    <3>1. xStreamBufferSpacesAvailable \in Nat
      BY SpaceFacts
    <3> QED
      BY <1>6, <1>7, <1>8, <3>1
  <2> QED
    BY <1>1, <1>4, <1>6, <2>1 DEF WriterInv
<1>13. MessagesInv'
  BY <1>1, <1>4, <1>8, <1>9, MessagesAdded
<1>14. WaitersAreTold'
  BY <1>2, <1>4, <1>9 DEF WaitersAreTold
<1>15. CallsMove
  BY <1>1 DEF CallsMove, NotificationInv, NotificationTypeOK, WaitLabels, Labels, SendLabels
<1>16. NotificationInv'
  BY <1>1, <1>15, MoveInv
<1>17. Comes(data)
  BY <1>6, <1>8 DEF Comes
<1> QED
  BY <1>4, <1>10, <1>11, <1>12, <1>13, <1>14, <1>16, <1>17 DEF StreamInv

-----------------------------------------------------------------------------
(* Receiving.                                                               *)

ReaderMoves(t, label) ==
  /\ t \in Tasks /\ t = Reader /\ Moves(t, label)
  /\ label \in {"application"} \union ReceiveLabels
  /\ UNCHANGED <<xTriggerLevelBytes, pvTxData, xSpace, sendTicks>>

(* What a step of the reader leaves alone.                                  *)
LEMMA ReaderMoveFacts ==
  ASSUME NotificationInv, RolesInv, NEW t, NEW label, ReaderMoves(t, label)
  PROVE  /\ RolesInv'
         /\ Writer' = Writer /\ Reader' = Reader /\ Reader \in Tasks /\ Writer # Reader
         /\ pc'[Reader] = label /\ back'[Reader] = "application"
         /\ SenderWaits' = SenderWaits
         /\ ReaderWillBeNotified => ReaderWillBeNotified'
         /\ WriterWillBeNotified' <=> label = "receiveCompleted"
         /\ Writer \in Tasks => pc'[Writer] = pc[Writer] /\ back'[Writer] = back[Writer]
<1>1. /\ t \in Tasks /\ t = Reader /\ label \in Labels \ WaitLabels
      /\ label \notin SendLabels
      /\ Writer # Reader
  BY StreamFacts DEF ReaderMoves, Labels, WaitLabels, SendLabels, ReceiveLabels, NotificationInv
<1>2. /\ RolesInv'
      /\ Writer' = Writer /\ Reader' = Reader
      /\ pc'[t] = label /\ back'[t] = "application"
      /\ \A u \in Tasks \ {t} : pc'[u] = pc[u] /\ back'[u] = back[u]
  BY <1>1, MoveFacts DEF ReaderMoves
<1>3. SenderWaits' = SenderWaits
  BY <1>1, <1>2 DEF SenderWaits
<1>4. ReaderWillBeNotified => ReaderWillBeNotified'
  BY <1>1, <1>2 DEF ReaderWillBeNotified, RolesInv, SendLabels
<1>5. WriterWillBeNotified' <=> label = "receiveCompleted"
  <2>1. \A u \in Tasks \ {t} : pc[u] \notin ReceiveLabels
    BY <1>1 DEF RolesInv
  <2> QED
    BY <1>1, <1>2, <2>1 DEF WriterWillBeNotified, ReceiveLabels
<1> QED
  BY <1>1, <1>2, <1>3, <1>4, <1>5

(* A step of the reader that leaves the ring alone.                         *)
LEMMA ReaderStepInv ==
  ASSUME NotificationInv, StreamInv, NEW t, NEW label, ReaderMoves(t, label),
         UNCHANGED <<buffer, xHead, xTail>>,
         receiveTicks' \in Times, xBytesAvailable' \in 0..(xLength - 1),
         xBytesToStoreMessageLength' \in Nat, size' \in Nat,
         \/ xTaskWaitingToReceive' = NULL
         \/ /\ xTaskWaitingToReceive' = Reader /\ label = "receiveWait"
            /\ prvBytesInBuffer <= xBytesToStoreMessageLength',
         xTaskWaitingToSend' \in {NULL, xTaskWaitingToSend},
         label = "read" => xBytesAvailable' = prvBytesInBuffer,
         label = "consume" =>
           \E n \in 1..(prvBytesInBuffer - Header) :
             /\ taken' = [i \in 1..n |-> Content[Header + i]]
             /\ IsMessageBuffer => n = Content[1],
         xTaskWaitingToSend' = NULL \/ label = "receiveCompleted" \/ ~ WriterWillBeNotified
  PROVE  StreamInv'
<1>1. /\ RolesInv /\ RegisteredInv /\ RingTypeOK /\ WriterInv /\ MessagesInv /\ WaitersAreTold
      /\ NotificationTypeOK
  BY DEF StreamInv, NotificationInv
<1>2. /\ RolesInv'
      /\ Writer' = Writer /\ Reader' = Reader /\ Reader \in Tasks /\ Writer # Reader
      /\ pc'[Reader] = label /\ back'[Reader] = "application"
      /\ SenderWaits' = SenderWaits
      /\ ReaderWillBeNotified => ReaderWillBeNotified'
      /\ WriterWillBeNotified' <=> label = "receiveCompleted"
      /\ Writer \in Tasks => pc'[Writer] = pc[Writer] /\ back'[Writer] = back[Writer]
  BY <1>1, ReaderMoveFacts
<1>3. UNCHANGED <<application, xTriggerLevelBytes, pvTxData, xSpace, sendTicks>>
  BY DEF ReaderMoves, Moves
<1>4. /\ xLength' = xLength /\ Header' = Header /\ IsMessageBuffer' = IsMessageBuffer
      /\ prvBytesInBuffer' = prvBytesInBuffer /\ Content' = Content
      /\ xStreamBufferSpacesAvailable' = xStreamBufferSpacesAvailable
      /\ \A data : Framed(data)' = Framed(data) /\ RequiredSpace(data)' = RequiredSpace(data)
  BY <1>3, KindSame, RingSame
<1>5. RegisteredInv'
  BY <1>1, <1>2 DEF RegisteredInv, ReceiverWaits
<1>6. RingTypeOK'
  BY <1>1, <1>3, <1>4 DEF RingTypeOK
<1>7. WriterInv'
  <2>1. Framed(pvTxData)' = Framed(pvTxData)
    BY <1>3, <1>4 DEF Framed
  <2> QED
    BY <1>1, <1>2, <1>3, <1>4, <2>1 DEF WriterInv
<1>8. MessagesInv'
  <2>1. ConsumeInv'
    BY <1>2, <1>4 DEF ConsumeInv
  <2>2. prvBytesInBuffer <= prvBytesInBuffer
    BY <1>1, ContentFacts
  <2>3. CASE IsMessageBuffer
    <3>1. PICK B \in SUBSET (0..prvBytesInBuffer) : Boundaries(B)
      BY <1>1, <2>3 DEF MessagesInv
    <3>2. Boundaries(B)' /\ prvBytesInBuffer \in B
      BY <1>4, <3>1 DEF Boundaries, MessagesBegin
    <3>3. ReadInv(B)'
      BY <1>2, <1>4, <2>2, <3>2 DEF ReadInv
    <3> QED
      BY <1>4, <2>1, <2>3, <3>1, <3>2, <3>3 DEF MessagesInv
  <2>4. CASE ~ IsMessageBuffer
    <3>1. ReadInv({})'
      BY <1>2, <1>4, <2>2, <2>4 DEF ReadInv
    <3> QED
      BY <1>4, <2>1, <2>4, <3>1 DEF MessagesInv
  <2> QED
    BY <2>3, <2>4
<1>9. WaitersAreTold'
  <2>1. RequiredSpace(pvTxData)' = RequiredSpace(pvTxData)
    BY <1>3, <1>4 DEF RequiredSpace
  <2> QED
    BY <1>1, <1>2, <1>3, <1>4, <2>1 DEF WaitersAreTold
<1> QED
  BY <1>2, <1>5, <1>6, <1>7, <1>8, <1>9 DEF StreamInv

LEMMA BytesFacts ==
  ASSUME NotificationInv, StreamInv
  PROVE  /\ prvBytesInBuffer \in 0..(xLength - 1)
         /\ xBytesAvailable \in 0..(xLength - 1)
         /\ xBytesToStoreMessageLength \in Nat /\ size \in Nat
         /\ receiveTicks \in Times
BY ContentFacts DEF StreamInv, NotificationInv, RingTypeOK

LEMMA ThresholdType ==
  ASSUME NotificationInv, StreamInv
  PROVE  Threshold \in Nat
<1>1. Header \in Nat /\ xTriggerLevelBytes \in Nat
  BY StreamFacts DEF StreamInv, NotificationInv, RingTypeOK
<1> QED
  BY <1>1 DEF Threshold

LEMMA CallReceiveInv ==
  ASSUME NotificationInv, StreamInv, NEW t \in Tasks, CallReceive(t)
  PROVE  StreamInv' /\ NotificationInv'
<1>1. /\ pc[t] = "application" /\ t = Reader
      /\ size' \in application.sizes /\ receiveTicks' \in application.times
      /\ xBytesToStoreMessageLength' = Threshold
      /\ xBytesAvailable' = prvBytesInBuffer
      /\ UNCHANGED <<application, ulNotifiedValue, kernelVars, request, back, ringVars,
                     xTaskWaitingToSend, sendVars>>
      /\ RolesInv /\ RegisteredInv
  BY DEF CallReceive, At, StreamInv, Reader
<1>2. xTaskWaitingToReceive = NULL
  BY <1>1, ActiveReader DEF Active, Labels, WaitLabels
<1>3. PICK label \in {"receiveWait", "read"} :
        /\ pc' = [pc EXCEPT ![t] = label]
        /\ label = "receiveWait" =>
             /\ prvBytesInBuffer <= Threshold /\ xTaskWaitingToReceive' = t /\ ClearState(t)
        /\ label = "read" =>
             /\ xTaskWaitingToReceive' = NULL /\ UNCHANGED <<ucNotifyState, unseen>>
  BY <1>2 DEF CallReceive, Goto
<1>4. ReaderMoves(t, label)
  BY <1>1, <1>3, BackOfActive
     DEF ReaderMoves, Moves, Active, Labels, WaitLabels, ReceiveLabels, sendVars, ringVars
<1>5. /\ UNCHANGED <<buffer, xHead, xTail, xTaskWaitingToSend>>
      /\ receiveTicks' \in Times /\ xBytesAvailable' \in 0..(xLength - 1)
      /\ xBytesToStoreMessageLength' \in Nat /\ size' \in Nat
      /\ ~ WriterWillBeNotified
  BY <1>1, StreamFacts, ThresholdType, BytesFacts
     DEF NotificationInv, ringVars, RolesInv, WriterWillBeNotified, ReceiveLabels
<1>6. StreamInv'
  BY <1>1, <1>3, <1>4, <1>5, ReaderStepInv
<1>7. CallsMove
  BY <1>1, <1>3
     DEF CallsMove, NotificationInv, NotificationTypeOK, WaitLabels, Labels, ReceiveLabels
<1>8. NotificationInv'
  <2>1. CASE label = "receiveWait"
    BY <1>1, <1>3, <1>7, <2>1, ClearInv
  <2>2. CASE label = "read"
    BY <1>1, <1>3, <1>7, <2>2, MoveInv DEF notifyVars
  <2> QED
    BY <2>1, <2>2
<1> QED
  BY <1>6, <1>8

LEMMA WaitToReceiveInv ==
  ASSUME NotificationInv, StreamInv, NEW t \in Tasks, WaitToReceive(t)
  PROVE  StreamInv' /\ NotificationInv'
<1>1. /\ pc[t] = "receiveWait" /\ Running(t)
      /\ BeginWait(t, WaitFor(receiveTicks), "receiveWoken")
      /\ UNCHANGED streamVars
  BY DEF WaitToReceive, At
<1>2. receiveTicks \in Times
  BY BytesFacts
<1>3. NotificationInv'
  BY <1>1, <1>2, WaitForType, BeginWaitInv DEF WaitLabels
<1>4. WaitMove /\ UNCHANGED application
  <2>1. \E label \in WaitLabels : pc' = [pc EXCEPT ![t] = label]
    BY <1>1 DEF BeginWait, Goto, WaitLabels
  <2> QED
    BY <1>1, <2>1 DEF BeginWait, WaitMove, NotificationInv
<1> QED
  BY <1>1, <1>3, <1>4, WaitMoveInv

LEMMA ReceiveWokenInv ==
  ASSUME NotificationInv, StreamInv, NEW t \in Tasks, ReceiveWoken(t)
  PROVE  StreamInv' /\ NotificationInv'
<1>1. /\ pc[t] = "receiveWoken" /\ xTaskWaitingToReceive' = NULL
      /\ xBytesAvailable' = prvBytesInBuffer
      /\ pc' = [pc EXCEPT ![t] = "read"]
      /\ UNCHANGED <<application, notifyVars, kernelVars, ringVars, xTaskWaitingToSend,
                     sendVars, xBytesToStoreMessageLength, size, taken, receiveTicks>>
      /\ request' = [request EXCEPT ![t] = NoRequest]
      /\ back' = [back EXCEPT ![t] = "application"]
      /\ RolesInv /\ RegisteredInv
  BY DEF ReceiveWoken, At, StreamInv, Forget, Goto
<1>2. t = Reader
  BY <1>1 DEF RolesInv, ReceiveLabels
<1>3. ReaderMoves(t, "read")
  BY <1>1, <1>2 DEF ReaderMoves, Moves, ReceiveLabels, sendVars, ringVars
<1>4. /\ UNCHANGED <<buffer, xHead, xTail, xTaskWaitingToSend>>
      /\ receiveTicks' \in Times /\ xBytesAvailable' \in 0..(xLength - 1)
      /\ xBytesToStoreMessageLength' \in Nat /\ size' \in Nat
      /\ ~ WriterWillBeNotified
  BY <1>1, <1>2, BytesFacts DEF ringVars, RolesInv, WriterWillBeNotified, ReceiveLabels
<1>5. StreamInv'
  BY <1>1, <1>3, <1>4, ReaderStepInv
<1>6. NoRequest \in Requests
  BY ValuesClosed DEF NoRequest, Requests, Times
<1>7. CallsMove
  BY <1>1, <1>6
     DEF CallsMove, NotificationInv, NotificationTypeOK, WaitLabels, Labels, ReceiveLabels
<1> QED
  BY <1>1, <1>5, <1>7, MoveInv

(* What the reader is given is there, and is one message.                   *)
LEMMA BytesReadFacts ==
  ASSUME NotificationTypeOK, RingTypeOK, NEW available \in Nat, NEW n \in Nat,
         0 < available, available <= prvBytesInBuffer, BytesRead(available, n) # 0,
         IsMessageBuffer => \E B : Boundaries(B) /\ available \in B
  PROVE  /\ BytesRead(available, n) \in 1..(prvBytesInBuffer - Header)
         /\ IsMessageBuffer => BytesRead(available, n) = Content[1]
<1>1. prvBytesInBuffer \in Nat
  BY ContentFacts
<1>2. CASE IsMessageBuffer
  <2>1. PICK B : Boundaries(B) /\ available \in B
    BY <1>2
  <2>2. MessagesBegin(Content, prvBytesInBuffer, B)
    BY <2>1 DEF Boundaries
  <2>3. /\ Content[1] \in Nat \ {0} /\ Content[1] <= prvBytesInBuffer - 1
        /\ 1 + Content[1] <= available
    BY <1>1, <2>1, <2>2, MessageTaken
  <2>4. Content[1] = buffer[xTail]
    <3>1. xTail + 1 - 1 = xTail /\ xTail \in 0..(2 * xLength - 1) /\ xTail < xLength
      BY StreamFacts DEF RingTypeOK
    <3>2. Wrap(xTail, xLength) = xTail
      BY <3>1, StreamFacts, Wrapped
    <3>3. 1 \in 1..prvBytesInBuffer
      BY <1>1
    <3>4. Content[1] = Cell(1)
      BY <3>3, ContentFacts
    <3> QED
      BY <3>1, <3>2, <3>4 DEF Cell
  <2>5. Header = 1
    BY <1>2 DEF Header
  <2>6. BytesRead(available, n) = Content[1]
    <3>1. BytesRead(available, n)
            = IF Content[1] > n THEN 0 ELSE Smaller(Content[1], available - 1)
      BY <1>2, <2>4, <2>5 DEF BytesRead
    <3>2. Smaller(Content[1], available - 1) = Content[1]
      BY <2>3 DEF Smaller
    <3> QED
      BY <3>1, <3>2
  <2> QED
    BY <1>1, <2>3, <2>5, <2>6
<1>3. CASE ~ IsMessageBuffer
  BY <1>1, <1>3 DEF BytesRead, Smaller, Header
<1> QED
  BY <1>2, <1>3

LEMMA ReadMessageInv ==
  ASSUME NotificationInv, StreamInv, NEW t \in Tasks, ReadMessage(t)
  PROVE  StreamInv' /\ NotificationInv'
<1>1. /\ pc[t] = "read"
      /\ xBytesToStoreMessageLength' = 0 /\ xBytesAvailable' = 0
      /\ size' = 0 /\ receiveTicks' = "none"
      /\ UNCHANGED <<application, notifyVars, kernelVars, request, back, ringVars,
                     waitingVars, sendVars>>
      /\ RolesInv /\ RegisteredInv /\ RingTypeOK /\ MessagesInv /\ NotificationTypeOK
  BY DEF ReadMessage, At, StreamInv, NotificationInv
<1>2. t = Reader /\ xTaskWaitingToReceive = NULL
  BY <1>1, ActiveReader DEF RolesInv, ReceiveLabels, Active, Labels, WaitLabels
<1>3. PICK label \in {"application", "consume"} :
        /\ pc' = [pc EXCEPT ![t] = label]
        /\ label = "consume" =>
             /\ xBytesAvailable > xBytesToStoreMessageLength
             /\ BytesRead(xBytesAvailable, size) # 0
             /\ taken' = prvReadBytesFromBuffer(Header, BytesRead(xBytesAvailable, size))
  BY DEF ReadMessage, Goto
<1>4. ReaderMoves(t, label)
  BY <1>1, <1>2, <1>3, BackOfActive
     DEF ReaderMoves, Moves, Active, Labels, WaitLabels, ReceiveLabels, sendVars, ringVars
<1>5. /\ UNCHANGED <<buffer, xHead, xTail, xTaskWaitingToSend>> /\ xTaskWaitingToReceive' = NULL
      /\ receiveTicks' \in Times /\ xBytesAvailable' \in 0..(xLength - 1)
      /\ xBytesToStoreMessageLength' \in Nat /\ size' \in Nat
      /\ ~ WriterWillBeNotified
  BY <1>1, <1>2, StreamFacts
     DEF ringVars, waitingVars, Times, RolesInv, WriterWillBeNotified, ReceiveLabels
<1>6. ASSUME label = "consume"
      PROVE  \E n \in 1..(prvBytesInBuffer - Header) :
               /\ taken' = [i \in 1..n |-> Content[Header + i]]
               /\ IsMessageBuffer => n = Content[1]
  <2>1. /\ xBytesAvailable <= prvBytesInBuffer
        /\ IsMessageBuffer => \E B : Boundaries(B) /\ xBytesAvailable \in B
    BY <1>1, <1>2 DEF MessagesInv, ReadInv
  <2>2. xBytesAvailable \in Nat /\ 0 < xBytesAvailable /\ size \in Nat
    BY <1>3, <1>6, BytesFacts
  <2>3. PICK n : n = BytesRead(xBytesAvailable, size)
    OBVIOUS
  <2>4. n \in 1..(prvBytesInBuffer - Header) /\ (IsMessageBuffer => n = Content[1])
    BY <1>1, <1>3, <1>6, <2>1, <2>2, <2>3, BytesReadFacts
  <2>5. Header \in Nat /\ n \in Nat /\ Header + n <= prvBytesInBuffer
    BY <1>1, <2>4, StreamFacts, BytesFacts
  <2>6. prvReadBytesFromBuffer(Header, n) = [i \in 1..n |-> Content[Header + i]]
    BY <1>1, <2>5, ReadFacts
  <2> QED
    BY <1>3, <1>6, <2>3, <2>4, <2>6
<1>7. StreamInv'
  BY <1>3, <1>4, <1>5, <1>6, ReaderStepInv
<1>8. CallsMove
  BY <1>1, <1>3
     DEF CallsMove, NotificationInv, NotificationTypeOK, WaitLabels, Labels, ReceiveLabels
<1> QED
  BY <1>1, <1>7, <1>8, MoveInv

LEMMA ReceiveCompletedInv ==
  ASSUME NotificationInv, StreamInv, NEW t \in Tasks, ReceiveCompleted(t)
  PROVE  StreamInv' /\ NotificationInv'
<1>1. /\ pc[t] = "receiveCompleted" /\ Running(t) /\ xTaskWaitingToSend' = NULL
      /\ pc' = [pc EXCEPT ![t] = "application"]
      /\ UNCHANGED <<application, request, back, ringVars, xTaskWaitingToReceive, sendVars,
                     receiveVars>>
      /\ RolesInv /\ RegisteredInv
  BY DEF ReceiveCompleted, At, StreamInv, Goto
<1>2. t = Reader /\ xTaskWaitingToReceive = NULL
  BY <1>1, ActiveReader DEF RolesInv, ReceiveLabels, Active, Labels, WaitLabels
<1>3. ReaderMoves(t, "application")
  BY <1>1, <1>2, BackOfActive
     DEF ReaderMoves, Moves, Active, Labels, WaitLabels, ReceiveLabels, sendVars, ringVars
<1>4. /\ UNCHANGED <<buffer, xHead, xTail>> /\ xTaskWaitingToReceive' = NULL
      /\ receiveTicks' \in Times /\ xBytesAvailable' \in 0..(xLength - 1)
      /\ xBytesToStoreMessageLength' \in Nat /\ size' \in Nat
  BY <1>1, <1>2, BytesFacts DEF ringVars, receiveVars
<1>5. StreamInv'
  BY <1>1, <1>3, <1>4, ReaderStepInv
<1>6. CallsMove
  BY <1>1 DEF CallsMove, NotificationInv, NotificationTypeOK, WaitLabels, Labels, ReceiveLabels
<1>7. ASSUME xTaskWaitingToSend = NULL
      PROVE  NotificationInv'
  BY <1>1, <1>6, <1>7, MoveInv DEF ReceiveCompleted
<1>8. ASSUME xTaskWaitingToSend # NULL
      PROVE  NotificationInv'
  <2>1. Notify(xTaskWaitingToSend, NoAction) /\ xTaskWaitingToSend \in Tasks
    BY <1>1, <1>8 DEF ReceiveCompleted, RegisteredInv, SenderWaits
  <2>2. suspender = NULL
    BY <1>1, NobodySuspends
  <2> QED
    BY <1>1, <1>6, <2>1, <2>2, NoActionType, NotifyInv
<1> QED
  BY <1>5, <1>7, <1>8

(* What has gone from the content was one message.                          *)
LEMMA MessagesTaken ==
  ASSUME NotificationTypeOK, RingTypeOK, MessagesInv,
         NEW n \in 1..(prvBytesInBuffer - Header), IsMessageBuffer => n = Content[1],
         prvBytesInBuffer' = prvBytesInBuffer - (Header + n),
         \A i \in 1..(prvBytesInBuffer - (Header + n)) : Content'[i] = Content[Header + n + i],
         UNCHANGED application,
         Reader \in Tasks => pc'[Reader] \notin {"read", "consume"}
  PROVE  MessagesInv'
<1>1. /\ Reader' = Reader /\ IsMessageBuffer' = IsMessageBuffer
  BY KindSame
<1>2. ConsumeInv' /\ \A B : ReadInv(B)'
  BY <1>1 DEF ConsumeInv, ReadInv
<1>3. CASE IsMessageBuffer
  <2>1. PICK B \in SUBSET (0..prvBytesInBuffer) : Boundaries(B)
    BY <1>3 DEF MessagesInv
  <2>2. PICK b, new : b = prvBytesInBuffer /\ new = Content'
    OBVIOUS
  <2>3. b \in Nat /\ b > 0 /\ Header = 1 /\ n \in Nat /\ n = Content[1]
    BY <1>3, <2>2, ContentFacts DEF Header
  <2>4. MessagesBegin(Content, b, B)
    BY <2>1, <2>2 DEF Boundaries
  <2>5. \A i \in 1..(b - (1 + n)) : new[i] = Content[1 + n + i]
    BY <2>2, <2>3
  <2>6. MessagesBegin(new, b - (1 + n), {q \in 0..(b - (1 + n)) : q + (1 + n) \in B})
    <3>1. b \in Nat /\ b > 0 /\ n = Content[1]
      BY <2>3
    <3>2. \A i \in 1..(b - (1 + Content[1])) : new[i] = Content[1 + Content[1] + i]
      BY <2>5, <3>1
    <3>3. MessagesBegin(new, b - (1 + Content[1]),
                        {q \in 0..(b - (1 + Content[1])) : q + (1 + Content[1]) \in B})
      BY <2>4, <3>1, <3>2, MessageTaken
    <3> QED
      BY <3>1, <3>3
  <2>7. prvBytesInBuffer' = b - (1 + n)
    BY <2>2, <2>3
  <2>8. PICK C : C = {q \in 0..(b - (1 + n)) : q + (1 + n) \in B}
    OBVIOUS
  <2>9. Boundaries(C)' /\ C \in SUBSET (0..prvBytesInBuffer')
    BY <2>2, <2>6, <2>7, <2>8 DEF Boundaries
  <2> QED
    BY <1>1, <1>2, <1>3, <2>9 DEF MessagesInv
<1>4. CASE ~ IsMessageBuffer
  BY <1>1, <1>2, <1>4 DEF MessagesInv
<1> QED
  BY <1>3, <1>4

(* Where the tail goes behind n bytes of data.                              *)
LEMMA TailMoves ==
  ASSUME NotificationTypeOK, RingTypeOK, NEW n \in 1..(prvBytesInBuffer - Header),
         NEW data, data = [i \in 1..n |-> Content[Header + i]]
  PROVE  /\ TailAfter(data) = Wrap(xTail + (Header + n), xLength)
         /\ Header + n \in 0..prvBytesInBuffer
<1>1. PICK S : S = {Content[Header + i] : i \in 1..n}
  OBVIOUS
<1>2. n \in Nat /\ Header \in {0, 1} /\ prvBytesInBuffer \in Nat
  BY ContentFacts, StreamFacts
<1>3. data \in Seq(S) /\ Len(data) = n
  <2>1. data = [i \in 1..n |-> data[i]] /\ \A i \in 1..n : data[i] \in S
    BY <1>1
  <2> QED
    BY <1>2, <2>1, FunctionIsSeq
<1>4. Len(Framed(data)) = Header + n
  <2>1. CASE IsMessageBuffer
    <3>1. <<Len(data)>> \in Seq(S \union Nat) /\ Len(<<Len(data)>>) = 1
      BY <1>2, <1>3
    <3>2. data \in Seq(S \union Nat)
      BY <1>3, SeqMonotonic
    <3>3. Len(<<Len(data)>> \o data) = Len(<<Len(data)>>) + Len(data)
      BY <3>1, <3>2, ConcatProperties
    <3> QED
      BY <1>3, <2>1, <3>1, <3>3 DEF Framed, Header
  <2>2. CASE ~ IsMessageBuffer
    BY <1>2, <1>3, <2>2 DEF Framed, Header
  <2> QED
    BY <2>1, <2>2
<1> QED
  BY <1>2, <1>4 DEF TailAfter, Wrap

LEMMA ConsumeTailInv ==
  ASSUME NotificationInv, StreamInv, NEW t \in Tasks, ConsumeTail(t)
  PROVE  StreamInv' /\ NotificationInv' /\ \E n \in 1..(prvBytesInBuffer - Header) : Goes(n)
<1>1. /\ pc[t] = "consume" /\ pc' = [pc EXCEPT ![t] = "receiveCompleted"]
      /\ xTail' = TailAfter(taken) /\ pvRxData' = taken
      /\ UNCHANGED <<application, notifyVars, kernelVars, request, back, buffer, xHead,
                     xTriggerLevelBytes, waitingVars, sendVars,
                     xBytesToStoreMessageLength, xBytesAvailable, size, receiveTicks>>
      /\ RolesInv /\ RegisteredInv /\ RingTypeOK /\ WriterInv /\ MessagesInv
      /\ NotificationTypeOK
  BY DEF ConsumeTail, At, Goto, StreamInv, NotificationInv
<1>2. t = Reader /\ xTaskWaitingToReceive = NULL
  BY <1>1, ActiveReader DEF RolesInv, ReceiveLabels, Active, Labels, WaitLabels
<1>3. ReaderMoves(t, "receiveCompleted")
  BY <1>1, <1>2, BackOfActive
     DEF ReaderMoves, Moves, Active, Labels, WaitLabels, ReceiveLabels, sendVars
<1>4. /\ RolesInv'
      /\ Writer' = Writer /\ Reader' = Reader /\ Reader \in Tasks
      /\ pc'[Reader] = "receiveCompleted"
      /\ SenderWaits' = SenderWaits
      /\ WriterWillBeNotified'
      /\ Writer \in Tasks => pc'[Writer] = pc[Writer] /\ back'[Writer] = back[Writer]
  BY <1>1, <1>3, ReaderMoveFacts
<1>5. PICK n \in 1..(prvBytesInBuffer - Header) :
        /\ taken = [i \in 1..n |-> Content[Header + i]]
        /\ IsMessageBuffer => n = Content[1]
  BY <1>1, <1>2 DEF MessagesInv, ConsumeInv
<1>6. PICK m \in 0..prvBytesInBuffer : m = Header + n /\ xTail' = Wrap(xTail + m, xLength)
  BY <1>1, <1>5, TailMoves
<1>7. /\ xTail' \in 0..(xLength - 1)
      /\ prvBytesInBuffer' = prvBytesInBuffer - m
      /\ xStreamBufferSpacesAvailable' = xStreamBufferSpacesAvailable + m
      /\ \A i \in 1..(prvBytesInBuffer - m) : Content'[i] = Content[m + i]
      /\ Content' = SubSeq(Content, m + 1, Len(Content))
  BY <1>1, <1>6, ContentTaken
<1>8. /\ xLength' = xLength
      /\ UNCHANGED <<xTaskWaitingToSend, xTaskWaitingToReceive, pvTxData, xSpace, sendTicks>>
      /\ \A data : Framed(data)' = Framed(data)
  BY <1>1, KindSame DEF waitingVars, sendVars
<1>9. RegisteredInv'
  BY <1>1, <1>2, <1>4, <1>8 DEF RegisteredInv
<1>10. RingTypeOK'
  BY <1>1, <1>7, <1>8 DEF RingTypeOK
<1>11. WriterInv'
  <2>1. PICK old \in Nat, new \in Nat :
          /\ old = xStreamBufferSpacesAvailable /\ new = xStreamBufferSpacesAvailable'
          /\ old <= new
    BY <1>7, SpaceFacts, BytesFacts
  <2>2. xSpace \in Nat
    BY <1>1 DEF RingTypeOK
  <2>3. ASSUME Writer \in Tasks, pc[Writer] = "publish"
        PROVE  Len(Framed(pvTxData)) \in Nat
    <3>1. pvTxData \in Sendable
      BY <1>1, <2>3 DEF WriterInv
    <3> QED
      BY <3>1, SendableFacts, FramedFacts, LenProperties
  <2>4. Framed(pvTxData)' = Framed(pvTxData)
    BY <1>1, <1>8 DEF Framed, IsMessageBuffer
  <2>5. xSpace <= old /\ (Writer \in Tasks /\ pc[Writer] = "publish" => Len(Framed(pvTxData)) <= old)
    BY <1>1, <2>1 DEF WriterInv
  <2>6. xSpace <= new /\ (Writer \in Tasks /\ pc[Writer] = "publish" => Len(Framed(pvTxData)) <= new)
    BY <2>1, <2>2, <2>3, <2>5
  <2>7. xSpace' <= xStreamBufferSpacesAvailable' /\ (Writer' \notin Tasks => xSpace' = 0)
    BY <1>1, <1>4, <1>8, <2>1, <2>6 DEF WriterInv
  <2> QED
    BY <1>1, <1>4, <1>8, <2>1, <2>4, <2>6, <2>7 DEF WriterInv
<1>12. MessagesInv'
  <2>1. Reader \in Tasks => pc'[Reader] \notin {"read", "consume"}
    BY <1>4
  <2> QED
    BY <1>1, <1>5, <1>6, <1>7, <2>1, MessagesTaken
<1>13. WaitersAreTold'
  BY <1>2, <1>4, <1>8 DEF WaitersAreTold
<1>14. CallsMove
  BY <1>1 DEF CallsMove, NotificationInv, NotificationTypeOK, WaitLabels, Labels, ReceiveLabels
<1>15. NotificationInv'
  BY <1>1, <1>14, MoveInv
<1>16. Goes(n)
  BY <1>1, <1>5, <1>6, <1>7 DEF Goes
<1> QED
  BY <1>4, <1>9, <1>10, <1>11, <1>12, <1>13, <1>15, <1>16 DEF StreamInv

-----------------------------------------------------------------------------
(* Interrupts, and the calls of others.                                     *)

(* A side that is an interrupt waits for nothing.                           *)
LEMMA InterruptSide ==
  ASSUME NotificationInv, StreamInv
  PROVE  /\ Writer \notin Tasks => xTaskWaitingToSend = NULL
         /\ Reader \notin Tasks => xTaskWaitingToReceive = NULL
         /\ xTaskWaitingToSend # NULL => xTaskWaitingToSend \in Tasks
         /\ xTaskWaitingToReceive # NULL => xTaskWaitingToReceive \in Tasks
BY DEF StreamInv, RegisteredInv, SenderWaits, ReceiverWaits

(* Between two steps of the tasks, all that is said of their calls holds on. *)
LEMMA CallsSame ==
  ASSUME RolesInv, UNCHANGED <<application, callVars>>
  PROVE  /\ RolesInv'
         /\ SenderWaits' = SenderWaits /\ ReceiverWaits' = ReceiverWaits
         /\ ReaderWillBeNotified' = ReaderWillBeNotified
         /\ WriterWillBeNotified' = WriterWillBeNotified
BY KindSame DEF callVars, RolesInv, SenderWaits, ReceiverWaits, ReaderWillBeNotified,
   WriterWillBeNotified

LEMMA SendFromISRInv ==
  ASSUME NotificationInv, StreamInv, xStreamBufferSendFromISR
  PROVE  StreamInv' /\ NotificationInv' /\ \E data \in Sendable : Comes(data)
<1>1. /\ Writer = "interrupt"
      /\ UNCHANGED <<application, callVars, xTail, xTriggerLevelBytes, xTaskWaitingToSend,
                     sendVars, receiveVars>>
      /\ RolesInv /\ RegisteredInv /\ RingTypeOK /\ WriterInv /\ MessagesInv /\ WaitersAreTold
      /\ NotificationTypeOK
  BY DEF xStreamBufferSendFromISR, StreamInv, NotificationInv, Writer
<1>2. Writer \notin Tasks /\ xTaskWaitingToSend = NULL
  BY <1>1, InterruptSide, StreamBufferAssumption
<1>3. PICK data \in Sendable :
        /\ Len(Framed(data)) <= xStreamBufferSpacesAvailable
        /\ buffer' = prvWriteBytesToBuffer(Framed(data))
        /\ xHead' = HeadAfter(data)
  <2>1. PICK whole \in application.sends :
          LET written == Written(whole, xStreamBufferSpacesAvailable)
          IN  /\ written # <<>>
              /\ buffer' = prvWriteBytesToBuffer(Framed(written))
              /\ xHead' = HeadAfter(written)
    BY DEF xStreamBufferSendFromISR
  <2>2. whole \in Sending /\ xStreamBufferSpacesAvailable \in Nat
    BY <1>1, <2>1, StreamFacts, SpaceFacts
  <2>3. /\ Written(whole, xStreamBufferSpacesAvailable) \in Sendable
        /\ Len(Framed(Written(whole, xStreamBufferSpacesAvailable)))
             <= xStreamBufferSpacesAvailable
    BY <1>1, <2>1, <2>2, WrittenFacts
  <2> QED
    BY <2>1, <2>3
<1>4. Framed(data) \in Seq(Bytes \union Nat) /\ Len(Framed(data)) \in Nat
  BY SendableFacts, FramedFacts, LenProperties
<1>5. /\ DOMAIN buffer' = 0..(xLength - 1)
      /\ \A i \in 1..prvBytesInBuffer : buffer'[Wrap(xTail + i - 1, xLength)] = Cell(i)
      /\ \A i \in 1..Len(Framed(data)) :
           buffer'[Wrap(xHead + i - 1, xLength)] = Framed(data)[i]
  BY <1>1, <1>3, <1>4, WriteFacts
<1>6. /\ xHead' \in 0..(xLength - 1)
      /\ prvBytesInBuffer' = prvBytesInBuffer + Len(Framed(data))
      /\ xStreamBufferSpacesAvailable' = xStreamBufferSpacesAvailable - Len(Framed(data))
      /\ \A i \in 1..prvBytesInBuffer : Content'[i] = Content[i]
      /\ \A i \in 1..Len(Framed(data)) : Content'[prvBytesInBuffer + i] = Framed(data)[i]
      /\ Content' = Content \o Framed(data)
  <2>1. xHead' = Wrap(xHead + Len(Framed(data)), xLength)
    BY <1>3 DEF HeadAfter, Wrap
  <2> QED
    BY <1>1, <1>3, <1>4, <1>5, <2>1, ContentAdded
<1>7. /\ xLength' = xLength /\ Writer' = Writer /\ Reader' = Reader
      /\ UNCHANGED <<xSpace, sendTicks, pvTxData, xBytesAvailable, taken,
                     xBytesToStoreMessageLength, size, receiveTicks>>
  BY <1>1, KindSame DEF sendVars, receiveVars
<1>8. /\ xTaskWaitingToReceive' \in {NULL, xTaskWaitingToReceive}
      /\ xTaskWaitingToReceive' # NULL => prvBytesInBuffer' < xTriggerLevelBytes
  <2>1. prvBytesInBuffer' \in Int /\ xTriggerLevelBytes \in Int
    <3>1. prvBytesInBuffer \in Int
      BY BytesFacts
    <3> QED
      BY <1>1, <1>4, <1>6, <3>1, StreamFacts DEF RingTypeOK
  <2>2. BytesFrom(xTail, xHead') = prvBytesInBuffer'
    BY <1>1, <1>7 DEF prvBytesInBuffer, BytesFrom
  <2> QED
    BY <2>1, <2>2 DEF xStreamBufferSendFromISR, EnoughBytes
<1>9. /\ RolesInv' /\ SenderWaits' = SenderWaits /\ ReceiverWaits' = ReceiverWaits
      /\ Reader \in Tasks => pc'[Reader] = pc[Reader]
  BY <1>1, CallsSame DEF callVars
<1>10. RegisteredInv'
  BY <1>1, <1>2, <1>7, <1>8, <1>9 DEF RegisteredInv
<1>11. RingTypeOK'
  BY <1>1, <1>5, <1>6, <1>7 DEF RingTypeOK
<1>12. WriterInv'
  <2>1. xSpace = 0
    BY <1>1, <1>2 DEF WriterInv
  <2>2. 0 <= xStreamBufferSpacesAvailable'
    <3>1. xStreamBufferSpacesAvailable \in Nat
      BY SpaceFacts
    <3> QED
      BY <1>3, <1>4, <1>6, <3>1
  <2> QED
    BY <1>2, <1>7, <2>1, <2>2 DEF WriterInv
<1>13. MessagesInv'
  BY <1>1, <1>6, <1>7, <1>9, MessagesAdded
<1>14. WaitersAreTold'
  BY <1>1, <1>2, <1>8 DEF WaitersAreTold
<1>15. CallsMove
  BY <1>1, Still
<1>16. NotificationInv'
  <2>1. CASE UNCHANGED <<notifyVars, kernelVars>>
    BY <1>1, <1>15, <2>1, MoveInv
  <2>2. CASE xTaskWaitingToReceive # NULL /\ NotifyFromISR(xTaskWaitingToReceive, NoAction)
    BY <1>1, <1>15, <2>2, InterruptSide, NoActionType, NotifyFromISRInv
  <2> QED
    BY <2>1, <2>2 DEF xStreamBufferSendFromISR
<1>17. Comes(data)
  BY <1>3, <1>6 DEF Comes
<1> QED
  BY <1>9, <1>10, <1>11, <1>12, <1>13, <1>14, <1>16, <1>17 DEF StreamInv

LEMMA ReceiveFromISRInv ==
  ASSUME NotificationInv, StreamInv, xStreamBufferReceiveFromISR
  PROVE  StreamInv' /\ NotificationInv' /\ \E n \in 1..(prvBytesInBuffer - Header) : Goes(n)
<1>1. /\ Reader = "interrupt" /\ xTaskWaitingToSend' = NULL
      /\ UNCHANGED <<application, callVars, buffer, xHead, xTriggerLevelBytes,
                     xTaskWaitingToReceive, sendVars, receiveVars>>
      /\ RolesInv /\ RegisteredInv /\ RingTypeOK /\ WriterInv /\ MessagesInv
      /\ NotificationTypeOK
  BY DEF xStreamBufferReceiveFromISR, StreamInv, NotificationInv, Reader
<1>2. Reader \notin Tasks /\ xTaskWaitingToReceive = NULL
  BY <1>1, InterruptSide, StreamBufferAssumption
<1>3. PICK n \in 1..(prvBytesInBuffer - Header) :
        /\ IsMessageBuffer => n = Content[1]
        /\ pvRxData' = [i \in 1..n |-> Content[Header + i]]
        /\ xTail' = TailAfter([i \in 1..n |-> Content[Header + i]])
  <2>1. PICK most \in application.sizes :
          /\ BytesRead(prvBytesInBuffer, most) # 0
          /\ pvRxData' = prvReadBytesFromBuffer(Header, BytesRead(prvBytesInBuffer, most))
          /\ xTail' = TailAfter(prvReadBytesFromBuffer(Header, BytesRead(prvBytesInBuffer, most)))
    BY DEF xStreamBufferReceiveFromISR
  <2>2. /\ most \in Nat /\ prvBytesInBuffer \in Nat /\ Header \in Nat
        /\ 0 < prvBytesInBuffer /\ prvBytesInBuffer <= prvBytesInBuffer
    BY <1>1, <2>1, StreamFacts, BytesFacts DEF xStreamBufferReceiveFromISR
  <2>3. IsMessageBuffer => \E B : Boundaries(B) /\ prvBytesInBuffer \in B
    BY <1>1 DEF MessagesInv, Boundaries, MessagesBegin
  <2>4. PICK n : n = BytesRead(prvBytesInBuffer, most)
    OBVIOUS
  <2>5. n \in 1..(prvBytesInBuffer - Header) /\ (IsMessageBuffer => n = Content[1])
    BY <1>1, <2>1, <2>2, <2>3, <2>4, BytesReadFacts
  <2>6. n \in Nat /\ Header + n <= prvBytesInBuffer
    BY <2>2, <2>5
  <2>7. prvReadBytesFromBuffer(Header, n) = [i \in 1..n |-> Content[Header + i]]
    BY <1>1, <2>2, <2>6, ReadFacts
  <2> QED
    BY <2>1, <2>4, <2>5, <2>7
<1>4. PICK m \in 0..prvBytesInBuffer : m = Header + n /\ xTail' = Wrap(xTail + m, xLength)
  BY <1>1, <1>3, TailMoves
<1>5. /\ xTail' \in 0..(xLength - 1)
      /\ prvBytesInBuffer' = prvBytesInBuffer - m
      /\ xStreamBufferSpacesAvailable' = xStreamBufferSpacesAvailable + m
      /\ \A i \in 1..(prvBytesInBuffer - m) : Content'[i] = Content[m + i]
      /\ Content' = SubSeq(Content, m + 1, Len(Content))
  BY <1>1, <1>4, ContentTaken
<1>6. /\ xLength' = xLength /\ Writer' = Writer /\ Reader' = Reader
      /\ UNCHANGED <<xSpace, sendTicks, pvTxData, xBytesAvailable, taken,
                     xBytesToStoreMessageLength, size, receiveTicks>>
  BY <1>1, KindSame DEF sendVars, receiveVars
<1>7. /\ RolesInv' /\ UNCHANGED <<pc, back>>
  BY <1>1, CallsSame DEF callVars
<1>8. RegisteredInv'
  BY <1>1, <1>2 DEF RegisteredInv
<1>9. RingTypeOK'
  BY <1>1, <1>5, <1>6 DEF RingTypeOK
<1>10. WriterInv'
  <2>1. PICK old \in Nat, new \in Nat :
          /\ old = xStreamBufferSpacesAvailable /\ new = xStreamBufferSpacesAvailable'
          /\ old <= new
    BY <1>5, SpaceFacts, BytesFacts
  <2>2. xSpace \in Nat
    BY <1>1 DEF RingTypeOK
  <2>3. ASSUME Writer \in Tasks, pc[Writer] = "publish"
        PROVE  Len(Framed(pvTxData)) \in Nat
    <3>1. pvTxData \in Sendable
      BY <1>1, <2>3 DEF WriterInv
    <3> QED
      BY <3>1, SendableFacts, FramedFacts, LenProperties
  <2>4. Framed(pvTxData)' = Framed(pvTxData)
    BY <1>1, <1>6 DEF Framed, IsMessageBuffer
  <2>5. xSpace <= old /\ (Writer \in Tasks /\ pc[Writer] = "publish" => Len(Framed(pvTxData)) <= old)
    BY <1>1, <2>1 DEF WriterInv
  <2>6. xSpace <= new /\ (Writer \in Tasks /\ pc[Writer] = "publish" => Len(Framed(pvTxData)) <= new)
    BY <2>1, <2>2, <2>3, <2>5
  <2>7. xSpace' <= xStreamBufferSpacesAvailable' /\ (Writer' \notin Tasks => xSpace' = 0)
    BY <1>1, <1>6, <2>1, <2>6 DEF WriterInv
  <2> QED
    BY <1>1, <1>6, <1>7, <2>1, <2>4, <2>6, <2>7 DEF WriterInv
<1>11. MessagesInv'
  BY <1>1, <1>2, <1>3, <1>4, <1>5, MessagesTaken
<1>12. WaitersAreTold'
  BY <1>1, <1>2 DEF WaitersAreTold
<1>13. CallsMove
  BY <1>1, Still
<1>14. NotificationInv'
  <2>1. CASE UNCHANGED <<notifyVars, kernelVars>>
    BY <1>1, <1>13, <2>1, MoveInv
  <2>2. CASE xTaskWaitingToSend # NULL /\ NotifyFromISR(xTaskWaitingToSend, NoAction)
    BY <1>1, <1>13, <2>2, InterruptSide, NoActionType, NotifyFromISRInv
  <2> QED
    BY <2>1, <2>2 DEF xStreamBufferReceiveFromISR
<1>16. Goes(n)
  BY <1>3, <1>4, <1>5 DEF Goes
<1> QED
  BY <1>7, <1>8, <1>9, <1>10, <1>11, <1>12, <1>14, <1>16 DEF StreamInv

(* No bytes, and no message.                                                *)
LEMMA EmptyContent ==
  NotificationTypeOK /\ xHead = 0 /\ xTail = 0 =>
    /\ prvBytesInBuffer = 0 /\ xStreamBufferSpacesAvailable = xLength - 1
    /\ Content = <<>>
    /\ Boundaries({0})
<1> SUFFICES ASSUME NotificationTypeOK, xHead = 0, xTail = 0
             PROVE  /\ prvBytesInBuffer = 0 /\ xStreamBufferSpacesAvailable = xLength - 1
                    /\ Content = <<>>
                    /\ Boundaries({0})
  OBVIOUS
<1>1. PICK l \in Nat \ {0} : l = xLength
  BY StreamFacts
<1>2. /\ Wrap(l + 0 - 0, l) = 0
      /\ Wrap(l + 0 - 0 - 1, l) = l - 1
  BY RingPlaces, <1>1
<1>3. prvBytesInBuffer = 0 /\ xStreamBufferSpacesAvailable = xLength - 1
  BY <1>1, <1>2 DEF prvBytesInBuffer, BytesFrom, xStreamBufferSpacesAvailable, Wrap
<1>4. Content = <<>>
  BY <1>3 DEF Content, prvReadBytesFromBuffer
<1> QED
  BY <1>3, <1>4 DEF Boundaries, MessagesBegin

LEMMA ResetInv ==
  ASSUME NotificationInv, StreamInv, xStreamBufferReset
  PROVE  StreamInv' /\ NotificationInv' /\ Content' = <<>>
<1>1. /\ xTaskWaitingToReceive = NULL /\ xTaskWaitingToSend = NULL
      /\ xHead' = 0 /\ xTail' = 0 /\ NobodyIsCopying
      /\ UNCHANGED <<application, callVars, notifyVars, kernelVars>>
      /\ UNCHANGED <<buffer, xTriggerLevelBytes, waitingVars, sendVars, receiveVars>>
      /\ RolesInv /\ RingTypeOK /\ WriterInv /\ NotificationTypeOK
  BY DEF xStreamBufferReset, StreamInv, NotificationInv, notificationVars
<1>2. NotificationInv'
  BY <1>1, Still, MoveInv
<1>3. /\ prvBytesInBuffer' = 0 /\ xStreamBufferSpacesAvailable' = xLength' - 1
      /\ Content' = <<>>
      /\ Boundaries({0})'
  <2>1. (NotificationTypeOK /\ xHead = 0 /\ xTail = 0)'
    BY <1>1, <1>2 DEF NotificationInv
  <2>2. (prvBytesInBuffer = 0 /\ xStreamBufferSpacesAvailable = xLength - 1
           /\ Content = <<>> /\ Boundaries({0}))'
    BY <2>1, EmptyContent, PTL
  <2> QED
    BY <2>2
<1>4. /\ xLength' = xLength /\ Writer' = Writer /\ Reader' = Reader
      /\ IsMessageBuffer' = IsMessageBuffer
      /\ UNCHANGED <<xSpace, sendTicks, pvTxData, xBytesAvailable, taken, receiveTicks,
                     xBytesToStoreMessageLength, size, pc, back,
                     xTaskWaitingToReceive, xTaskWaitingToSend>>
  BY <1>1, KindSame DEF waitingVars, sendVars, receiveVars, callVars
<1>5. RolesInv'
  BY <1>1, CallsSame
<1>6. RegisteredInv'
  BY <1>1, <1>4 DEF RegisteredInv
<1>7. RingTypeOK'
  BY <1>1, <1>4, StreamFacts DEF RingTypeOK
<1>8. WriterInv'
  BY <1>1, <1>3, <1>4, StreamFacts DEF WriterInv, RingTypeOK, NobodyIsCopying
<1>9. MessagesInv'
  <2>1. ConsumeInv' /\ \A B : ReadInv(B)'
    BY <1>1, <1>4 DEF ConsumeInv, ReadInv, NobodyIsCopying
  <2>2. {0} \in SUBSET (0..prvBytesInBuffer')
    BY <1>3
  <2> QED
    BY <1>3, <2>1, <2>2 DEF MessagesInv
<1>10. WaitersAreTold'
  BY <1>1, <1>4 DEF WaitersAreTold
<1> QED
  BY <1>2, <1>3, <1>5, <1>6, <1>7, <1>8, <1>9, <1>10 DEF StreamInv

LEMMA SetTriggerLevelInv ==
  ASSUME NotificationInv, StreamInv, xStreamBufferSetTriggerLevel
  PROVE  StreamInv' /\ NotificationInv'
<1>1. /\ xTaskWaitingToReceive = NULL /\ xTriggerLevelBytes' \in application.levels
      /\ UNCHANGED <<application, callVars, notifyVars, kernelVars>>
      /\ UNCHANGED <<buffer, xHead, xTail, waitingVars, sendVars, receiveVars>>
      /\ RolesInv /\ RegisteredInv /\ RingTypeOK /\ WriterInv /\ MessagesInv /\ WaitersAreTold
  BY DEF xStreamBufferSetTriggerLevel, StreamInv, notificationVars
<1>2. NotificationInv'
  BY <1>1, Still, MoveInv
<1>3. /\ xLength' = xLength /\ Writer' = Writer /\ Reader' = Reader
      /\ prvBytesInBuffer' = prvBytesInBuffer /\ Content' = Content
      /\ xStreamBufferSpacesAvailable' = xStreamBufferSpacesAvailable
      /\ \A data : Framed(data)' = Framed(data) /\ RequiredSpace(data)' = RequiredSpace(data)
      /\ UNCHANGED <<xSpace, sendTicks, pvTxData, xBytesAvailable, taken, receiveTicks,
                     xBytesToStoreMessageLength, size, pc, back,
                     xTaskWaitingToReceive, xTaskWaitingToSend>>
  BY <1>1, KindSame, RingSame DEF waitingVars, sendVars, receiveVars, callVars
<1>4. RolesInv' /\ WriterWillBeNotified' = WriterWillBeNotified /\ SenderWaits' = SenderWaits
  BY <1>1, CallsSame
<1>5. RegisteredInv'
  BY <1>1, <1>3, <1>4 DEF RegisteredInv
<1>6. RingTypeOK'
  BY <1>1, <1>3 DEF RingTypeOK
<1>7. WriterInv'
  <2>1. Framed(pvTxData)' = Framed(pvTxData)
    BY <1>1, <1>3 DEF Framed, IsMessageBuffer
  <2> QED
    BY <1>1, <1>3, <2>1 DEF WriterInv
<1>8. MessagesInv'
  BY <1>1, <1>3, MessagesSame
<1>9. WaitersAreTold'
  <2>1. RequiredSpace(pvTxData)' = RequiredSpace(pvTxData)
    BY <1>1, <1>3 DEF RequiredSpace, IsMessageBuffer, Header, xLength
  <2> QED
    BY <1>1, <1>3, <1>4, <2>1 DEF WaitersAreTold
<1> QED
  BY <1>2, <1>4, <1>5, <1>6, <1>7, <1>8, <1>9 DEF StreamInv

-----------------------------------------------------------------------------
LEMMA InitInv == Init => IInv
<1> SUFFICES ASSUME Init
             PROVE  IInv
  OBVIOUS
<1>1. /\ NotificationInit
      /\ buffer = [i \in 0..(application.length - 1) |-> 0]
      /\ xHead = 0 /\ xTail = 0 /\ xTriggerLevelBytes \in application.levels
      /\ xTaskWaitingToSend = NULL /\ xTaskWaitingToReceive = NULL
      /\ xSpace = 0 /\ sendTicks = "none" /\ receiveTicks = "none"
      /\ xBytesToStoreMessageLength = 0 /\ xBytesAvailable = 0 /\ size = 0
  BY DEF Init
<1>2. NotificationTypeOK
  <2>1. NoRequest \in Requests /\ {} \in Values
    BY ValuesClosed DEF NoRequest, Requests, Times
  <2> QED
    BY <1>1, <2>1 DEF NotificationInit, NotificationTypeOK
<1>3. NotificationInv
  BY <1>1, <1>2, ApplicationFacts
     DEF NotificationInit, NotificationInv, WaitInv, Blocked, Labels
<1>4. /\ prvBytesInBuffer = 0 /\ xStreamBufferSpacesAvailable = xLength - 1
      /\ Boundaries({0})
  BY <1>1, <1>2, EmptyContent
<1>5. xLength \in Nat \ {0}
  BY <1>2, StreamFacts
<1>6. \A t \in Tasks : pc[t] = "application" /\ back[t] = "application"
  BY <1>1 DEF NotificationInit
<1>7. RolesInv /\ RegisteredInv /\ WaitersAreTold
  BY <1>1, <1>6 DEF RolesInv, RegisteredInv, WaitersAreTold, SendLabels, ReceiveLabels
<1>8. RingTypeOK
  BY <1>1, <1>5 DEF RingTypeOK, xLength, Times
<1>9. WriterInv
  BY <1>1, <1>4, <1>5, <1>6 DEF WriterInv
<1>10. MessagesInv
  <2>1. ConsumeInv /\ \A B : ReadInv(B)
    BY <1>6 DEF ConsumeInv, ReadInv
  <2>2. {0} \in SUBSET (0..prvBytesInBuffer)
    BY <1>4
  <2> QED
    BY <1>4, <2>1, <2>2 DEF MessagesInv
<1> QED
  BY <1>3, <1>7, <1>8, <1>9, <1>10 DEF IInv, StreamInv

LEMMA NextInv == IInv /\ [Next]_vars => IInv'
<1> SUFFICES ASSUME NotificationInv, StreamInv, [Next]_vars
             PROVE  StreamInv' /\ NotificationInv'
  BY DEF IInv
<1>1. ASSUME NotificationNext, UNCHANGED streamVars
      PROVE  StreamInv' /\ NotificationInv'
  BY <1>1, NotificationStep, NotificationMoves, WaitMoveInv
<1>2. ASSUME NEW t \in Tasks, Send(t)
      PROVE  StreamInv' /\ NotificationInv'
  BY <1>2, CallSendInv, CheckSpaceInv, WaitToSendInv, SendWokenInv, WriteMessageInv,
     PublishHeadInv, SentInv, SendCompletedInv DEF Send
<1>3. ASSUME NEW t \in Tasks, Receive(t)
      PROVE  StreamInv' /\ NotificationInv'
  BY <1>3, CallReceiveInv, WaitToReceiveInv, ReceiveWokenInv, ReadMessageInv,
     ConsumeTailInv, ReceiveCompletedInv DEF Receive
<1>4. ASSUME UNCHANGED vars
      PROVE  StreamInv' /\ NotificationInv'
  <2>1. UNCHANGED <<application, notifyVars, kernelVars, callVars>> /\ UNCHANGED streamVars
    BY <1>4 DEF vars, notificationVars
  <2>2. WaitMove
    BY <2>1 DEF WaitMove, callVars
  <2> QED
    BY <2>1, <2>2, Still, MoveInv, WaitMoveInv
<1> QED
  BY <1>1, <1>2, <1>3, <1>4, SendFromISRInv, ReceiveFromISRInv, ResetInv, SetTriggerLevelInv
     DEF Next

LEMMA SpecInv == Spec => []IInv
BY InitInv, NextInv, PTL DEF Spec

(* Whatever the tasks and the interrupts do, and in whatever order, the     *)
(* head, the tail and the trigger level stay in the buffer, a side that is  *)
(* registered is the one that waits, and what each saw of the ring was in   *)
(* it.                                                                      *)
THEOREM TypeCorrect == Spec => []TypeOK
<1>1. IInv => TypeOK
  BY DEF IInv, NotificationInv, StreamInv, RingTypeOK, RegisteredInv, TypeOK, Writer, Reader
<1> QED
  BY <1>1, SpecInv, PTL

(* No task sleeps through a notification, whether it comes before the task  *)
(* looks, between its first look and its second, while it is put into its   *)
(* list, or from an interrupt while the scheduler is suspended.             *)
THEOREM NotificationsArrive == Spec => []NoNotificationIsMissed
<1>1. IInv => NoNotificationIsMissed
  <2> SUFFICES ASSUME NotificationInv
               PROVE  NoNotificationIsMissed
    BY DEF IInv
  <2>1. \A t \in Tasks : WaitInv(t)
    BY DEF NotificationInv
  <2> QED
    BY <2>1 DEF NotificationInv, NoNotificationIsMissed, WaitInv
<1> QED
  BY <1>1, SpecInv, PTL

(* The writer and the reader of a buffer are told of what the other did:    *)
(* neither is left waiting for bytes, or for space, that there are.         *)
THEOREM NobodyWaitsForWhatIsThere == Spec => []WaitersAreTold
<1>1. IInv => WaitersAreTold
  BY DEF IInv, StreamInv
<1> QED
  BY <1>1, SpecInv, PTL

-----------------------------------------------------------------------------
(* What the buffer promises.                                                *)

LEMMA ContentBytes ==
  ASSUME NotificationTypeOK, RingTypeOK
  PROVE  /\ \E S : Content \in Seq(S)
         /\ Len(Content) = prvBytesInBuffer /\ prvBytesInBuffer \in Nat
<1>1. PICK S : S = {Content[i] : i \in 1..prvBytesInBuffer}
  OBVIOUS
<1>2. \A i \in 1..prvBytesInBuffer : Content[i] \in S
  BY <1>1
<1> QED
  BY <1>2, ContentSeq, ContentFacts

LEMMA PromiseSame ==
  ASSUME UNCHANGED <<application, pvRxData>>, Content' = Content
  PROVE  UNCHANGED Promise!vars
BY DEF Promise!vars, Content, xLength, IsMessageBuffer

LEMMA PromiseSend ==
  ASSUME NotificationInv, StreamInv, NEW data \in Sendable, Comes(data),
         UNCHANGED <<application, pvRxData>>
  PROVE  Promise!Next
<1>1. NotificationTypeOK /\ RingTypeOK
  BY DEF NotificationInv, StreamInv
<1>2. Promise!Frame(data) = Framed(data)
  BY DEF Promise!Frame, Framed
<1>3. Len(Content) + Len(Framed(data)) <= xLength - 1
  <2>1. /\ Len(Content) = prvBytesInBuffer
        /\ xStreamBufferSpacesAvailable = xLength - 1 - prvBytesInBuffer
        /\ prvBytesInBuffer \in Nat /\ xLength \in Nat
    BY <1>1, ContentBytes, ContentFacts, StreamFacts
  <2>2. Len(Framed(data)) \in Nat
    BY SendableFacts, FramedFacts, LenProperties
  <2> QED
    BY <2>1, <2>2 DEF Comes
<1>4. Promise!Send(data)
  BY <1>2, <1>3 DEF Promise!Send, Comes, Content, xLength, IsMessageBuffer
<1> QED
  BY <1>4 DEF Promise!Next, Sendable, Sending

LEMMA PromiseReceive ==
  ASSUME NotificationInv, StreamInv, NEW n \in 1..(prvBytesInBuffer - Header), Goes(n),
         UNCHANGED application
  PROVE  Promise!Next
<1>1. NotificationTypeOK /\ RingTypeOK
  BY DEF NotificationInv, StreamInv
<1>2. PICK S : Content \in Seq(S)
  BY <1>1, ContentBytes
<1>3. /\ Len(Content) = prvBytesInBuffer /\ prvBytesInBuffer \in 0..(xLength - 1)
      /\ Header \in {0, 1} /\ n \in Nat \ {0} /\ Header + n <= Len(Content)
      /\ xLength \in Nat
  BY <1>1, ContentBytes, ContentFacts, StreamFacts
<1>4. SubSeq(Content, Header + 1, Header + n) = [i \in 1..n |-> Content[Header + i]]
  <2>1. PICK read : read = [i \in 1..n |-> Content[Header + i]]
    OBVIOUS
  <2>2. \A i \in (Header + 1)..(Header + n) : Content[i] \in S
    BY <1>2, <1>3, ElementOfSeq
  <2>3. read \in Seq(S) /\ Len(read) = n
    <3>1. \A i \in 1..n : Header + i \in (Header + 1)..(Header + n)
      BY <1>3
    <3>2. read = [i \in 1..n |-> read[i]] /\ \A i \in 1..n : read[i] \in S
      BY <2>1, <2>2, <3>1
    <3> QED
      BY <1>3, <3>2, FunctionIsSeq
  <2>4. /\ SubSeq(Content, Header + 1, Header + n) \in Seq(S)
        /\ Len(SubSeq(Content, Header + 1, Header + n))
             = IF Header + 1 <= Header + n THEN Header + n - (Header + 1) + 1 ELSE 0
        /\ \A i \in 1..(Header + n - (Header + 1) + 1) :
             SubSeq(Content, Header + 1, Header + n)[i] = Content[Header + 1 + i - 1]
    BY <1>3, <2>2, SubSeqProperties
  <2>5. Len(SubSeq(Content, Header + 1, Header + n)) = n
    BY <1>3, <2>4
  <2>6. ASSUME NEW i \in 1..n
        PROVE  SubSeq(Content, Header + 1, Header + n)[i] = read[i]
    <3>1. i \in 1..(Header + n - (Header + 1) + 1) /\ Header + 1 + i - 1 = Header + i
      BY <1>3
    <3> QED
      BY <2>1, <2>4, <3>1
  <2> QED
    BY <2>1, <2>3, <2>4, <2>5, <2>6, SeqEqual
<1>5. Content # <<>>
  BY <1>3, EmptySeq
<1>6. Promise!Receive(n)
  <2>1. IsMessageBuffer => n = Head(Content)
    BY <1>2, <1>5, HeadTailProperties DEF Goes
  <2>2. PICK first, last :
          /\ first = (IF IsMessageBuffer THEN 2 ELSE 1) /\ last = first + n - 1
    OBVIOUS
  <2>3. first = Header + 1 /\ last = Header + n
    BY <1>3, <2>2 DEF Header
  <2>4. /\ last <= Len(Content)
        /\ pvRxData' = SubSeq(Content, first, last)
        /\ Content' = SubSeq(Content, last + 1, Len(Content))
    BY <1>3, <1>4, <2>3 DEF Goes
  <2> QED
    BY <1>5, <2>1, <2>2, <2>4 DEF Promise!Receive, Content, xLength, IsMessageBuffer
<1>7. n \in 1..(xLength - 1)
  BY <1>3
<1> QED
  BY <1>6, <1>7 DEF Promise!Next

LEMMA PromiseStep ==
  ASSUME NotificationInv, StreamInv, Next
  PROVE  Promise!Next \/ UNCHANGED Promise!vars
<1>1. ASSUME NotificationNext, UNCHANGED streamVars
      PROVE  UNCHANGED Promise!vars
  BY <1>1, NotificationMoves, RingSame, PromiseSame DEF streamVars, ringVars
<1>2. ASSUME NEW t \in Tasks, Send(t)
      PROVE  Promise!Next \/ UNCHANGED Promise!vars
  <2>1. CASE PublishHead(t)
    BY <2>1, PublishHeadInv, PromiseSend DEF PublishHead
  <2>2. CASE WriteMessage(t)
    BY <2>2, WriteMessageInv, PromiseSame DEF WriteMessage
  <2>3. CASE WaitToSend(t)
    BY <2>3, RingSame, PromiseSame DEF WaitToSend, BeginWait, streamVars, ringVars
  <2>4. CASE CallSend(t) \/ CheckSpace(t) \/ SendWoken(t) \/ Sent(t) \/ SendCompleted(t)
    <3>1. UNCHANGED <<application, ringVars, pvRxData>>
      BY <2>4 DEF CallSend, CheckSpace, SendWoken, Sent, SendCompleted, streamVars
    <3> QED
      BY <3>1, RingSame, PromiseSame DEF ringVars
  <2> QED
    BY <1>2, <2>1, <2>2, <2>3, <2>4 DEF Send
<1>3. ASSUME NEW t \in Tasks, Receive(t)
      PROVE  Promise!Next \/ UNCHANGED Promise!vars
  <2>1. CASE ConsumeTail(t)
    BY <2>1, ConsumeTailInv, PromiseReceive DEF ConsumeTail
  <2>2. CASE WaitToReceive(t)
    BY <2>2, RingSame, PromiseSame DEF WaitToReceive, BeginWait, streamVars, ringVars
  <2>3. CASE CallReceive(t) \/ ReceiveWoken(t) \/ ReadMessage(t) \/ ReceiveCompleted(t)
    <3>1. UNCHANGED <<application, ringVars, pvRxData>>
      BY <2>3 DEF CallReceive, ReceiveWoken, ReadMessage, ReceiveCompleted
    <3> QED
      BY <3>1, RingSame, PromiseSame DEF ringVars
  <2> QED
    BY <1>3, <2>1, <2>2, <2>3 DEF Receive
<1>4. ASSUME xStreamBufferSendFromISR
      PROVE  Promise!Next
  BY <1>4, SendFromISRInv, PromiseSend DEF xStreamBufferSendFromISR
<1>5. ASSUME xStreamBufferReceiveFromISR
      PROVE  Promise!Next
  BY <1>5, ReceiveFromISRInv, PromiseReceive DEF xStreamBufferReceiveFromISR
<1>6. ASSUME xStreamBufferReset
      PROVE  Promise!Next
  <2>1. Content' = <<>> /\ UNCHANGED <<application, pvRxData>>
    BY <1>6, ResetInv DEF xStreamBufferReset, notificationVars
  <2> QED
    BY <2>1 DEF Promise!Next, Promise!Reset, Content, xLength, IsMessageBuffer
<1>7. ASSUME xStreamBufferSetTriggerLevel
      PROVE  UNCHANGED Promise!vars
  BY <1>7, RingSame, PromiseSame DEF xStreamBufferSetTriggerLevel, notificationVars
<1> QED
  BY <1>1, <1>2, <1>3, <1>4, <1>5, <1>6, <1>7 DEF Next

(* Bytes come out of the ring in the order in which they went in, no more   *)
(* than fit, and messages whole, while the writer copies behind the head    *)
(* and the reader behind the tail at the same time.                         *)
THEOREM Refinement == Spec => ImplementsByteStream
<1>1. Init => Promise!Init
  <2> SUFFICES ASSUME Init
               PROVE  Promise!Init
    OBVIOUS
  <2>1. NotificationInv
    BY InitInv DEF IInv
  <2>2. xLength - 1 \in Nat /\ Content = <<>>
    BY <2>1, StreamFacts, EmptyContent DEF Init, NotificationInv
  <2> QED
    BY <2>2 DEF Init, Promise!Init, Content, IsMessageBuffer
<1>2. IInv /\ [Next]_vars => [Promise!Next]_(Promise!vars)
  <2> SUFFICES ASSUME NotificationInv, StreamInv, [Next]_vars
               PROVE  Promise!Next \/ UNCHANGED Promise!vars
    BY DEF IInv
  <2>1. CASE UNCHANGED vars
    BY <2>1, RingSame, PromiseSame DEF vars, notificationVars, streamVars, ringVars
  <2> QED
    BY <2>1, PromiseStep
<1> QED
  BY <1>1, <1>2, SpecInv, PTL DEF Spec, ImplementsByteStream, Promise!Spec
=============================================================================

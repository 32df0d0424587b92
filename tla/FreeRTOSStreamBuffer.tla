------------------------ MODULE FreeRTOSStreamBuffer ------------------------
(***************************************************************************)
(* A stream buffer, batching buffer or message buffer of stream_buffer.c    *)
(* with its one writer and its one reader, each a task or an interrupt.  A  *)
(* task that has to wait registers in the buffer and waits for a            *)
(* notification, which the application may send it, too.                    *)
(*                                                                          *)
(* The buffer is a ring that both sides use at the same time: the writer    *)
(* owns xHead and the reader xTail.  Bytes are copied in one step and made   *)
(* known to the other side in another.                                      *)
(***************************************************************************)
EXTENDS FreeRTOSNotification, Sequences

CONSTANT Bytes      \* what a byte of the data may be

(* An application also has: the kind of buffer; length: xLength, one more   *)
(* than what fits; levels: the trigger levels; writer, reader: a task or    *)
(* "interrupt"; sends: the data it sends; sizes: of the reader's buffers;    *)
(* times: how long it waits.                                                *)
Kinds == {"stream", "batching", "message", "none"}

ASSUME StreamBufferAssumption ==
  /\ "interrupt" \notin Tasks
  /\ \A a \in Applications :
       /\ a.kind \in Kinds
       /\ a.length \in Nat \ {0, 1}
       /\ a.levels \subseteq 1..(a.length - 1) /\ a.levels # {}
       /\ a.writer \in Tasks \union {"interrupt"}
       /\ a.reader \in Tasks \union {"interrupt"}
       /\ a.writer # a.reader \/ a.writer = "interrupt"
       /\ a.sends \subseteq Seq(Bytes) \ {<<>>}
       /\ a.sizes \subseteq Nat \ {0}
       /\ a.times \subseteq Times

VARIABLES
  buffer, xHead, xTail,
  xTriggerLevelBytes,
  xTaskWaitingToSend, xTaskWaitingToReceive,
  pvTxData, xSpace, sendTicks,         \* of xStreamBufferSend
  xBytesToStoreMessageLength, xBytesAvailable, size, taken, receiveTicks,
                                       \* of xStreamBufferReceive
  pvRxData                             \* what the reader was given last

ringVars == <<buffer, xHead, xTail, xTriggerLevelBytes>>
waitingVars == <<xTaskWaitingToSend, xTaskWaitingToReceive>>
sendVars == <<pvTxData, xSpace, sendTicks>>
receiveVars == <<xBytesToStoreMessageLength, xBytesAvailable, size, taken,
                 receiveTicks>>
streamVars == <<ringVars, waitingVars, sendVars, receiveVars, pvRxData>>
vars == <<notificationVars, streamVars>>

-----------------------------------------------------------------------------
(* The ring.                                                                *)

xLength == application.length
IsMessageBuffer == application.kind = "message"

BytesFrom(tail, head) == (xLength + head - tail) % xLength
prvBytesInBuffer == BytesFrom(xTail, xHead)
xStreamBufferSpacesAvailable == (xLength + xTail - xHead - 1) % xLength

(* A message is stored behind its length.                                   *)
Header == IF IsMessageBuffer THEN 1 ELSE 0
Framed(data) == IF IsMessageBuffer THEN <<Len(data)>> \o data ELSE data

(* A message has to fit, a stream of bytes may be cut short.                *)
Smaller(m, n) == IF m < n THEN m ELSE n
RequiredSpace(data) ==
  IF IsMessageBuffer THEN Len(data) + Header ELSE Smaller(Len(data), xLength - 1)

prvWriteBytesToBuffer(data) ==
  [i \in 0..(xLength - 1) |->
     LET offset == (xLength + i - xHead) % xLength
     IN  IF offset < Len(data) THEN data[offset + 1] ELSE buffer[i]]

prvReadBytesFromBuffer(skip, n) ==
  [i \in 1..n |-> buffer[(xTail + skip + i - 1) % xLength]]

(* prvWriteMessageToBuffer: what is written of the data.                    *)
Written(data, space) ==
  IF IsMessageBuffer
  THEN IF space >= RequiredSpace(data) THEN data ELSE <<>>
  ELSE SubSeq(data, 1, Smaller(Len(data), space))

(* prvReadMessageFromBuffer: how many bytes the reader gets.  A message     *)
(* that is longer than the reader's buffer stays.                           *)
BytesRead(bytes, n) ==
  IF IsMessageBuffer
  THEN IF buffer[xTail] > n THEN 0 ELSE Smaller(buffer[xTail], bytes - Header)
  ELSE Smaller(n, bytes)

(* The least number of bytes there has to be more of for a task to receive. *)
Threshold ==
  CASE IsMessageBuffer                  -> Header
    [] application.kind = "batching"    -> xTriggerLevelBytes
    [] OTHER                            -> 0

-----------------------------------------------------------------------------
(* xStreamBufferSend by a task.                                             *)

NoAction == [action |-> "eNoAction", value |-> {}]
WaitFor(ticks) == [op |-> "wait", ticks |-> ticks, clearOnEntry |-> {}, clearOnExit |-> {}]

(* A message that can never fit is not waited for.                          *)
CallSend(t) ==
  /\ At(t, "application") /\ t = application.writer
  /\ \E data \in application.sends, ticks \in application.times :
       /\ pvTxData' = data
       /\ sendTicks' = IF IsMessageBuffer /\ RequiredSpace(data) > xLength - 1
                       THEN "none" ELSE ticks
       /\ Goto(t, IF sendTicks' = "none" THEN "write" ELSE "checkSpace")
  /\ xSpace' = 0
  /\ UNCHANGED <<application, notifyVars, kernelVars, request, back, ringVars,
                 waitingVars, receiveVars, pvRxData>>

CheckSpace(t) ==
  /\ At(t, "checkSpace")
  /\ xSpace' = xStreamBufferSpacesAvailable
  /\ IF xSpace' < RequiredSpace(pvTxData)
     THEN /\ ClearState(t)
          /\ xTaskWaitingToSend' = t
          /\ Goto(t, "sendWait")
     ELSE /\ UNCHANGED <<ucNotifyState, unseen, xTaskWaitingToSend>>
          /\ Goto(t, "write")
  /\ UNCHANGED <<application, ulNotifiedValue, kernelVars, request, back, ringVars,
                 xTaskWaitingToReceive, pvTxData, sendTicks, receiveVars, pvRxData>>

WaitToSend(t) ==
  /\ At(t, "sendWait")
  /\ BeginWait(t, WaitFor(sendTicks), "sendWoken")
  /\ UNCHANGED streamVars

(* xTaskCheckForTimeOut: it is over if the tick has woken the task, and it  *)
(* may be over if something else has.                                       *)
TimeIsOver(t) ==
  CASE request[t].ticks = "none"    -> {TRUE}
    [] request[t].ticks = "forever" -> {FALSE}
    [] OTHER                        -> BOOLEAN

Forget(t) ==
  /\ request' = [request EXCEPT ![t] = NoRequest]
  /\ back' = [back EXCEPT ![t] = "application"]

SendWoken(t) ==
  /\ At(t, "sendWoken")
  /\ xTaskWaitingToSend' = NULL
  /\ \E over \in TimeIsOver(t) : Goto(t, IF over THEN "write" ELSE "checkSpace")
  /\ Forget(t)
  /\ UNCHANGED <<application, notifyVars, kernelVars, ringVars,
                 xTaskWaitingToReceive, sendVars, receiveVars, pvRxData>>

(* The space is that of the last look, and looked at again only if it was   *)
(* none.  The bytes are copied behind xHead, where the reader does not look. *)
WriteMessage(t) ==
  /\ At(t, "write")
  /\ pvTxData' = Written(pvTxData, IF xSpace = 0 THEN xStreamBufferSpacesAvailable
                                   ELSE xSpace)
  /\ xSpace' = 0 /\ sendTicks' = "none"
  /\ IF pvTxData' = <<>>
     THEN UNCHANGED buffer /\ Goto(t, "application")
     ELSE buffer' = prvWriteBytesToBuffer(Framed(pvTxData')) /\ Goto(t, "publish")
  /\ UNCHANGED <<application, notifyVars, kernelVars, request, back, xHead, xTail,
                 xTriggerLevelBytes, waitingVars, receiveVars, pvRxData>>

HeadBeyond(data) == xHead + Len(Framed(data))                          \* mutant
HeadAfter(data) == (xHead + Len(Framed(data))) % xLength

PublishHead(t) ==
  /\ At(t, "publish")
  /\ xHead' = HeadAfter(pvTxData)
  /\ pvTxData' = <<>>
  /\ Goto(t, "sent")
  /\ UNCHANGED <<application, notifyVars, kernelVars, request, back, buffer, xTail,
                 xTriggerLevelBytes, waitingVars, xSpace, sendTicks, receiveVars,
                 pvRxData>>

MoreThanEnough(head) == BytesFrom(xTail, head) > xTriggerLevelBytes    \* mutant
EnoughBytes(head) == BytesFrom(xTail, head) >= xTriggerLevelBytes

Sent(t) ==
  /\ At(t, "sent")
  /\ Goto(t, IF EnoughBytes(xHead) THEN "sendCompleted" ELSE "application")
  /\ UNCHANGED <<application, notifyVars, kernelVars, request, back, streamVars>>

(* prvSEND_COMPLETED: with the scheduler suspended, a waiting reader is     *)
(* notified and is no longer registered.                                    *)
SendCompleted(t) ==
  /\ At(t, "sendCompleted")
  /\ IF xTaskWaitingToReceive # NULL
     THEN Notify(xTaskWaitingToReceive, NoAction) ELSE UNCHANGED <<notifyVars, kernelVars>>
  /\ xTaskWaitingToReceive' = NULL
  /\ Goto(t, "application")
  /\ UNCHANGED <<application, request, back, ringVars, xTaskWaitingToSend, sendVars,
                 receiveVars, pvRxData>>

-----------------------------------------------------------------------------
(* xStreamBufferReceive by a task, which waits at most once.                *)

CallReceive(t) ==
  /\ At(t, "application") /\ t = application.reader
  /\ size' \in application.sizes /\ receiveTicks' \in application.times
  /\ xBytesToStoreMessageLength' = Threshold
  /\ xBytesAvailable' = prvBytesInBuffer
  /\ IF receiveTicks' # "none" /\ prvBytesInBuffer <= Threshold
     THEN /\ ClearState(t)
          /\ xTaskWaitingToReceive' = t
          /\ Goto(t, "receiveWait")
     ELSE /\ UNCHANGED <<ucNotifyState, unseen, xTaskWaitingToReceive>>
          /\ Goto(t, "read")
  /\ UNCHANGED <<application, ulNotifiedValue, kernelVars, request, back, ringVars,
                 xTaskWaitingToSend, sendVars, taken, pvRxData>>

WaitToReceive(t) ==
  /\ At(t, "receiveWait")
  /\ BeginWait(t, WaitFor(receiveTicks), "receiveWoken")
  /\ UNCHANGED streamVars

ReceiveWoken(t) ==
  /\ At(t, "receiveWoken")
  /\ xTaskWaitingToReceive' = NULL
  /\ xBytesAvailable' = prvBytesInBuffer
  /\ Goto(t, "read")
  /\ Forget(t)
  /\ UNCHANGED <<application, notifyVars, kernelVars, ringVars,
                 xTaskWaitingToSend, sendVars, xBytesToStoreMessageLength, size,
                 taken, receiveTicks, pvRxData>>

(* The bytes are copied before xTail gives their place to the writer.       *)
ReadMessage(t) ==
  LET n == BytesRead(xBytesAvailable, size)
  IN  /\ At(t, "read")
      /\ IF xBytesAvailable > xBytesToStoreMessageLength /\ n # 0
         THEN taken' = prvReadBytesFromBuffer(Header, n) /\ Goto(t, "consume")
         ELSE UNCHANGED taken /\ Goto(t, "application")
      /\ xBytesToStoreMessageLength' = 0 /\ xBytesAvailable' = 0
      /\ size' = 0 /\ receiveTicks' = "none"
      /\ UNCHANGED <<application, notifyVars, kernelVars, request, back, ringVars,
                     waitingVars, sendVars, pvRxData>>

TailAfterData(data) == (xTail + Len(data)) % xLength                   \* mutant
TailAfter(data) == (xTail + Len(Framed(data))) % xLength

ConsumeTail(t) ==
  /\ At(t, "consume")
  /\ xTail' = TailAfter(taken)
  /\ pvRxData' = taken
  /\ taken' = <<>>
  /\ Goto(t, "receiveCompleted")
  /\ UNCHANGED <<application, notifyVars, kernelVars, request, back, buffer, xHead,
                 xTriggerLevelBytes, waitingVars, sendVars,
                 xBytesToStoreMessageLength, xBytesAvailable, size, receiveTicks>>

(* prvRECEIVE_COMPLETED.                                                    *)
ReceiveCompleted(t) ==
  /\ At(t, "receiveCompleted")
  /\ IF xTaskWaitingToSend # NULL
     THEN Notify(xTaskWaitingToSend, NoAction) ELSE UNCHANGED <<notifyVars, kernelVars>>
  /\ xTaskWaitingToSend' = NULL
  /\ Goto(t, "application")
  /\ UNCHANGED <<application, request, back, ringVars, xTaskWaitingToReceive,
                 sendVars, receiveVars, pvRxData>>

-----------------------------------------------------------------------------
(* The same from interrupts, which never wait, and the calls of others.     *)

xStreamBufferSendFromISR ==
  /\ application.kind # "none" /\ application.writer = "interrupt"
  /\ \E data \in application.sends :
       LET written == Written(data, xStreamBufferSpacesAvailable)
       IN  /\ written # <<>>
           /\ buffer' = prvWriteBytesToBuffer(Framed(written))
           /\ xHead' = HeadAfter(written)
  /\ IF xTaskWaitingToReceive # NULL /\ EnoughBytes(xHead')
     THEN /\ NotifyFromISR(xTaskWaitingToReceive, NoAction)
          /\ xTaskWaitingToReceive' = NULL
     ELSE UNCHANGED <<notifyVars, kernelVars, xTaskWaitingToReceive>>
  /\ UNCHANGED <<application, callVars, xTail, xTriggerLevelBytes,
                 xTaskWaitingToSend, sendVars, receiveVars, pvRxData>>

xStreamBufferReceiveFromISR ==
  /\ application.kind # "none" /\ application.reader = "interrupt"
  /\ prvBytesInBuffer > Header
  /\ \E n \in application.sizes :
       LET bytes == BytesRead(prvBytesInBuffer, n)
       IN  /\ bytes # 0
           /\ pvRxData' = prvReadBytesFromBuffer(Header, bytes)
           /\ xTail' = TailAfter(pvRxData')
  /\ IF xTaskWaitingToSend # NULL
     THEN NotifyFromISR(xTaskWaitingToSend, NoAction)
     ELSE UNCHANGED <<notifyVars, kernelVars>>
  /\ xTaskWaitingToSend' = NULL
  /\ UNCHANGED <<application, callVars, buffer, xHead, xTriggerLevelBytes,
                 xTaskWaitingToReceive, sendVars, receiveVars>>

(* A buffer is only reset while nobody is copying to or from it: that is    *)
(* left to the application.                                                 *)
NobodyIsCopying ==
  \A t \in Tasks : pc[t] \notin {"write", "publish", "sent", "read", "consume"}

xStreamBufferReset ==
  /\ suspender = NULL
  /\ application.kind # "none" /\ NobodyIsCopying
  /\ xTaskWaitingToReceive = NULL /\ xTaskWaitingToSend = NULL
  /\ xHead' = 0 /\ xTail' = 0
  /\ UNCHANGED <<notificationVars, buffer, xTriggerLevelBytes, waitingVars,
                 sendVars, receiveVars, pvRxData>>

(* The application changes the level only while the reader does not wait.   *)
xStreamBufferSetTriggerLevel ==
  /\ suspender = NULL
  /\ xTaskWaitingToReceive = NULL
  /\ xTriggerLevelBytes' \in application.levels
  /\ UNCHANGED <<notificationVars, buffer, xHead, xTail, waitingVars, sendVars,
                 receiveVars, pvRxData>>

-----------------------------------------------------------------------------
Init ==
  /\ NotificationInit
  /\ buffer = [i \in 0..(application.length - 1) |-> 0]
  /\ xHead = 0 /\ xTail = 0
  /\ xTriggerLevelBytes \in application.levels
  /\ xTaskWaitingToSend = NULL /\ xTaskWaitingToReceive = NULL
  /\ pvTxData = <<>> /\ xSpace = 0 /\ sendTicks = "none"
  /\ xBytesToStoreMessageLength = 0 /\ xBytesAvailable = 0 /\ size = 0
  /\ taken = <<>> /\ receiveTicks = "none"
  /\ pvRxData = <<>>

Send(t) ==
  \/ CallSend(t) \/ CheckSpace(t) \/ WaitToSend(t) \/ SendWoken(t)
  \/ WriteMessage(t) \/ PublishHead(t) \/ Sent(t) \/ SendCompleted(t)

Receive(t) ==
  \/ CallReceive(t) \/ WaitToReceive(t) \/ ReceiveWoken(t)
  \/ ReadMessage(t) \/ ConsumeTail(t) \/ ReceiveCompleted(t)

Next ==
  \/ NotificationNext /\ UNCHANGED streamVars
  \/ \E t \in Tasks : application.kind # "none" /\ (Send(t) \/ Receive(t))
  \/ xStreamBufferSendFromISR \/ xStreamBufferReceiveFromISR
  \/ xStreamBufferReset \/ xStreamBufferSetTriggerLevel

Spec == Init /\ [][Next]_vars

-----------------------------------------------------------------------------

TypeOK ==
  /\ NotificationTypeOK
  /\ xHead \in 0..(xLength - 1) /\ xTail \in 0..(xLength - 1)
  /\ DOMAIN buffer = 0..(xLength - 1)
  /\ xTriggerLevelBytes \in application.levels
  /\ xTaskWaitingToSend \in {NULL, application.writer}
  /\ xTaskWaitingToReceive \in {NULL, application.reader}
  /\ sendTicks \in Times /\ receiveTicks \in Times
  /\ xSpace \in 0..(xLength - 1) /\ xBytesAvailable \in 0..(xLength - 1)

(* Bytes and messages come out of the ring as they went in, whole and in    *)
(* order, while both sides copy at the same time.                           *)
Promise == INSTANCE ByteStream WITH
  Sendable <- UNION {{SubSeq(data, 1, n) : n \in 1..Len(data)} :
                       data \in UNION {a.sends : a \in Applications}},
  capacity <- xLength - 1,
  discrete <- IsMessageBuffer,
  content  <- prvReadBytesFromBuffer(0, prvBytesInBuffer),
  received <- pvRxData

ImplementsByteStream == Promise!Spec

(* Is somebody about to tell the reader, or the writer?                     *)
ReaderWillBeNotified ==
  \E t \in Tasks : pc[t] \in {"sent", "sendCompleted"}
WriterWillBeNotified ==
  \E t \in Tasks : pc[t] = "receiveCompleted"

(* Nobody is left registered for what is there: a reader only while there   *)
(* are too few bytes, a writer only while there is too little space, or     *)
(* while the other side, having changed that, has yet to tell.  So the two  *)
(* wait for each other only if the writer cannot reach the trigger level.   *)
WaitersAreTold ==
  /\ xTaskWaitingToReceive # NULL /\ ~ ReaderWillBeNotified =>
       \/ prvBytesInBuffer < xTriggerLevelBytes
       \/ prvBytesInBuffer <= xBytesToStoreMessageLength
  /\ xTaskWaitingToSend # NULL /\ ~ WriterWillBeNotified =>
       xStreamBufferSpacesAvailable < RequiredSpace(pvTxData)
=============================================================================

--------------------------- MODULE FreeRTOSQueue ---------------------------
(***************************************************************************)
(* A queue or semaphore of queue.c, used by tasks and by interrupts.        *)
(*                                                                          *)
(* Each critical section is a step.  Between two steps of a task any other  *)
(* ready task may run, unless the task has suspended the scheduler, and     *)
(* interrupts may in any case: which of the ready tasks the kernel selects  *)
(* does not matter here.  What the kernel does for the queue, blocking,     *)
(* waking, the tick, is reduced to who sleeps until when.                   *)
(***************************************************************************)
EXTENDS FreeRTOSList, FiniteSets

CONSTANTS
  Tasks,
  NULL,
  Messages,         \* what tasks and interrupts send
  Kinds,            \* the queues there can be
  MaxDelay,         \* portMAX_DELAY
  MaxLate,          \* how late at most a task runs whose timeout is over
  NumOverflows,     \* xNumOfOverflows counts modulo this
  EventValue        \* EventValue[t]: the value of t's xEventListItem

SendCalls == {"sendToBack", "sendToFront", "overwrite"}
ReceiveCalls == {"receive", "peek", "take"}
TaskCalls == SendCalls \union ReceiveCalls \union {"reset"}
IsrCalls == SendCalls \union {"give", "receive"}
Labels == {"application", "attempt", "lock", "checkState", "place", "unlockTx",
           "unlockRx", "timedOut"}

queueUNLOCKED == -1
queueLOCKED_UNMODIFIED == 0

(* A kind fixes what xQueueGenericCreate does, uxItemSize being 0 for a      *)
(* semaphore; the calls tasks and interrupts make; and the timeouts in use. *)
ASSUME ConstantsAssumption ==
  /\ IsFiniteSet(Tasks) /\ NULL \notin Tasks
  /\ NULL \notin Messages
  /\ NULL \notin [xOverflowCount : Nat, xTimeOnEntering : Nat]
  /\ MaxDelay \in Nat \ {0} /\ MaxLate \in Nat /\ NumOverflows \in Nat \ {0}
  /\ EventValue \in [Tasks -> Nat]
  /\ \A k \in Kinds :
       /\ DOMAIN k = {"uxLength", "uxItemSize", "calls", "isrCalls", "waits"}
       /\ k.uxLength \in Nat \ {0} /\ k.uxItemSize \in Nat
       /\ k.calls \subseteq TaskCalls /\ k.isrCalls \subseteq IsrCalls
       /\ k.waits \subseteq 0..MaxDelay
       /\ "take" \in k.calls \/ "give" \in k.isrCalls => k.uxItemSize = 0
       /\ "overwrite" \in k.calls \union k.isrCalls
            => k.uxLength = 1 /\ k.uxItemSize # 0

VARIABLES
  kind,                    \* decided at creation
  storage,                 \* what pcHead points to
  pcWriteTo, pcReadFrom,   \* as indices of storage
  uxMessagesWaiting,
  xTasksWaitingToSend, xTasksWaitingToReceive,
  cTxLock, cRxLock,
  buffer,                  \* what was copied to a receiver's pvBuffer last
  pc,                      \* where a task is in its call
  call, item,              \* its call and what it sends
  xTicksToWait, xTimeOut,  \* variables of that name of the call
  suspended,               \* the task that has suspended the scheduler
  asleep,                  \* the tasks that are not ready
  wakeTime,                \* until when, NULL for ever
  xTickCount, xNumOfOverflows,
  remaining                \* ticks until the call's timeout is over

ring == <<storage, pcWriteTo, pcReadFrom>>
locks == <<cTxLock, cRxLock>>
callVars == <<call, item, xTicksToWait, xTimeOut, remaining>>
waiting == <<xTasksWaitingToSend, xTasksWaitingToReceive, asleep, wakeTime>>
ticks == <<xTickCount, xNumOfOverflows>>
vars == <<kind, ring, uxMessagesWaiting, locks, buffer, pc, callVars, suspended,
          waiting, ticks>>

-----------------------------------------------------------------------------
(* The storage.                                                             *)

uxLength == kind.uxLength
uxItemSize == kind.uxItemSize

HasSpace == uxMessagesWaiting < uxLength
IsEmpty == uxMessagesWaiting = 0

Up(p) == IF p + 1 >= uxLength THEN 0 ELSE p + 1
Down(p) == IF p - 1 < 0 THEN uxLength - 1 ELSE p - 1

(* prvCopyDataToQueue.                                                      *)
prvCopyDataToQueue(x, position) ==
  /\ IF uxItemSize = 0 THEN UNCHANGED ring
     ELSE IF position = "sendToBack"
     THEN /\ storage' = [storage EXCEPT ![pcWriteTo] = x]
          /\ pcWriteTo' = Up(pcWriteTo)
          /\ UNCHANGED pcReadFrom
     ELSE /\ storage' = [storage EXCEPT ![pcReadFrom] = x]
          /\ pcReadFrom' = Down(pcReadFrom)
          /\ UNCHANGED pcWriteTo
  /\ uxMessagesWaiting' =
       IF uxItemSize # 0 /\ position = "overwrite" /\ ~ IsEmpty
       THEN uxMessagesWaiting ELSE uxMessagesWaiting + 1

(* prvCopyDataFromQueue: a semaphore gives nothing.                         *)
prvCopyDataFromQueue ==
  IF uxItemSize = 0 THEN UNCHANGED <<ring, buffer>>
  ELSE /\ pcReadFrom' = Up(pcReadFrom)
       /\ buffer' = storage[Up(pcReadFrom)]
       /\ UNCHANGED <<storage, pcWriteTo>>

-----------------------------------------------------------------------------
(* What the kernel does.                                                    *)

(* The tick is in the loop that wakes the tasks whose time has come.        *)
Due == {t \in asleep : wakeTime[t] = xTickCount}

NoTick == Due = {}

(* The task executes: it is ready, or has just put itself to sleep and not  *)
(* resumed the scheduler yet.                                               *)
Runs(t) ==
  /\ NoTick
  /\ IF suspended = NULL THEN t \notin asleep ELSE t = suspended

(* xTaskRemoveFromEventList for the first n tasks of a list.                *)
FirstOf(list, n) == {list[i] : i \in 1..(IF n < Len(list) THEN n ELSE Len(list))}

Rest(list, n) == IF n < Len(list) THEN SubSeq(list, n + 1, Len(list)) ELSE <<>>

Awake(tasks) ==
  /\ asleep' = asleep \ tasks
  /\ wakeTime' = [t \in Tasks |-> IF t \in tasks THEN NULL ELSE wakeTime[t]]

WakeReceivers(n) ==
  /\ xTasksWaitingToReceive' = Rest(xTasksWaitingToReceive, n)
  /\ Awake(FirstOf(xTasksWaitingToReceive, n))
  /\ UNCHANGED xTasksWaitingToSend

WakeSenders(n) ==
  /\ xTasksWaitingToSend' = Rest(xTasksWaitingToSend, n)
  /\ Awake(FirstOf(xTasksWaitingToSend, n))
  /\ UNCHANGED xTasksWaitingToReceive

Return(t) ==
  /\ pc' = [pc EXCEPT ![t] = "application"]
  /\ call' = [call EXCEPT ![t] = NULL]
  /\ item' = [item EXCEPT ![t] = NULL]
  /\ xTicksToWait' = [xTicksToWait EXCEPT ![t] = 0]
  /\ xTimeOut' = [xTimeOut EXCEPT ![t] = NULL]
  /\ remaining' = [remaining EXCEPT ![t] = 0]

GoTo(t, label) ==
  /\ pc' = [pc EXCEPT ![t] = label]
  /\ UNCHANGED callVars

Now == [xOverflowCount |-> xNumOfOverflows, xTimeOnEntering |-> xTickCount]

(* Mutant: the tick count has wrapped, so it takes the time to be over.     *)
OverIfWrapped(t) ==
  xTicksToWait[t] # MaxDelay /\ xNumOfOverflows # xTimeOut[t].xOverflowCount

(* xTaskCheckForTimeOut: the time is over.                                  *)
TimeIsOver(t) ==
  LET entered == xTimeOut[t]
      elapsed == (xTickCount - entered.xTimeOnEntering) % (MaxDelay + 1)
  IN /\ xTicksToWait[t] # MaxDelay
     /\ \/ /\ xNumOfOverflows # entered.xOverflowCount
           /\ xTickCount >= entered.xTimeOnEntering
        \/ elapsed >= xTicksToWait[t]

(* Mutant: what is left is not adjusted.                                    *)
RestartTime(t) ==
  /\ xTicksToWait' = [xTicksToWait EXCEPT ![t] = IF TimeIsOver(t) THEN 0 ELSE @]
  /\ xTimeOut' = [xTimeOut EXCEPT ![t] = Now]

xTaskCheckForTimeOut(t) ==
  IF TimeIsOver(t)
  THEN /\ xTicksToWait' = [xTicksToWait EXCEPT ![t] = 0]
       /\ UNCHANGED xTimeOut
  ELSE IF xTicksToWait[t] = MaxDelay THEN UNCHANGED <<xTicksToWait, xTimeOut>>
  ELSE /\ xTicksToWait' =
            [xTicksToWait EXCEPT
               ![t] = @ - ((xTickCount - xTimeOut[t].xTimeOnEntering)
                             % (MaxDelay + 1))]
       /\ xTimeOut' = [xTimeOut EXCEPT ![t] = Now]

(* The time of the call runs.                                               *)
Timed(t) == xTimeOut[t] # NULL /\ xTicksToWait[t] # MaxDelay

-----------------------------------------------------------------------------
(* Calls of tasks.                                                          *)

(* A task begins a call that may block.                                     *)
Call(t) ==
  /\ Runs(t) /\ suspended = NULL /\ pc[t] = "application"
  /\ pc' = [pc EXCEPT ![t] = "attempt"]
  /\ \E c \in kind.calls \ {"reset"} :
       /\ call' = [call EXCEPT ![t] = c]
       /\ \E x \in IF c \in SendCalls /\ uxItemSize # 0 THEN Messages ELSE {NULL} :
            item' = [item EXCEPT ![t] = x]
  /\ \E w \in kind.waits :
       /\ xTicksToWait' = [xTicksToWait EXCEPT ![t] = w]
       /\ remaining' = [remaining EXCEPT ![t] = w]
  /\ UNCHANGED <<kind, ring, uxMessagesWaiting, locks, buffer, xTimeOut, suspended,
                 waiting, ticks>>

Attempts(t, calls) ==
  /\ Runs(t) /\ pc[t] = "attempt" /\ call[t] \in calls
  /\ UNCHANGED <<kind, locks, suspended, ticks>>

(* The queue is full or empty: return, or get ready to wait.                *)
GiveUpOrWait(t) ==
  /\ IF xTicksToWait[t] = 0 THEN Return(t)
     ELSE /\ pc' = [pc EXCEPT ![t] = "lock"]
          /\ xTimeOut' = [xTimeOut EXCEPT ![t] = IF @ = NULL THEN Now ELSE @]
          /\ UNCHANGED <<call, item, xTicksToWait, remaining>>
  /\ UNCHANGED <<ring, uxMessagesWaiting, buffer, waiting>>

xQueueGenericSend(t) ==
  /\ Attempts(t, SendCalls)
  /\ IF HasSpace \/ call[t] = "overwrite"
     THEN /\ prvCopyDataToQueue(item[t], call[t])
          /\ WakeReceivers(1)
          /\ Return(t)
          /\ UNCHANGED buffer
     ELSE GiveUpOrWait(t)

xQueueReceive(t) ==
  /\ Attempts(t, {"receive"})
  /\ IF ~ IsEmpty
     THEN /\ prvCopyDataFromQueue
          /\ uxMessagesWaiting' = uxMessagesWaiting - 1
          /\ WakeSenders(1)
          /\ Return(t)
     ELSE GiveUpOrWait(t)

xQueueSemaphoreTake(t) ==
  /\ Attempts(t, {"take"})
  /\ IF ~ IsEmpty
     THEN /\ uxMessagesWaiting' = uxMessagesWaiting - 1
          /\ WakeSenders(1)
          /\ Return(t)
          /\ UNCHANGED <<ring, buffer>>
     ELSE GiveUpOrWait(t)

(* Mutant: the read position stays behind the message.                      *)
PeekAndAdvance(t) ==
  /\ Attempts(t, {"peek"})
  /\ IF ~ IsEmpty
     THEN /\ prvCopyDataFromQueue
          /\ WakeReceivers(1)
          /\ Return(t)
          /\ UNCHANGED uxMessagesWaiting
     ELSE GiveUpOrWait(t)

(* The read position is put back; the next receiver may want the item too.  *)
xQueuePeek(t) ==
  /\ Attempts(t, {"peek"})
  /\ IF ~ IsEmpty
     THEN /\ IF uxItemSize = 0 THEN UNCHANGED buffer
             ELSE buffer' = storage[Up(pcReadFrom)]
          /\ WakeReceivers(1)
          /\ Return(t)
          /\ UNCHANGED <<ring, uxMessagesWaiting>>
     ELSE GiveUpOrWait(t)

(* vTaskSuspendAll, prvLockQueue and xTaskCheckForTimeOut: from here on no  *)
(* task can run and no tick counts until xTaskResumeAll, and interrupts do  *)
(* not touch what xTaskCheckForTimeOut reads.                               *)
prvLockQueue(t) ==
  /\ Runs(t) /\ pc[t] = "lock"
  /\ suspended' = t
  /\ cTxLock' = IF cTxLock = queueUNLOCKED THEN queueLOCKED_UNMODIFIED ELSE cTxLock
  /\ cRxLock' = IF cRxLock = queueUNLOCKED THEN queueLOCKED_UNMODIFIED ELSE cRxLock
  /\ pc' = [pc EXCEPT ![t] = IF TimeIsOver(t) THEN "unlockTx" ELSE "checkState"]
  /\ xTaskCheckForTimeOut(t)
  /\ UNCHANGED <<kind, ring, uxMessagesWaiting, buffer, call, item, remaining,
                 waiting, ticks>>

(* prvIsQueueFull, prvIsQueueEmpty.                                         *)
CheckState(t) ==
  /\ Runs(t) /\ pc[t] = "checkState"
  /\ GoTo(t, IF (IF call[t] \in SendCalls THEN ~ HasSpace ELSE IsEmpty)
             THEN "place" ELSE "unlockTx")
  /\ UNCHANGED <<kind, ring, uxMessagesWaiting, locks, buffer, suspended, waiting, ticks>>

vTaskPlaceOnEventList(t) ==
  /\ Runs(t) /\ pc[t] = "place"
  /\ IF call[t] \in SendCalls
     THEN /\ xTasksWaitingToSend' = vListInsert(xTasksWaitingToSend, EventValue, t)
          /\ UNCHANGED xTasksWaitingToReceive
     ELSE /\ xTasksWaitingToReceive' =
               vListInsert(xTasksWaitingToReceive, EventValue, t)
          /\ UNCHANGED xTasksWaitingToSend
  /\ asleep' = asleep \union {t}
  /\ wakeTime' = [wakeTime EXCEPT
                    ![t] = IF xTicksToWait[t] = MaxDelay THEN NULL
                           ELSE (xTickCount + xTicksToWait[t]) % (MaxDelay + 1)]
  /\ GoTo(t, "unlockTx")
  /\ UNCHANGED <<kind, ring, uxMessagesWaiting, locks, buffer, suspended, ticks>>

(* The first critical section of prvUnlockQueue.                            *)
UnlockTx(t) ==
  /\ Runs(t) /\ pc[t] = "unlockTx"
  /\ WakeReceivers(cTxLock)
  /\ cTxLock' = queueUNLOCKED
  /\ GoTo(t, "unlockRx")
  /\ UNCHANGED <<kind, ring, uxMessagesWaiting, cRxLock, buffer, suspended, ticks>>

(* Mutant: what interrupts received while the queue was locked is forgotten. *)
UnlockRxAndForget(t) ==
  /\ Runs(t) /\ pc[t] = "unlockRx"
  /\ cRxLock' = queueUNLOCKED
  /\ suspended' = NULL
  /\ IF xTicksToWait[t] # 0 THEN GoTo(t, "attempt")
     ELSE IF call[t] \in SendCalls THEN Return(t) ELSE GoTo(t, "timedOut")
  /\ UNCHANGED <<kind, ring, uxMessagesWaiting, cTxLock, buffer, waiting, ticks>>

(* The second one, and xTaskResumeAll.  A sender whose time is over returns. *)
UnlockRx(t) ==
  /\ Runs(t) /\ pc[t] = "unlockRx"
  /\ WakeSenders(cRxLock)
  /\ cRxLock' = queueUNLOCKED
  /\ suspended' = NULL
  /\ IF xTicksToWait[t] # 0 THEN GoTo(t, "attempt")
     ELSE IF call[t] \in SendCalls THEN Return(t) ELSE GoTo(t, "timedOut")
  /\ UNCHANGED <<kind, ring, uxMessagesWaiting, cTxLock, buffer, ticks>>

(* A receiver whose time is over looks again.                               *)
TimedOut(t) ==
  /\ Runs(t) /\ pc[t] = "timedOut"
  /\ IF IsEmpty THEN Return(t) ELSE GoTo(t, "attempt")
  /\ UNCHANGED <<kind, ring, uxMessagesWaiting, locks, buffer, suspended, waiting, ticks>>

(* xQueueGenericReset: one sender is woken.                                 *)
xQueueGenericReset(t) ==
  /\ Runs(t) /\ suspended = NULL /\ pc[t] = "application" /\ "reset" \in kind.calls
  /\ uxMessagesWaiting' = 0
  /\ pcWriteTo' = 0 /\ pcReadFrom' = uxLength - 1
  /\ cTxLock' = queueUNLOCKED /\ cRxLock' = queueUNLOCKED
  /\ WakeSenders(1)
  /\ UNCHANGED <<kind, storage, buffer, pc, callVars, suspended, ticks>>

-----------------------------------------------------------------------------
(* Interrupts.                                                              *)

(* prvIncrementQueueTxLock, prvIncrementQueueRxLock: the idle task counts   *)
(* among uxNumberOfTasks.                                                   *)
Increment(lock) == IF lock < Cardinality(Tasks) + 1 THEN lock + 1 ELSE lock

WakeReceiverOrCount ==
  IF cTxLock = queueUNLOCKED THEN WakeReceivers(1) /\ UNCHANGED locks
  ELSE cTxLock' = Increment(cTxLock) /\ UNCHANGED <<cRxLock, waiting>>

WakeSenderOrCount ==
  IF cRxLock = queueUNLOCKED THEN WakeSenders(1) /\ UNCHANGED locks
  ELSE cRxLock' = Increment(cRxLock) /\ UNCHANGED <<cTxLock, waiting>>

xQueueGenericSendFromISR ==
  /\ NoTick
  /\ \E position \in kind.isrCalls \intersect SendCalls, x \in Messages :
       /\ HasSpace \/ position = "overwrite"
       /\ prvCopyDataToQueue(x, position)
  /\ WakeReceiverOrCount
  /\ UNCHANGED <<kind, buffer, pc, callVars, suspended, ticks>>

xQueueGiveFromISR ==
  /\ NoTick /\ "give" \in kind.isrCalls
  /\ HasSpace
  /\ uxMessagesWaiting' = uxMessagesWaiting + 1
  /\ WakeReceiverOrCount
  /\ UNCHANGED <<kind, ring, buffer, pc, callVars, suspended, ticks>>

xQueueReceiveFromISR ==
  /\ NoTick /\ "receive" \in kind.isrCalls
  /\ ~ IsEmpty
  /\ prvCopyDataFromQueue
  /\ uxMessagesWaiting' = uxMessagesWaiting - 1
  /\ WakeSenderOrCount
  /\ UNCHANGED <<kind, pc, callVars, suspended, ticks>>

(* xTaskIncrementTick; while the scheduler is suspended ticks are pended.   *)
(* Nobody notices ticks while no call is timed.                             *)
Tick ==
  /\ NoTick /\ suspended = NULL
  /\ \E t \in Tasks : Timed(t)
  /\ \A t \in Tasks : Timed(t) => remaining[t] > - MaxLate
  /\ xTickCount' = (xTickCount + 1) % (MaxDelay + 1)
  /\ xNumOfOverflows' = IF xTickCount' = 0
                        THEN (xNumOfOverflows + 1) % NumOverflows ELSE xNumOfOverflows
  /\ remaining' = [t \in Tasks |-> IF Timed(t) THEN remaining[t] - 1
                                   ELSE remaining[t]]
  /\ UNCHANGED <<kind, ring, uxMessagesWaiting, locks, buffer, pc, call, item,
                 xTicksToWait, xTimeOut, suspended, waiting>>

(* One iteration of its loop.                                               *)
WakeDue(t) ==
  /\ t \in Due
  /\ xTasksWaitingToSend' = uxListRemove(xTasksWaitingToSend, t)
  /\ xTasksWaitingToReceive' = uxListRemove(xTasksWaitingToReceive, t)
  /\ Awake({t})
  /\ UNCHANGED <<kind, ring, uxMessagesWaiting, locks, buffer, pc, callVars, suspended,
                 ticks>>

-----------------------------------------------------------------------------
Init ==
  /\ kind \in Kinds
  /\ storage = [i \in 0..(uxLength - 1) |-> NULL]
  /\ pcWriteTo = 0 /\ pcReadFrom = uxLength - 1
  /\ uxMessagesWaiting \in IF uxItemSize = 0 THEN 0..uxLength ELSE {0}
  /\ xTasksWaitingToSend = <<>> /\ xTasksWaitingToReceive = <<>>
  /\ cTxLock = queueUNLOCKED /\ cRxLock = queueUNLOCKED
  /\ buffer = NULL
  /\ pc = [t \in Tasks |-> "application"]
  /\ call = [t \in Tasks |-> NULL] /\ item = [t \in Tasks |-> NULL]
  /\ xTicksToWait = [t \in Tasks |-> 0] /\ xTimeOut = [t \in Tasks |-> NULL]
  /\ suspended = NULL
  /\ asleep = {} /\ wakeTime = [t \in Tasks |-> NULL]
  /\ xTickCount = 0 /\ xNumOfOverflows = 0
  /\ remaining = [t \in Tasks |-> 0]

(* A step of a call already begun.                                          *)
Continue(t) ==
  \/ xQueueGenericSend(t)
  \/ xQueueReceive(t)
  \/ xQueueSemaphoreTake(t)
  \/ xQueuePeek(t)
  \/ prvLockQueue(t)
  \/ CheckState(t)
  \/ vTaskPlaceOnEventList(t)
  \/ UnlockTx(t)
  \/ UnlockRx(t)
  \/ TimedOut(t)

Next ==
  \/ \E t \in Tasks : Call(t) \/ Continue(t) \/ xQueueGenericReset(t) \/ WakeDue(t)
  \/ xQueueGenericSendFromISR
  \/ xQueueGiveFromISR
  \/ xQueueReceiveFromISR
  \/ Tick

Spec == Init /\ [][Next]_vars

-----------------------------------------------------------------------------
(* Properties.                                                              *)

TimeOuts == [xOverflowCount : 0..(NumOverflows - 1), xTimeOnEntering : 0..MaxDelay]

(* Every variable has its type; the lock counts stay below the number of    *)
(* tasks, with the idle task, and so within int8_t.                         *)
TypeOK ==
  /\ kind \in Kinds
  /\ storage \in [0..(uxLength - 1) -> Messages \union {NULL}]
  /\ pcWriteTo \in 0..(uxLength - 1) /\ pcReadFrom \in 0..(uxLength - 1)
  /\ uxMessagesWaiting \in 0..uxLength
  /\ xTasksWaitingToSend \in Seq(Tasks) /\ xTasksWaitingToReceive \in Seq(Tasks)
  /\ cTxLock \in queueUNLOCKED..(Cardinality(Tasks) + 1)
  /\ cRxLock \in queueUNLOCKED..(Cardinality(Tasks) + 1)
  /\ buffer \in Messages \union {NULL}
  /\ pc \in [Tasks -> Labels]
  /\ call \in [Tasks -> SendCalls \union ReceiveCalls \union {NULL}]
  /\ item \in [Tasks -> Messages \union {NULL}]
  /\ xTicksToWait \in [Tasks -> 0..MaxDelay]
  /\ xTimeOut \in [Tasks -> TimeOuts \union {NULL}]
  /\ suspended \in Tasks \union {NULL}
  /\ asleep \in SUBSET Tasks
  /\ wakeTime \in [Tasks -> 0..MaxDelay \union {NULL}]
  /\ xTickCount \in 0..MaxDelay /\ xNumOfOverflows \in 0..(NumOverflows - 1)
  /\ remaining \in [Tasks -> (- MaxLate)..MaxDelay]

(* The i-th message from the read position.                                 *)
Slot(i) ==
  IF pcReadFrom + i < uxLength THEN pcReadFrom + i ELSE pcReadFrom + i - uxLength

Content ==
  [i \in 1..uxMessagesWaiting |-> IF uxItemSize = 0 THEN NULL ELSE storage[Slot(i)]]

Abstract == INSTANCE BoundedQueue WITH
  Elements <- Messages \union {NULL}, Nothing <- NULL,
  length <- uxLength, content <- Content, received <- buffer

(* The ring with its two positions is a bounded queue: no message is lost,  *)
(* doubled or reordered, and none is received that was not sent, whoever    *)
(* sends and receives at either end between the steps of others.            *)
ImplementsQueue == Abstract!Spec

(* The tasks woken since they went to sleep that have not looked again; the *)
(* task that holds the lock may be woken before it has ever slept.          *)
Woken(calls) ==
  {t \in Tasks : /\ call[t] \in calls
                 /\ \/ pc[t] = "attempt"
                    \/ pc[t] = "unlockRx" /\ xTicksToWait[t] # 0
                 /\ xTimeOut[t] # NULL /\ t \notin asleep}

(* No wake-up is lost: while a task waits to receive, every message has a   *)
(* woken receiver to come for it, whatever interrupts sent while the queue  *)
(* was locked.  The same for senders and free places, unless the queue has  *)
(* more than one place and is reset: xQueueGenericReset frees all and wakes *)
(* one sender.                                                              *)
WaitersAreWoken ==
  /\ cTxLock = queueUNLOCKED /\ xTasksWaitingToReceive # <<>>
       => uxMessagesWaiting <= Cardinality(Woken(ReceiveCalls))
  /\ (uxLength = 1 \/ "reset" \notin kind.calls)
       /\ cRxLock = queueUNLOCKED /\ xTasksWaitingToSend # <<>>
       => uxLength - uxMessagesWaiting <= Cardinality(Woken(SendCalls))

(* A call times out only when all its time has passed since it found the    *)
(* queue full or empty.                                                     *)
TimeoutIsGenuine ==
  \A t \in Tasks : Timed(t) /\ xTicksToWait[t] = 0 => remaining[t] <= 0

(* However often a task was woken and found nothing, it sleeps for what is  *)
(* left of its time and no longer.                                          *)
SleepsForTheRest ==
  \A t \in asleep : wakeTime[t] # NULL
    => remaining[t] = (wakeTime[t] - xTickCount) % (MaxDelay + 1)
=============================================================================

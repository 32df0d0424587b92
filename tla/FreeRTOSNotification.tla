------------------------ MODULE FreeRTOSNotification ------------------------
(***************************************************************************)
(* Direct-to-task notifications of tasks.c: a state and a value in each     *)
(* task's TCB (configTASK_NOTIFICATION_ARRAY_ENTRIES is 1), which the task  *)
(* waits for and which tasks and interrupts change.                         *)
(*                                                                          *)
(* Of the kernel there is what the calls here use: which tasks are ready,   *)
(* blocked or suspended, who has suspended the scheduler, and the tasks an   *)
(* interrupt readied meanwhile.  Any ready task may run next.  A critical   *)
(* section is a step, and what an interrupt does is one.                    *)
(***************************************************************************)
EXTENDS Integers, FiniteSets

CONSTANTS
  Tasks, NULL,
  ValueBits,      \* the width of ulNotifiedValue
  Applications    \* how the tasks and interrupts use notifications

Times == {"none", "some", "forever"}

(* A value is the set of the positions of its ones, so that 0 is {}.        *)
Bits == 0..(ValueBits - 1)
Values == SUBSET Bits

Requests == [op : {"wait", "take", "takeAll"}, ticks : Times,
             clearOnEntry : Values, clearOnExit : Values]
Actions == {"eNoAction", "eSetBits", "eIncrement", "eSetValueWithOverwrite",
            "eSetValueWithoutOverwrite"}

(* waits: what tasks wait for; notifies: what tasks and interrupts notify   *)
(* them with; clears, suspends: whether tasks clear notifications and       *)
(* suspend each other.                                                      *)
ASSUME NotificationAssumption ==
  /\ NULL \notin Tasks
  /\ ValueBits \in Nat \ {0}
  /\ \A a \in Applications :
       /\ a.waits \subseteq Requests
       /\ a.notifies \subseteq [action : Actions, value : Values]
       /\ a.clears \in BOOLEAN /\ a.suspends \in BOOLEAN

VARIABLES
  application,
  ucNotifyState,       \* taskNOT_WAITING_, taskWAITING_, taskNOTIFICATION_RECEIVED
  ulNotifiedValue,
  unseen,              \* a task was notified and has not been told yet (in no
                       \* variable of the code)
  taskState,           \* "forever": blocked in xSuspendedTaskList
  xPendingReadyList,   \* readied by an interrupt, the scheduler being suspended
  suspender,           \* the task that has suspended the scheduler, or NULL
  pc, request, back    \* per task: where it is in a call, with what, and where
                       \* the call was made from

notifyVars == <<ucNotifyState, ulNotifiedValue, unseen>>
kernelVars == <<taskState, xPendingReadyList, suspender>>
callVars == <<pc, request, back>>
notificationVars == <<application, notifyVars, kernelVars, callVars>>

NoRequest == [op |-> "wait", ticks |-> "none", clearOnEntry |-> {}, clearOnExit |-> {}]

Running(t) == taskState[t] = "ready" /\ suspender \in {NULL, t}
At(t, label) == Running(t) /\ pc[t] = label
Goto(t, label) == pc' = [pc EXCEPT ![t] = label]
Blocked(t) == taskState[t] \in {"delayed", "forever"}

ClearBits(value, bits) == value \ bits

(* One more, modulo 2^ValueBits, and one less: a bit changes if all those   *)
(* below it are ones, or if none is.                                        *)
Increment(value) == {k \in Bits : (k \in value) # (\A j \in 0..(k - 1) : j \in value)}
Decrement(value) == {k \in Bits : (k \in value) # (\A j \in 0..(k - 1) : j \notin value)}

-----------------------------------------------------------------------------
(* Waiting: xTaskGenericNotifyWait and ulTaskGenericNotifyTake.             *)

(* Is there nothing yet of what the task waits for?                         *)
NothingYet(t, r) ==
  IF r.op = "wait" THEN ucNotifyState[t] # "received" ELSE ulNotifiedValue[t] = {}

(* The first look, without a critical section, and vTaskSuspendAll.         *)
BeginWait(t, r, label) ==
  /\ request' = [request EXCEPT ![t] = r]
  /\ back' = [back EXCEPT ![t] = label]
  /\ IF NothingYet(t, r) /\ r.ticks # "none"
     THEN suspender' = t /\ Goto(t, "mark")
     ELSE UNCHANGED suspender /\ Goto(t, "finish")
  /\ UNCHANGED <<application, notifyVars, taskState, xPendingReadyList>>

CallWait(t) ==
  /\ At(t, "application")
  /\ \E r \in application.waits : BeginWait(t, r, "application")

(* Mutant: it is not looked at again.                                       *)
MarkAnyway(t) ==
  /\ At(t, "mark")
  /\ ucNotifyState' = [ucNotifyState EXCEPT ![t] = "waiting"]
  /\ ulNotifiedValue' =
       [ulNotifiedValue EXCEPT ![t] = ClearBits(@, request[t].clearOnEntry)]
  /\ Goto(t, "place")
  /\ UNCHANGED <<application, unseen, kernelVars, request, back>>

(* The critical section: only now it is decided whether to block.           *)
MarkWaiting(t) ==
  /\ At(t, "mark")
  /\ IF NothingYet(t, request[t])
     THEN /\ ucNotifyState' = [ucNotifyState EXCEPT ![t] = "waiting"]
          /\ ulNotifiedValue' =
               [ulNotifiedValue EXCEPT ![t] = ClearBits(@, request[t].clearOnEntry)]
          /\ Goto(t, "place")
     ELSE UNCHANGED <<ucNotifyState, ulNotifiedValue>> /\ Goto(t, "resumeAll")
  /\ UNCHANGED <<application, unseen, kernelVars, request, back>>

(* prvAddCurrentTaskToDelayedList, with interrupts enabled.                 *)
AddToDelayedList(t) ==
  /\ At(t, "place")
  /\ taskState' = [taskState EXCEPT ![t] =
                     IF request[t].ticks = "forever" THEN "forever" ELSE "delayed"]
  /\ Goto(t, "resumeAll")
  /\ UNCHANGED <<application, notifyVars, xPendingReadyList, suspender, request, back>>

(* xTaskResumeAll readies the tasks that interrupts readied meanwhile.      *)
ResumeAll(t) ==
  /\ suspender = t /\ pc[t] = "resumeAll"
  /\ suspender' = NULL
  /\ taskState' = [u \in Tasks |->
                     IF u \in xPendingReadyList THEN "ready" ELSE taskState[u]]
  /\ xPendingReadyList' = {}
  /\ Goto(t, "finish")
  /\ UNCHANGED <<application, notifyVars, request, back>>

(* The last critical section: what the task is told.                        *)
ValueTaken(t) ==
  LET r == request[t]
      value == ulNotifiedValue[t]
  IN  CASE r.op = "take"    -> IF value # {} THEN Decrement(value) ELSE {}
        [] r.op = "takeAll" -> {}
        [] OTHER            -> IF ucNotifyState[t] = "received"
                               THEN ClearBits(value, r.clearOnExit) ELSE value

FinishWait(t) ==
  /\ At(t, "finish")
  /\ ulNotifiedValue' = [ulNotifiedValue EXCEPT ![t] = ValueTaken(t)]
  /\ ucNotifyState' = [ucNotifyState EXCEPT ![t] = "not waiting"]
  /\ unseen' = [unseen EXCEPT ![t] = FALSE]
  /\ Goto(t, back[t])
  /\ UNCHANGED <<application, kernelVars, request, back>>

(* The tick readies a task whose time is over; a tick that comes while the  *)
(* scheduler is suspended is made up for afterwards.                        *)
TimeOut(t) ==
  /\ suspender = NULL /\ taskState[t] = "delayed"
  /\ taskState' = [taskState EXCEPT ![t] = "ready"]
  /\ request' = [request EXCEPT ![t].ticks = "none"]
  /\ UNCHANGED <<application, notifyVars, xPendingReadyList, suspender, pc, back>>

-----------------------------------------------------------------------------
(* Notifying: xTaskGenericNotify, xTaskGenericNotifyFromISR and, with       *)
(* eIncrement, vTaskGenericNotifyGiveFromISR.                               *)

NewValue(t, a) ==
  LET value == ulNotifiedValue[t]
  IN  CASE a.action = "eSetBits"   -> value \union a.value
        [] a.action = "eIncrement" -> Increment(value)
        [] \/ a.action = "eSetValueWithOverwrite"
           \/ /\ a.action = "eSetValueWithoutOverwrite"
              /\ ucNotifyState[t] # "received"
                                   -> a.value
        [] OTHER                   -> value

SetNotified(t, a) ==
  /\ ulNotifiedValue' = [ulNotifiedValue EXCEPT ![t] = NewValue(t, a)]
  /\ ucNotifyState' = [ucNotifyState EXCEPT ![t] = "received"]
  /\ unseen' = [unseen EXCEPT ![t] = TRUE]

(* A task takes the waiting task from its list at once, an interrupt only   *)
(* if the scheduler is not suspended.                                       *)
Notify(t, a) ==
  /\ SetNotified(t, a)
  /\ taskState' = IF ucNotifyState[t] = "waiting"
                  THEN [taskState EXCEPT ![t] = "ready"] ELSE taskState
  /\ UNCHANGED <<xPendingReadyList, suspender>>

NotifyFromISR(t, a) ==
  IF suspender = NULL THEN Notify(t, a)
  ELSE /\ SetNotified(t, a)
       /\ xPendingReadyList' = IF ucNotifyState[t] = "waiting"
                               THEN xPendingReadyList \union {t}
                               ELSE xPendingReadyList
       /\ UNCHANGED <<taskState, suspender>>

CallNotify(u, t) ==
  /\ At(u, "application")
  /\ \E a \in application.notifies : Notify(t, a)
  /\ UNCHANGED <<application, callVars>>

InterruptNotifies(t) ==
  /\ \E a \in application.notifies : NotifyFromISR(t, a)
  /\ UNCHANGED <<application, callVars>>

ClearedState(t) == IF ucNotifyState[t] = "received" THEN "not waiting" ELSE ucNotifyState[t]
ClearState(t) ==
  /\ ucNotifyState' = [ucNotifyState EXCEPT ![t] = ClearedState(t)]
  /\ unseen' = [unseen EXCEPT ![t] = FALSE]

xTaskGenericNotifyStateClear(u, t) ==
  /\ At(u, "application") /\ application.clears
  /\ ClearState(t)
  /\ UNCHANGED <<application, ulNotifiedValue, kernelVars, callVars>>

ulTaskGenericNotifyValueClear(u, t) ==
  /\ At(u, "application") /\ application.clears
  /\ \E bits \in Values :
       ulNotifiedValue' = [ulNotifiedValue EXCEPT ![t] = ClearBits(@, bits)]
  /\ UNCHANGED <<application, ucNotifyState, unseen, kernelVars, callVars>>

-----------------------------------------------------------------------------
(* Suspending a task that may be waiting, and resuming one that may not.    *)

vTaskSuspend(u, t) ==
  /\ At(u, "application") /\ application.suspends
  /\ taskState' = [taskState EXCEPT ![t] = "suspended"]
  /\ xPendingReadyList' = xPendingReadyList \ {t}
  /\ ucNotifyState' = [ucNotifyState EXCEPT ![t] =
                         IF @ = "waiting" THEN "not waiting" ELSE @]
  /\ UNCHANGED <<application, ulNotifiedValue, unseen, suspender, callVars>>

prvTaskIsTaskSuspended(t) ==
  /\ taskState[t] \in {"suspended", "forever"}
  /\ t \notin xPendingReadyList
  /\ ucNotifyState[t] # "waiting"

vTaskResume(u, t) ==
  /\ At(u, "application") /\ application.suspends
  /\ prvTaskIsTaskSuspended(t)
  /\ taskState' = [taskState EXCEPT ![t] = "ready"]
  /\ UNCHANGED <<application, notifyVars, xPendingReadyList, suspender, callVars>>

xTaskResumeFromISR(t) ==
  /\ application.suspends
  /\ prvTaskIsTaskSuspended(t)
  /\ IF suspender = NULL
     THEN /\ taskState' = [taskState EXCEPT ![t] = "ready"]
          /\ UNCHANGED xPendingReadyList
     ELSE /\ xPendingReadyList' = xPendingReadyList \union {t}
          /\ UNCHANGED taskState
  /\ UNCHANGED <<application, notifyVars, suspender, callVars>>

-----------------------------------------------------------------------------
NotificationInit ==
  /\ application \in Applications
  /\ ucNotifyState = [t \in Tasks |-> "not waiting"]
  /\ ulNotifiedValue = [t \in Tasks |-> {}]
  /\ unseen = [t \in Tasks |-> FALSE]
  /\ taskState = [t \in Tasks |-> "ready"]
  /\ xPendingReadyList = {} /\ suspender = NULL
  /\ pc = [t \in Tasks |-> "application"]
  /\ request = [t \in Tasks |-> NoRequest]
  /\ back = [t \in Tasks |-> "application"]

NotificationNext ==
  \E t \in Tasks :
    \/ CallWait(t) \/ MarkWaiting(t) \/ AddToDelayedList(t) \/ ResumeAll(t)
    \/ FinishWait(t) \/ TimeOut(t)
    \/ InterruptNotifies(t) \/ xTaskResumeFromISR(t)
    \/ \E u \in Tasks :
         \/ CallNotify(u, t)
         \/ xTaskGenericNotifyStateClear(u, t) \/ ulTaskGenericNotifyValueClear(u, t)
         \/ vTaskSuspend(u, t) \/ vTaskResume(u, t)

NotificationSpec == NotificationInit /\ [][NotificationNext]_notificationVars

-----------------------------------------------------------------------------

NotificationTypeOK ==
  /\ application \in Applications
  /\ ucNotifyState \in [Tasks -> {"not waiting", "waiting", "received"}]
  /\ ulNotifiedValue \in [Tasks -> Values]
  /\ unseen \in [Tasks -> BOOLEAN]
  /\ taskState \in [Tasks -> {"ready", "delayed", "forever", "suspended"}]
  /\ xPendingReadyList \subseteq Tasks
  /\ suspender \in Tasks \union {NULL}
  /\ request \in [Tasks -> Requests]

(* Has what the task waits for come?                                        *)
Notified(t) == IF request[t].op = "wait" THEN unseen[t] ELSE ulNotifiedValue[t] # {}

(* No notification is missed, wherever in the decision to block it comes:   *)
(* a task that was notified, or whose count is above zero, is not left      *)
(* blocked once the scheduler runs.  What readies it cannot fail: its event *)
(* item is in no list while it waits (configASSERT in xTaskGenericNotify),  *)
(* and xPendingReadyList is worked off.                                     *)
NoNotificationIsMissed ==
  /\ \A t \in Tasks :
       /\ Blocked(t) /\ Notified(t) => t \in xPendingReadyList
       /\ ucNotifyState[t] = "waiting" => t \notin xPendingReadyList
  /\ xPendingReadyList # {} => suspender # NULL
=============================================================================

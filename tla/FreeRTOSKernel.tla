-------------------------- MODULE FreeRTOSKernel --------------------------
(***************************************************************************)
(* The EDF kernel of source/freertos-edf-msp430: the task lists, the tick,  *)
(* and the calls of tasks.c that move tasks between the lists, on the one   *)
(* core of the MSP430 port.                                                 *)
(*                                                                          *)
(* The task pxCurrentTCB executes one action at a time; between two of its  *)
(* actions the tick or a device interrupt may run.  What the code does      *)
(* between taskENTER_CRITICAL and taskEXIT_CRITICAL, or with the scheduler   *)
(* suspended on data that no interrupt touches meanwhile, is one action;    *)
(* a loop is one action per iteration, with `mode' keeping interrupts out.  *)
(* pc[t] says how far task t is inside the kernel call it made: a task that *)
(* is switched out continues from there when it runs again.                 *)
(***************************************************************************)
EXTENDS FreeRTOSList, FiniteSets

CONSTANTS
  Tasks,            \* the application's tasks
  Idle,             \* the idle task
  NULL,
  MaxDelay,         \* portMAX_DELAY: a TickType_t is 0..MaxDelay
  EventObjects,     \* event lists of queues and the like (outside tasks.c)
  Calls,            \* Calls[t]: the kernel calls task t makes
  MainCalls,        \* the calls main() makes besides creating tasks
  IsrCalls,         \* the calls device interrupts make
  DelayTicks,       \* the delays and timeouts tasks ask for
  Period,           \* Period[t]: the xTimeIncrement of t's xTaskDelayUntil
  InitialDeadlines, \* InitialDeadlines[t]: the deadlines t is created with
  RefreshOnOverrun, \* FALSE: xTaskDelayUntil of source/.../tasks.c;
                    \* TRUE: that of verification/freertos/reference/delay.c
  MaxNesting,       \* bound on nested vTaskSuspendAll calls
  MaxPended,        \* bound on ticks while the scheduler is suspended
  NumOverflows      \* xNumOfOverflows counts modulo this

AllTasks == Tasks \union {Idle}
TickType == 0..MaxDelay
StateLists == {"ready", "delayed", "overflow", "suspended", "terminating"}
EventLists == {"pendingReady"} \union EventObjects
Labels == {"entry", "run", "delay", "delayUntil", "block", "delayResume",
           "resumeAll", "catchUp", "yield", "suspend", "create", "free"}
Modes == {"main", "task", "tick", "tickDone", "resume", "resumeTicks"}

ASSUME ConstantsAssumption ==
  /\ Idle \notin Tasks /\ NULL \notin AllTasks
  /\ MaxDelay \in Nat \ {0}
  /\ NumOverflows \in Nat \ {0}
  /\ MaxNesting \in Nat /\ MaxPended \in Nat
  /\ DelayTicks \subseteq TickType
  /\ Period \in [Tasks -> TickType \ {0}]
  /\ InitialDeadlines \in [Tasks -> SUBSET TickType]
  /\ RefreshOnOverrun \in BOOLEAN
  /\ "pendingReady" \notin EventObjects /\ NULL \notin EventObjects

VARIABLES
  mode,                  \* "main" before vTaskStartScheduler, "task" when tasks
                         \* and interrupts run, else the loop being executed
  pxCurrentTCB,
  state,                 \* the lists that hold xStateListItem's
  stateValue,            \* xItemValue of each xStateListItem
  event,                 \* the lists that hold xEventListItem's
  eventValue,            \* xItemValue of each xEventListItem
  xDeadline,
  xTickCount, xNextTaskUnblockTime, xPendedTicks, xNumOfOverflows,
  uxSchedulerSuspended,
  xYieldPending,         \* xYieldPendings[0]
  uxCurrentNumberOfTasks, uxDeletedTasksWaitingCleanUp,
  pc,                    \* per task: the point inside its kernel call
  xTicksToWait, pxTCB, pxEventList, pxPreviousWakeTime, \* per task: locals
  xSwitchRequired,       \* local of xTaskIncrementTick
  xPendedCounts          \* local of xTaskResumeAll

listVars == <<state, stateValue, event>>
tcbVars == <<eventValue, xDeadline>>
timeVars == <<xTickCount, xNumOfOverflows>>
countVars == <<uxCurrentNumberOfTasks, uxDeletedTasksWaitingCleanUp>>
argVars == <<xTicksToWait, pxTCB, pxEventList, pxPreviousWakeTime>>
loopVars == <<xSwitchRequired, xPendedCounts>>
wakeVars == <<xNextTaskUnblockTime, xPendedTicks>>
schedVars == <<pxCurrentTCB, uxSchedulerSuspended, xYieldPending>>
frame == <<mode, tcbVars, timeVars, countVars, loopVars>>
vars == <<frame, schedVars, wakeVars, listVars, pc, argVars>>

TypeOK ==
  /\ mode \in Modes
  /\ pxCurrentTCB \in AllTasks \union {NULL}
  /\ state \in [StateLists -> Seq(AllTasks)]
  /\ stateValue \in [AllTasks -> TickType]
  /\ event \in [EventLists -> Seq(AllTasks)]
  /\ eventValue \in [AllTasks -> TickType]
  /\ xDeadline \in [AllTasks -> TickType]
  /\ xTickCount \in TickType /\ xNextTaskUnblockTime \in TickType
  /\ xPendedTicks \in TickType /\ xPendedCounts \in TickType
  /\ xNumOfOverflows \in 0..(NumOverflows - 1)
  /\ uxSchedulerSuspended \in Nat
  /\ xYieldPending \in BOOLEAN /\ xSwitchRequired \in BOOLEAN
  /\ uxCurrentNumberOfTasks \in Int /\ uxDeletedTasksWaitingCleanUp \in Int
  /\ pc \in [AllTasks -> Labels]
  /\ xTicksToWait \in [AllTasks -> TickType]
  /\ pxTCB \in [AllTasks -> AllTasks \union {NULL}]
  /\ pxEventList \in [AllTasks -> EventObjects \union {NULL}]
  /\ pxPreviousWakeTime \in [AllTasks -> TickType]

-----------------------------------------------------------------------------
(* Lists and helpers of tasks.c.                                            *)

Wrap(n) == n % (MaxDelay + 1)

Holds(list, t) == Contains(state[list], t)
Exists(t) == \E l \in StateLists : Holds(l, t)
HasEventContainer(t) == \E l \in EventLists : Contains(event[l], t)

(* A handle that the application may still use: a task that deleted itself  *)
(* must not be named any more.                                              *)
ValidHandle(t) == Exists(t) /\ ~ Holds("terminating", t)

StateNotDetached(t) == state                                    \* mutant
DetachedState(t) == [l \in StateLists |-> uxListRemove(state[l], t)]
EventNotDetached(t) == event                                    \* mutant
DetachedEvent(t) == [l \in EventLists |-> uxListRemove(event[l], t)]

(* An item is taken out of the list it is in, if any, before it is put into *)
(* another.                                                                 *)
InsertState(list, t, value) ==
  /\ stateValue' = [stateValue EXCEPT ![t] = value]
  /\ state' = [DetachedState(t) EXCEPT ![list] =
                 vListInsert(@, [stateValue EXCEPT ![t] = value], t)]

AppendState(list, t) ==
  /\ state' = [DetachedState(t) EXCEPT ![list] = vListInsertEnd(@, t)]
  /\ UNCHANGED stateValue

AddWithOldValue(t) == InsertState("ready", t, stateValue[t])    \* mutant
prvAddTaskToReadyList(t) == InsertState("ready", t, xDeadline[t])

UnblockAtWrap(delayed) == MaxDelay                              \* mutant
UnblockTime(delayed) ==
  IF delayed = <<>> THEN MaxDelay ELSE stateValue[Head(delayed)]
prvResetNextTaskUnblockTime(delayed) ==
  xNextTaskUnblockTime' = UnblockTime(delayed)

(* Has the wake time of a delayed task come?                                *)
DueEarly(t) == xTickCount + 1 >= stateValue[t]                  \* mutant
DueLate(t) == xTickCount > stateValue[t]                        \* mutant
Due(t) == xTickCount >= stateValue[t]

(* taskSELECT_HIGHEST_PRIORITY_TASK takes the head of the ready list.       *)
SwitchToLast(ready) ==                                          \* mutant
  xYieldPending' = FALSE /\ pxCurrentTCB' = Last(ready)
vTaskSwitchContext(ready) ==
  IF uxSchedulerSuspended # 0
  THEN xYieldPending' = TRUE /\ UNCHANGED pxCurrentTCB
  ELSE xYieldPending' = FALSE /\ pxCurrentTCB' = Head(ready)

EarlierItem(t, u) == stateValue[t] < stateValue[u]              \* mutant
Earlier(t, u) == xDeadline[t] < xDeadline[u]

(* taskYIELD_ANY_CORE_IF_USING_PREEMPTION inside a critical section.        *)
YieldIfEarlier(t, ready) ==
  IF Earlier(t, pxCurrentTCB)
  THEN vTaskSwitchContext(ready)
  ELSE UNCHANGED <<xYieldPending, pxCurrentTCB>>

(* The list for a wake time: has the sum with xTickCount wrapped?           *)
DelayedListFor(wake) == IF wake < xTickCount THEN "overflow" ELSE "delayed"

(* The current task is blocked until xTickCount + ticks, or, where it may   *)
(* wait for ever, put with the suspended tasks.                             *)
prvAddCurrentTaskToDelayedList(ticks, xCanBlockIndefinitely) ==
  IF ticks = MaxDelay /\ xCanBlockIndefinitely
  THEN AppendState("suspended", pxCurrentTCB) /\ UNCHANGED xNextTaskUnblockTime
  ELSE LET wake == Wrap(xTickCount + ticks)
           list == DelayedListFor(wake)
       IN  /\ InsertState(list, pxCurrentTCB, wake)
           /\ xNextTaskUnblockTime' =
                IF list = "delayed" /\ wake < xNextTaskUnblockTime
                THEN wake ELSE xNextTaskUnblockTime

prvTaskIsTaskSuspended(t) == Holds("suspended", t) /\ ~ HasEventContainer(t)

-----------------------------------------------------------------------------
(* Where the current task is.                                               *)

At(t, label) == mode = "task" /\ pxCurrentTCB = t /\ pc[t] = label
Goto(t, label) == pc' = [pc EXCEPT ![t] = label]

(* Task t, outside the kernel, makes a call; only xTaskResumeAll and nested *)
(* vTaskSuspendAll calls are allowed while the scheduler is suspended.      *)
Calling(t, call) ==
  /\ At(t, "run") /\ t \in Tasks
  /\ call \in Calls[t]
  /\ call \in {"suspendAll", "resumeAll"} \/ uxSchedulerSuspended = 0

EntryLabel(t) == IF "delayUntil" \in Calls[t] THEN "entry" ELSE "run"

-----------------------------------------------------------------------------
(* main(): tasks are created, some may be suspended, the scheduler starts.  *)

Init ==
  /\ mode = "main"
  /\ pxCurrentTCB = NULL
  /\ state = [l \in StateLists |-> <<>>]
  /\ stateValue = [t \in AllTasks |-> 0]
  /\ event = [l \in EventLists |-> <<>>]
  /\ eventValue = [t \in AllTasks |-> 0]
  /\ xDeadline = [t \in AllTasks |-> 0]
  /\ xTickCount = 0 /\ xNextTaskUnblockTime = 0
  /\ xPendedTicks = 0 /\ xNumOfOverflows = 0
  /\ uxSchedulerSuspended = 0
  /\ xYieldPending = FALSE
  /\ uxCurrentNumberOfTasks = 0 /\ uxDeletedTasksWaitingCleanUp = 0
  /\ pc = [t \in AllTasks |-> "run"]
  /\ xTicksToWait = [t \in AllTasks |-> 0]
  /\ pxTCB = [t \in AllTasks |-> NULL]
  /\ pxEventList = [t \in AllTasks |-> NULL]
  /\ pxPreviousWakeTime = [t \in AllTasks |-> 0]
  /\ xSwitchRequired = FALSE /\ xPendedCounts = 0

(* prvInitialiseNewTask, and the part of prvAddNewTaskToReadyList that is   *)
(* the same before and after the scheduler starts.                          *)
AddNewTask(t, deadline) ==
  /\ xDeadline' = [xDeadline EXCEPT ![t] = deadline]
  /\ eventValue' = [eventValue EXCEPT ![t] = deadline]
  /\ uxCurrentNumberOfTasks' = uxCurrentNumberOfTasks + 1
  /\ InsertState("ready", t, deadline)
  /\ UNCHANGED <<event, uxDeletedTasksWaitingCleanUp>>

(* Before the scheduler starts the newest of the tasks with the earliest    *)
(* deadline becomes the current task.                                       *)
PickFirst(t, deadline) ==
  pxCurrentTCB' = IF pxCurrentTCB = NULL \/ xDeadline[pxCurrentTCB] >= deadline
                  THEN t ELSE pxCurrentTCB

MainCreate(t, deadline) ==
  /\ mode = "main"
  /\ t \in Tasks /\ ~ Exists(t) /\ deadline \in InitialDeadlines[t]
  /\ AddNewTask(t, deadline)
  /\ PickFirst(t, deadline)
  /\ Goto(t, EntryLabel(t))
  /\ UNCHANGED <<wakeVars, mode, timeVars, uxSchedulerSuspended,
                 xYieldPending, argVars, loopVars>>

(* vTaskSuspend before the scheduler runs chooses another current task.     *)
MainSuspend(t) ==
  /\ mode = "main" /\ "suspend" \in MainCalls
  /\ t \in Tasks /\ ValidHandle(t)
  /\ AppendState("suspended", t)
  /\ IF t # pxCurrentTCB
     THEN UNCHANGED <<pxCurrentTCB, xYieldPending>>
     ELSE IF Len(state'["suspended"]) = uxCurrentNumberOfTasks
          THEN pxCurrentTCB' = NULL /\ UNCHANGED xYieldPending
          ELSE vTaskSwitchContext(state'["ready"])
  /\ UNCHANGED <<wakeVars, frame, event, uxSchedulerSuspended, pc, argVars>>

vTaskStartScheduler ==
  /\ mode = "main"
  /\ AddNewTask(Idle, MaxDelay)
  /\ PickFirst(Idle, MaxDelay)
  /\ xNextTaskUnblockTime' = MaxDelay
  /\ xTickCount' = 0
  /\ mode' = "task"
  /\ UNCHANGED <<xNumOfOverflows, xPendedTicks, uxSchedulerSuspended,
                 xYieldPending, pc, argVars, loopVars>>

-----------------------------------------------------------------------------
(* Interrupts.  They run between two actions of the current task and do not *)
(* nest.                                                                    *)

(* xTaskIncrementTick up to the loop that unblocks tasks.                   *)
xTaskIncrementTick ==
  LET tick  == Wrap(xTickCount + 1)
      lists == IF tick = 0
               THEN [state EXCEPT !["delayed"] = state["overflow"],
                                  !["overflow"] = state["delayed"]]
               ELSE state
      next  == IF tick = 0 THEN UnblockTime(lists["delayed"])
               ELSE xNextTaskUnblockTime
  IN  /\ xTickCount' = tick
      /\ state' = lists
      /\ xNextTaskUnblockTime' = next
      /\ xNumOfOverflows' = IF tick = 0
                            THEN (xNumOfOverflows + 1) % NumOverflows
                            ELSE xNumOfOverflows
      /\ xSwitchRequired' = FALSE
      /\ mode' = IF tick >= next THEN "tick" ELSE "tickDone"
      /\ UNCHANGED <<schedVars, stateValue, event, tcbVars, xPendedTicks,
                     countVars, pc, argVars, xPendedCounts>>

(* vPortPreemptiveTickISR.                                                  *)
TickISR ==
  /\ mode = "task" /\ uxSchedulerSuspended = 0
  /\ xTaskIncrementTick

(* With the scheduler suspended the tick is only counted.                   *)
TickWhileSuspended ==
  /\ mode = "task" /\ uxSchedulerSuspended # 0
  /\ xPendedTicks < MaxPended
  /\ xPendedTicks' = Wrap(xPendedTicks + 1)
  /\ UNCHANGED <<schedVars, frame, listVars, xNextTaskUnblockTime, pc,
                 argVars>>

(* One task whose time has come.                                            *)
UnblockTask ==
  /\ mode = "tick" /\ state["delayed"] # <<>>
  /\ LET t == Head(state["delayed"])
     IN  /\ Due(t)
         /\ event' = DetachedEvent(t)
         /\ prvAddTaskToReadyList(t)
         /\ xSwitchRequired' = (xSwitchRequired \/ Earlier(t, pxCurrentTCB))
  /\ UNCHANGED <<wakeVars, schedVars, mode, tcbVars, timeVars, countVars,
                 pc, argVars, xPendedCounts>>

UnblockDone ==
  /\ mode = "tick"
  /\ state["delayed"] # <<>> => ~ Due(Head(state["delayed"]))
  /\ prvResetNextTaskUnblockTime(state["delayed"])
  /\ mode' = "tickDone"
  /\ UNCHANGED <<schedVars, listVars, tcbVars, timeVars, xPendedTicks,
                 countVars, pc, argVars, loopVars>>

(* What xTaskIncrementTick returns.                                         *)
OnlyIfUnblocked == xSwitchRequired                              \* mutant
SwitchDue == xSwitchRequired \/ xYieldPending

(* xTaskIncrementTick returns: to the interrupt, which switches tasks, or,   *)
(* for a pended tick, to xTaskResumeAll, which notes that a switch is due.  *)
TickReturn ==
  /\ mode = "tickDone"
  /\ IF xPendedCounts = 0
     THEN /\ mode' = "task"
          /\ IF SwitchDue
             THEN vTaskSwitchContext(state["ready"])
             ELSE UNCHANGED <<xYieldPending, pxCurrentTCB>>
          /\ UNCHANGED xPendedCounts
     ELSE /\ mode' = "resumeTicks"
          /\ xYieldPending' = (xYieldPending \/ SwitchDue)
          /\ xPendedCounts' = xPendedCounts - 1
          /\ UNCHANGED pxCurrentTCB
  /\ xSwitchRequired' = FALSE
  /\ UNCHANGED <<wakeVars, listVars, tcbVars, timeVars,
                 uxSchedulerSuspended, countVars, pc, argVars>>

(* A device interrupt resumes a task.  The port has no yield from an        *)
(* interrupt: the switch waits in xYieldPendings for the next tick.         *)
xTaskResumeFromISR(t) ==
  /\ mode = "task" /\ "resume" \in IsrCalls
  /\ ValidHandle(t) /\ prvTaskIsTaskSuspended(t)
  /\ IF uxSchedulerSuspended = 0
     THEN /\ xYieldPending' = (xYieldPending \/ Earlier(t, pxCurrentTCB))
          /\ prvAddTaskToReadyList(t)
          /\ UNCHANGED event
     ELSE /\ event' = [event EXCEPT !["pendingReady"] = vListInsertEnd(@, t)]
          /\ UNCHANGED <<state, stateValue, xYieldPending>>
  /\ UNCHANGED <<wakeVars, frame, pxCurrentTCB, uxSchedulerSuspended, pc,
                 argVars>>

(* The head of an event list is unblocked; xReturn asks the caller to       *)
(* yield.  xYieldPendings is left to the actions that call this.            *)
xTaskRemoveFromEventList(e) ==
  LET t == Head(event[e])
  IN  IF uxSchedulerSuspended = 0
      THEN event' = DetachedEvent(t) /\ prvAddTaskToReadyList(t)
      ELSE /\ event' = [DetachedEvent(t) EXCEPT !["pendingReady"] =
                          vListInsertEnd(@, t)]
           /\ UNCHANGED <<state, stateValue>>

(* A device interrupt signals an event object that no task has locked.      *)
SignalFromISR(e) ==
  /\ mode = "task" /\ "signal" \in IsrCalls
  /\ event[e] # <<>>
  /\ \A t \in AllTasks : ~ (pc[t] = "block" /\ pxEventList[t] = e)
  /\ xTaskRemoveFromEventList(e)
  /\ xYieldPending' = (xYieldPending \/ Earlier(Head(event[e]), pxCurrentTCB))
  /\ UNCHANGED <<wakeVars, frame, pxCurrentTCB, uxSchedulerSuspended, pc,
                 argVars>>

-----------------------------------------------------------------------------
(* Suspending and resuming the scheduler.                                   *)

vTaskSuspendAll == uxSchedulerSuspended' = uxSchedulerSuspended + 1

CallSuspendAll(t) ==
  /\ Calling(t, "suspendAll")
  /\ uxSchedulerSuspended < MaxNesting
  /\ vTaskSuspendAll
  /\ UNCHANGED <<wakeVars, frame, pxCurrentTCB, listVars, xYieldPending, pc,
                 argVars>>

CallResumeAll(t) ==
  /\ Calling(t, "resumeAll")
  /\ uxSchedulerSuspended # 0
  /\ Goto(t, "resumeAll")
  /\ UNCHANGED <<wakeVars, schedVars, frame, listVars, argVars>>

(* The loops of xTaskResumeAll: first the tasks readied meanwhile.          *)
ResumeMode == IF event["pendingReady"] = <<>> THEN "resumeTicks" ELSE "resume"

(* The critical section of xTaskResumeAll begins.                           *)
xTaskResumeAll(t) ==
  /\ At(t, "resumeAll") \/ At(t, "delayResume")
  /\ uxSchedulerSuspended' = uxSchedulerSuspended - 1
  /\ IF uxSchedulerSuspended = 1
     THEN /\ mode' = ResumeMode
          /\ xPendedCounts' = xPendedTicks
          /\ UNCHANGED pc
     ELSE /\ Goto(t, IF pc[t] = "resumeAll" THEN "run" ELSE "yield")
          /\ UNCHANGED <<mode, xPendedCounts>>
  /\ UNCHANGED <<wakeVars, pxCurrentTCB, listVars, tcbVars, timeVars,
                 xYieldPending, countVars, argVars, xSwitchRequired>>

(* One task that an interrupt readied meanwhile; after the last one the     *)
(* next unblock time is computed again.                                     *)
ResumePendingTask ==
  /\ mode = "resume"
  /\ LET t == Head(event["pendingReady"])
     IN  /\ event' = DetachedEvent(t)
         /\ prvAddTaskToReadyList(t)
         /\ xYieldPending' = (xYieldPending \/ Earlier(t, pxCurrentTCB))
         /\ IF Len(event["pendingReady"]) = 1
            THEN /\ prvResetNextTaskUnblockTime(DetachedState(t)["delayed"])
                 /\ mode' = "resumeTicks"
            ELSE UNCHANGED <<xNextTaskUnblockTime, mode>>
  /\ UNCHANGED <<pxCurrentTCB, tcbVars, timeVars, xPendedTicks,
                 uxSchedulerSuspended, countVars, pc, argVars, loopVars>>

(* One tick that came meanwhile.                                            *)
ResumePendedTick ==
  /\ mode = "resumeTicks" /\ xPendedCounts # 0
  /\ xTaskIncrementTick

SomeTicksCaughtUp == mode = "resumeTicks"                       \* mutant
TicksCaughtUp == mode = "resumeTicks" /\ xPendedCounts = 0

(* xTaskResumeAll yields itself when a switch is due; the callers that      *)
(* block yield when it has not.                                             *)
ResumeAllReturn ==
  /\ TicksCaughtUp
  /\ xPendedTicks' = 0
  /\ mode' = "task"
  /\ IF xYieldPending
     THEN vTaskSwitchContext(state["ready"]) /\ Goto(pxCurrentTCB, "run")
     ELSE /\ Goto(pxCurrentTCB,
                  IF pc[pxCurrentTCB] = "delayResume" THEN "yield" ELSE "run")
          /\ UNCHANGED <<xYieldPending, pxCurrentTCB>>
  /\ UNCHANGED <<listVars, tcbVars, timeVars, xNextTaskUnblockTime,
                 uxSchedulerSuspended, countVars, argVars, loopVars>>

CallCatchUpTicks(t) ==
  /\ Calling(t, "catchUp")
  /\ vTaskSuspendAll
  /\ \E n \in DelayTicks : xTicksToWait' = [xTicksToWait EXCEPT ![t] = n]
  /\ Goto(t, "catchUp")
  /\ UNCHANGED <<wakeVars, frame, pxCurrentTCB, listVars, xYieldPending,
                 pxTCB, pxEventList, pxPreviousWakeTime>>

(* What is pended is a TickType_t, and nothing keeps the sum within it.     *)
xTaskCatchUpTicks(t) ==
  /\ At(t, "catchUp")
  /\ xPendedTicks' = Wrap(xPendedTicks + xTicksToWait[t])
  /\ xTicksToWait' = [xTicksToWait EXCEPT ![t] = 0]
  /\ Goto(t, "resumeAll")
  /\ UNCHANGED <<schedVars, frame, listVars, xNextTaskUnblockTime, pxTCB,
                 pxEventList, pxPreviousWakeTime>>

-----------------------------------------------------------------------------
(* Calls that block the caller: each suspends the scheduler, moves the      *)
(* caller to a delayed list, resumes the scheduler and then yields.         *)

TaskEntry(t) ==
  /\ At(t, "entry")
  /\ pxPreviousWakeTime' = [pxPreviousWakeTime EXCEPT ![t] = xTickCount]
  /\ Goto(t, "run")
  /\ UNCHANGED <<wakeVars, schedVars, frame, listVars, xTicksToWait, pxTCB,
                 pxEventList>>

(* With a delay of zero vTaskDelay only yields.                             *)
CallDelay(t, n) ==
  /\ Calling(t, "delay")
  /\ n \in DelayTicks
  /\ IF n > 0
     THEN vTaskSuspendAll /\ Goto(t, "delay")
     ELSE UNCHANGED uxSchedulerSuspended /\ Goto(t, "yield")
  /\ xTicksToWait' = [xTicksToWait EXCEPT ![t] = n]
  /\ UNCHANGED <<wakeVars, frame, pxCurrentTCB, listVars, xYieldPending,
                 pxTCB, pxEventList, pxPreviousWakeTime>>

vTaskDelay(t) ==
  /\ At(t, "delay")
  /\ prvAddCurrentTaskToDelayedList(xTicksToWait[t], FALSE)
  /\ xTicksToWait' = [xTicksToWait EXCEPT ![t] = 0]
  /\ Goto(t, "delayResume")
  /\ UNCHANGED <<schedVars, frame, event, xPendedTicks, pxTCB, pxEventList,
                 pxPreviousWakeTime>>

CallDelayUntil(t) ==
  /\ Calling(t, "delayUntil")
  /\ vTaskSuspendAll
  /\ Goto(t, "delayUntil")
  /\ UNCHANGED <<wakeVars, frame, pxCurrentTCB, listVars, xYieldPending,
                 argVars>>

(* Has the wake time not been reached?  Either it and the tick count have   *)
(* both wrapped since the previous wake time, or neither has.               *)
ShouldDelay(prev, wake) ==
  IF xTickCount < prev
  THEN wake < prev /\ wake > xTickCount
  ELSE wake < prev \/ wake > xTickCount

(* A task that stays ready: only reference/delay.c links it anew.           *)
RefreshReadyItem(t, deadline) ==
  IF RefreshOnOverrun THEN InsertState("ready", t, deadline)
  ELSE UNCHANGED <<state, stateValue>>

(* The deadline of the coming job is written first; the task then blocks    *)
(* until its release, unless that is past already (an overrun).             *)
xTaskDelayUntil(t) ==
  /\ At(t, "delayUntil")
  /\ LET prev     == pxPreviousWakeTime[t]
         wake     == Wrap(prev + Period[t])
         deadline == Wrap(prev + Period[t] + Period[t])
     IN  /\ xDeadline' = [xDeadline EXCEPT ![t] = deadline]
         /\ pxPreviousWakeTime' = [pxPreviousWakeTime EXCEPT ![t] = wake]
         /\ IF ShouldDelay(prev, wake)
            THEN prvAddCurrentTaskToDelayedList(Wrap(wake - xTickCount), FALSE)
            ELSE RefreshReadyItem(t, deadline) /\ UNCHANGED xNextTaskUnblockTime
  /\ Goto(t, "delayResume")
  /\ UNCHANGED <<schedVars, mode, event, eventValue, timeVars, xPendedTicks,
                 countVars, xTicksToWait, pxTCB, pxEventList, loopVars>>

(* Waiting for an event object, as the blocking calls of queue.c do it.     *)
CallWait(t, e, n) ==
  /\ Calling(t, "wait")
  /\ e \in EventObjects /\ n \in DelayTicks \ {0}
  /\ vTaskSuspendAll
  /\ xTicksToWait' = [xTicksToWait EXCEPT ![t] = n]
  /\ pxEventList' = [pxEventList EXCEPT ![t] = e]
  /\ Goto(t, "block")
  /\ UNCHANGED <<wakeVars, frame, pxCurrentTCB, listVars, xYieldPending,
                 pxTCB, pxPreviousWakeTime>>

vTaskPlaceOnEventList(t) ==
  /\ At(t, "block")
  /\ event' = [event EXCEPT ![pxEventList[t]] = vListInsert(@, eventValue, t)]
  /\ prvAddCurrentTaskToDelayedList(xTicksToWait[t], TRUE)
  /\ xTicksToWait' = [xTicksToWait EXCEPT ![t] = 0]
  /\ pxEventList' = [pxEventList EXCEPT ![t] = NULL]
  /\ Goto(t, "delayResume")
  /\ UNCHANGED <<schedVars, frame, xPendedTicks, pxTCB, pxPreviousWakeTime>>

(* A task signals an event object and yields if it woke an earlier task.    *)
CallSignal(t, e) ==
  /\ Calling(t, "signal")
  /\ e \in EventObjects /\ event[e] # <<>>
  /\ xTaskRemoveFromEventList(e)
  /\ YieldIfEarlier(Head(event[e]), state'["ready"])
  /\ UNCHANGED <<wakeVars, frame, uxSchedulerSuspended, pc, argVars>>

(* taskYIELD_WITHIN_API: the software interrupt vPortYield.                 *)
vPortYield(t) ==
  /\ At(t, "yield")
  /\ vTaskSwitchContext(state["ready"])
  /\ Goto(t, "run")
  /\ UNCHANGED <<wakeVars, frame, listVars, uxSchedulerSuspended, argVars>>

-----------------------------------------------------------------------------
(* Creating, suspending, resuming and deleting tasks.                       *)

(* xTaskCreate: the critical section, then, outside it, the comparison.     *)
CallCreate(t, new, deadline) ==
  /\ Calling(t, "create")
  /\ new \in Tasks /\ ~ Exists(new) /\ deadline \in InitialDeadlines[new]
  /\ AddNewTask(new, deadline)
  /\ pxTCB' = [pxTCB EXCEPT ![t] = new]
  /\ pc' = [pc EXCEPT ![t] = "create", ![new] = EntryLabel(new)]
  /\ UNCHANGED <<wakeVars, schedVars, mode, timeVars, xTicksToWait,
                 pxEventList, pxPreviousWakeTime, loopVars>>

(* Once the new task has been freed again, its xDeadline is any value.      *)
prvAddNewTaskToReadyList(t) ==
  /\ At(t, "create")
  /\ \E earlier \in BOOLEAN :
       /\ Exists(pxTCB[t]) => earlier = Earlier(pxTCB[t], t)
       /\ Goto(t, IF earlier THEN "yield" ELSE "run")
  /\ pxTCB' = [pxTCB EXCEPT ![t] = NULL]
  /\ UNCHANGED <<wakeVars, schedVars, frame, listVars, xTicksToWait,
                 pxEventList, pxPreviousWakeTime>>

(* vTaskSuspend: the first critical section.                                *)
CallSuspend(t, x) ==
  /\ Calling(t, "suspend")
  /\ x \in Tasks /\ ValidHandle(x)
  /\ AppendState("suspended", x)
  /\ event' = DetachedEvent(x)
  /\ pxTCB' = [pxTCB EXCEPT ![t] = x]
  /\ Goto(t, "suspend")
  /\ UNCHANGED <<wakeVars, schedVars, frame, xTicksToWait, pxEventList,
                 pxPreviousWakeTime>>

(* The second one, and whether the caller suspended itself.                 *)
vTaskSuspend(t) ==
  /\ At(t, "suspend")
  /\ prvResetNextTaskUnblockTime(state["delayed"])
  /\ Goto(t, IF pxTCB[t] = t THEN "yield" ELSE "run")
  /\ pxTCB' = [pxTCB EXCEPT ![t] = NULL]
  /\ UNCHANGED <<schedVars, frame, listVars, xPendedTicks, xTicksToWait,
                 pxEventList, pxPreviousWakeTime>>

vTaskResume(t, x) ==
  /\ Calling(t, "resume")
  /\ x \in Tasks \ {t} /\ ValidHandle(x) /\ prvTaskIsTaskSuspended(x)
  /\ prvAddTaskToReadyList(x)
  /\ YieldIfEarlier(x, state'["ready"])
  /\ UNCHANGED <<wakeVars, frame, event, uxSchedulerSuspended, pc, argVars>>

(* A task that deletes itself is left for the idle task to free.            *)
DeleteSelf(t) ==
  /\ Calling(t, "delete")
  /\ ValidHandle(t)
  /\ AppendState("terminating", t)
  /\ event' = DetachedEvent(t)
  /\ uxDeletedTasksWaitingCleanUp' = uxDeletedTasksWaitingCleanUp + 1
  /\ Goto(t, "yield")
  /\ UNCHANGED <<wakeVars, schedVars, mode, tcbVars, timeVars,
                 uxCurrentNumberOfTasks, argVars, loopVars>>

(* The storage of a freed task: nothing of it is looked at any more.        *)
Freed(x) ==
  /\ xTicksToWait' = [xTicksToWait EXCEPT ![x] = 0]
  /\ pxTCB' = [pxTCB EXCEPT ![x] = NULL]
  /\ pxEventList' = [pxEventList EXCEPT ![x] = NULL]
  /\ pxPreviousWakeTime' = [pxPreviousWakeTime EXCEPT ![x] = 0]

DeleteOther(t, x) ==
  /\ Calling(t, "delete")
  /\ x \in Tasks \ {t} /\ ValidHandle(x)
  /\ state' = DetachedState(x)
  /\ event' = DetachedEvent(x)
  /\ uxCurrentNumberOfTasks' = uxCurrentNumberOfTasks - 1
  /\ prvResetNextTaskUnblockTime(DetachedState(x)["delayed"])
  /\ Freed(x)
  /\ pc' = [pc EXCEPT ![t] = "free", ![x] = "run"]
  /\ UNCHANGED <<schedVars, mode, stateValue, tcbVars, timeVars,
                 xPendedTicks, uxDeletedTasksWaitingCleanUp, loopVars>>

(* prvDeleteTCB gives the memory back with the scheduler suspended.         *)
prvDeleteTCB(t) ==
  /\ At(t, "free")
  /\ vTaskSuspendAll
  /\ Goto(t, "resumeAll")
  /\ UNCHANGED <<wakeVars, frame, pxCurrentTCB, listVars, xYieldPending,
                 argVars>>

-----------------------------------------------------------------------------
(* prvIdleTask: free the tasks that deleted themselves, then yield if some  *)
(* other task is ready.                                                     *)

prvCheckTasksWaitingTermination ==
  /\ At(Idle, "run") /\ uxDeletedTasksWaitingCleanUp > 0
  /\ \E x \in Tasks :
       /\ x = Head(state["terminating"])
       /\ state' = DetachedState(x)
       /\ Freed(x)
       /\ pc' = [pc EXCEPT ![Idle] = "free", ![x] = "run"]
  /\ uxCurrentNumberOfTasks' = uxCurrentNumberOfTasks - 1
  /\ uxDeletedTasksWaitingCleanUp' = uxDeletedTasksWaitingCleanUp - 1
  /\ UNCHANGED <<wakeVars, schedVars, mode, stateValue, event, tcbVars,
                 timeVars, loopVars>>

IdleShouldYield ==
  /\ At(Idle, "run") /\ uxDeletedTasksWaitingCleanUp = 0
  /\ Len(state["ready"]) > 1
  /\ Goto(Idle, "yield")
  /\ UNCHANGED <<wakeVars, schedVars, frame, listVars, argVars>>

-----------------------------------------------------------------------------
Main ==
  \/ \E t \in Tasks : \/ \E d \in TickType : MainCreate(t, d)
                      \/ MainSuspend(t)
  \/ vTaskStartScheduler

Interrupt ==
  \/ TickISR \/ TickWhileSuspended
  \/ \E t \in Tasks : xTaskResumeFromISR(t)
  \/ \E e \in EventObjects : SignalFromISR(e)

(* The loops that run with interrupts masked.                               *)
Masked ==
  \/ UnblockTask \/ UnblockDone \/ TickReturn
  \/ ResumePendingTask \/ ResumePendedTick \/ ResumeAllReturn

(* What the current task does inside a kernel call.                         *)
Continue(t) ==
  \/ xTaskResumeAll(t) \/ xTaskCatchUpTicks(t)
  \/ TaskEntry(t) \/ vTaskDelay(t) \/ xTaskDelayUntil(t)
  \/ vTaskPlaceOnEventList(t) \/ vPortYield(t)
  \/ prvAddNewTaskToReadyList(t) \/ vTaskSuspend(t) \/ prvDeleteTCB(t)

Call(t) ==
  \/ CallSuspendAll(t) \/ CallResumeAll(t) \/ CallCatchUpTicks(t)
  \/ CallDelayUntil(t) \/ DeleteSelf(t)
  \/ \E n \in TickType : \/ CallDelay(t, n)
                         \/ \E e \in EventObjects : CallWait(t, e, n)
  \/ \E e \in EventObjects : CallSignal(t, e)
  \/ \E x \in Tasks : \/ \E d \in TickType : CallCreate(t, x, d)
                      \/ CallSuspend(t, x) \/ vTaskResume(t, x)
                      \/ DeleteOther(t, x)

IdleLoop == prvCheckTasksWaitingTermination \/ IdleShouldYield

Next ==
  \/ Main \/ Interrupt \/ Masked \/ IdleLoop
  \/ \E t \in AllTasks : Continue(t)
  \/ \E t \in Tasks : Call(t)

Spec == Init /\ [][Next]_vars

(* Fairness.  A kernel call that has begun goes on, and so does a masked    *)
(* loop: nothing in them waits.  A tick stays latched while interrupts are  *)
(* masked, so it is taken although it is only enabled again and again       *)
(* (strong fairness).  A task that suspended the scheduler resumes it, as   *)
(* task.h demands; its other calls are its own affair.                      *)
FairSpec ==
  /\ Spec
  /\ WF_vars(vTaskStartScheduler)
  /\ WF_vars(Masked) /\ WF_vars(IdleLoop)
  /\ \A t \in AllTasks : WF_vars(Continue(t))
  /\ \A t \in Tasks : WF_vars(CallResumeAll(t))
  /\ SF_vars(TickISR)

-----------------------------------------------------------------------------
(* Safety.                                                                  *)

(* Every xStateListItem is in at most one list and every xEventListItem in  *)
(* at most one: uxListRemove trusts pxContainer, so an item linked twice    *)
(* would corrupt a ring.  (vListInsert and uxListRemove of all callers.)    *)
ListDiscipline ==
  /\ \A l \in StateLists : NoDuplicates(state[l])
  /\ \A l, m \in StateLists :
       l # m => Items(state[l]) \intersect Items(state[m]) = {}
  /\ \A l \in EventLists : NoDuplicates(event[l])
  /\ \A l, m \in EventLists :
       l # m => Items(event[l]) \intersect Items(event[m]) = {}

(* The delayed lists are in wake order, the current one holds times still   *)
(* to come before the tick count wraps, the other one times after it, and   *)
(* xNextTaskUnblockTime is not later than any of them: else a task sleeps   *)
(* for a whole turn of the tick count.  (xTaskIncrementTick only looks at   *)
(* the list when xNextTaskUnblockTime is reached.)  Nobody is left in the   *)
(* current list when the two are switched (configASSERT of                  *)
(* taskSWITCH_DELAYED_LISTS).                                               *)
DelayedListsValid ==
  /\ \A l \in {"delayed", "overflow"} : Sorted(state[l], stateValue)
  /\ \A t \in Items(state["delayed"]) : stateValue[t] >= xTickCount
  /\ \A t \in Items(state["overflow"]) : stateValue[t] <= xTickCount
  /\ mode \notin {"tick", "main"} =>
       \A t \in Items(state["delayed"]) :
         stateValue[t] > xTickCount /\ stateValue[t] >= xNextTaskUnblockTime
  /\ mode \in {"task", "resume", "resumeTicks"} /\ xTickCount = MaxDelay =>
       state["delayed"] = <<>>

(* P1 of the verification model (ReadyListDeadlineMatches): the ready list  *)
(* is ordered by the deadlines the tasks have now.                          *)
ReadyListDeadlineMatches ==
  /\ Sorted(state["ready"], stateValue)
  /\ \A t \in Items(state["ready"]) : stateValue[t] = xDeadline[t]

(* P3 of the verification model (EDFProperty): the running task is ready    *)
(* and no ready task has an earlier deadline.  Exempt are the places where  *)
(* the code is about to yield: a pending yield, the window before           *)
(* taskYIELD_WITHIN_API, a task that has just suspended itself, and the     *)
(* task just created, which is compared outside the critical section.       *)
EDFProperty ==
  /\ mode = "task" /\ uxSchedulerSuspended = 0
  /\ ~ xYieldPending /\ pc[pxCurrentTCB] # "yield"
  /\ ~ (pc[pxCurrentTCB] = "suspend" /\ pxTCB[pxCurrentTCB] = pxCurrentTCB)
  => /\ Holds("ready", pxCurrentTCB)
     /\ \A t \in Items(state["ready"]) :
          \/ pc[pxCurrentTCB] = "create" /\ t = pxTCB[pxCurrentTCB]
          \/ xDeadline[pxCurrentTCB] <= xDeadline[t]

(* A task in an event list is blocked, with its timeout running or for      *)
(* ever; a ready task waits for nothing.  An event item left behind by a    *)
(* timeout, a suspension or a deletion would be signalled in its stead.     *)
(* And no task is stranded in xPendingReadyList once the scheduler runs.    *)
WaitersAreBlocked ==
  /\ \A t \in AllTasks : HasEventContainer(t) =>
       Holds("delayed", t) \/ Holds("overflow", t) \/ Holds("suspended", t)
  /\ mode = "task" /\ uxSchedulerSuspended = 0 => event["pendingReady"] = <<>>

(* A task that deleted itself runs only until its own yield, and never once *)
(* the idle task may have freed its stack; a freed task is never current.   *)
(* The counters agree with the lists, so that the idle task frees exactly   *)
(* the tasks that deleted themselves and main's vTaskSuspend recognises     *)
(* that all tasks are suspended.                                            *)
DeletedTasksAreFreed ==
  /\ mode # "main" =>
       /\ Exists(pxCurrentTCB)
       /\ Holds("terminating", pxCurrentTCB) => pc[pxCurrentTCB] = "yield"
  /\ uxDeletedTasksWaitingCleanUp = Len(state["terminating"])
  /\ uxCurrentNumberOfTasks = Cardinality({t \in AllTasks : Exists(t)})

-----------------------------------------------------------------------------
(* What a step may never do.                                                *)

(* A task that only waits for time is readied at exactly its wake time,     *)
(* across any number of wraps of the tick count, pended ticks and other     *)
(* tasks' wake-ups.  (xTaskIncrementTick)                                   *)
WakesExactlyOnTime ==
  [][\A t \in AllTasks :
       /\ Holds("delayed", t) \/ Holds("overflow", t)
       /\ ~ HasEventContainer(t)
       /\ Holds("ready", t)'
       => xTickCount = stateValue[t]]_vars

(* Ticks that have come and are yet to be taken.                            *)
TicksPending ==
  IF mode \in {"task", "resume"} THEN xPendedTicks
  ELSE IF mode # "resumeTicks" /\ xPendedCounts > 0
       THEN xPendedCounts - 1 ELSE xPendedCounts

(* The ticks a step adds to those taken and those pending.  This is a plain *)
(* number, so a whole turn of the tick count that is dropped shows.         *)
TicksGained == Wrap(xTickCount' - xTickCount) + TicksPending' - TicksPending

(* The ticks that come with a step.                                         *)
TicksCome ==
  IF TickISR \/ TickWhileSuspended THEN 1
  ELSE IF \E t \in Tasks : xTaskCatchUpTicks(t) THEN xTicksToWait[pxCurrentTCB]
  ELSE 0

(* No tick is lost or counted twice by suspending and resuming the          *)
(* scheduler: time passes with tick interrupts and xTaskCatchUpTicks only,  *)
(* by as many ticks as these bring as long as what is pended fits a         *)
(* TickType_t, and no tick is left pended when the scheduler runs.          *)
(* (xTaskIncrementTick, xTaskCatchUpTicks, xTaskResumeAll)                  *)
NoTickLost ==
  /\ [](mode = "task" /\ uxSchedulerSuspended = 0 => xPendedTicks = 0)
  /\ [][\/ vTaskStartScheduler
        \/ xPendedTicks + TicksCome <= MaxDelay => TicksGained = TicksCome]_vars

(* The kernel only ever switches to a ready task with the earliest deadline *)
(* of all ready tasks, also when the first task to run is chosen.           *)
(* (taskSELECT_HIGHEST_PRIORITY_TASK, prvAddNewTaskToReadyList and          *)
(* vTaskSuspend before the scheduler starts)                                *)
SwitchesToEarliest ==
  [][pxCurrentTCB' # pxCurrentTCB =>
       \/ pxCurrentTCB' = NULL /\ state'["ready"] = <<>>
       \/ /\ Holds("ready", pxCurrentTCB)'
          /\ \A t \in Items(state'["ready"]) :
               xDeadline'[pxCurrentTCB'] <= xDeadline'[t]]_vars

-----------------------------------------------------------------------------
(* Liveness.                                                                *)

(* A task that waits with a time limit does not wait for ever: its time     *)
(* comes although ticks are pended, lists are switched and other tasks      *)
(* suspend the scheduler.                                                   *)
DelayEnds ==
  \A t \in Tasks :
    (Holds("delayed", t) \/ Holds("overflow", t))
      ~> ~ (Holds("delayed", t) \/ Holds("overflow", t))

(* What an interrupt does takes effect: a context switch that it asked for  *)
(* is made, and a task that it readied while the scheduler was suspended    *)
(* gets to the ready list, unless it is deleted or suspended first.         *)
InterruptsAreHonoured ==
  /\ xYieldPending ~> ~ xYieldPending
  /\ \A t \in Tasks : Contains(event["pendingReady"], t)
                       ~> ~ Contains(event["pendingReady"], t)
=============================================================================

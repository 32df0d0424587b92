--------------------------- MODULE FreeRTOSTimers ---------------------------
(***************************************************************************)
(* The software timers of timers.c.  Tasks and interrupts post commands to  *)
(* xTimerQueue; the timer service task, prvTimerTask, alone touches the two *)
(* lists of timers: one for the expiry times before the tick count          *)
(* overflows, one for those after.                                          *)
(*                                                                          *)
(* The daemon's loop is cut where ticks, commands and vTimerSetReloadMode   *)
(* can come in between.  A timer is late when its task or the caller of     *)
(* xTimerStart is held up; MaxLate bounds by how much.                      *)
(***************************************************************************)
EXTENDS FreeRTOSList, FiniteSets

CONSTANTS
  Timers,
  StaticTimers,     \* those of xTimerCreateStatic
  Clients,          \* the tasks that post commands
  NULL,
  Periods,
  Applications,     \* how timers are used
  TickValues,       \* xTickCount counts modulo this
  QueueLength,      \* configTIMER_QUEUE_LENGTH
  MaxLate,
  MaxNow            \* bounds the ticks of a behaviour

CommandIDs == {"start", "stop", "changePeriod", "delete"}
Modes == {{}, {"AUTORELOAD"}}
Statuses == {"ACTIVE", "AUTORELOAD"}
Labels == {"query", "wait", "place", "unlock", "expire", "reload", "callback",
           "switch", "receive", "sample", "command"}

MAX_TIME == TickValues - 1       \* tmrMAX_TIME_BEFORE_OVERFLOW
queueUNLOCKED == -1

(* An application fixes the timers it creates, the reload modes it sets and  *)
(* the commands its tasks and interrupts post.                              *)
(* The last conjunct is what the switching of the lists depends on: when    *)
(* the daemon is later than this it takes the overflow of the tick count    *)
(* for no overflow.                                                         *)
ASSUME ConstantsAssumption ==
  /\ NULL \notin Timers /\ StaticTimers \subseteq Timers
  /\ TickValues \in Nat \ {0} /\ QueueLength \in Nat \ {0}
  /\ MaxLate \in 0..(TickValues - 1) /\ MaxNow \in Nat
  /\ NULL \notin Nat /\ NULL \notin [id : CommandIDs, timer : Timers, value : Nat, at : Nat]
  /\ \A a \in Applications :
       /\ DOMAIN a = {"timers", "modes", "taskCommands", "isrCommands"}
       /\ a.timers \subseteq Timers \X Periods \X Modes
       /\ a.modes \subseteq Modes
       /\ a.taskCommands \subseteq CommandIDs
       /\ a.isrCommands \subseteq CommandIDs \ {"delete"}
  /\ Periods \subseteq Nat \ {0}
  /\ \A p \in Periods : p + MaxLate < TickValues

VARIABLES
  application,
  xTimerQueue,
  pxCurrentTimerList, pxOverflowTimerList,
  created,
  xItemValue, xTimerPeriodInTicks, ucStatus,   \* of each timer
  xTickCount, xLastTime,
  pc,               \* where the daemon is
  switching,        \* whose prvSampleTimeNow is switching the lists
  pxTimer, xExpiredTime,   \* of prvProcessExpiredTimer and prvReloadTimer
  xMessage,         \* the command being processed
  asleep, wakeAt,   \* the daemon is blocked, until then (NULL: for ever)
  cTxLock,
  posting,          \* the command a client has prepared and not posted yet
  base,             \* when xTickCount was 0 last: the time is base + xTickCount
  sampleBase,       \* base when xLastTime was taken
  since,            \* when the daemon took the time or was woken, whichever is later
  due               \* when the callback of a timer is to be called next

lists == <<pxCurrentTimerList, pxOverflowTimerList>>
fields == <<created, xItemValue, xTimerPeriodInTicks, ucStatus>>
ticks == <<xTickCount, base>>
sampled == <<xLastTime, sampleBase, since>>
expiry == <<pxTimer, xExpiredTime>>
sleep == <<asleep, wakeAt>>
vars == <<application, xTimerQueue, lists, fields, ticks, sampled, pc, switching, expiry,
          xMessage, sleep, cTxLock, posting, due>>

-----------------------------------------------------------------------------

Now == base + xTickCount

(* A timer is deleted when no task is about to post another command to it,  *)
(* and not used any more after that: the handle is no longer valid then.    *)
Outstanding ==
  Items(xTimerQueue) \union {posting[c] : c \in Clients} \union {xMessage}

Usable == {t \in created :
             \A m \in Outstanding \ {NULL} : ~ (m.timer = t /\ m.id = "delete")}

(* xTimerStart and xTimerReset, which the daemon does not tell apart, send  *)
(* the tick count of the call.                                              *)
Message(id, t, value, at) == [id |-> id, timer |-> t, value |-> value, at |-> at]

Commands(ids) ==
  {m \in {Message("start", t, xTickCount, Now) : t \in Usable}
           \union {Message("changePeriod", t, p, 0) : t \in Usable, p \in Periods}
           \union {Message(id, t, 0, 0) : id \in {"stop", "delete"}, t \in Usable} :
     /\ m.id \in ids
     /\ m.id = "delete" => \A c \in Clients : posting[c] # NULL =>
                                               posting[c].timer # m.timer}

(* The daemon has suspended the scheduler.                                  *)
Suspended == pc \in {"wait", "place", "unlock"} \/ switching = "query"

(* xQueueSendToBack(FromISR): the daemon is woken, unless the queue is      *)
(* locked and the unlocking will.                                           *)
Send(m) ==
  /\ xTimerQueue' = Append(xTimerQueue, m)
  /\ IF cTxLock # queueUNLOCKED
     THEN cTxLock' = cTxLock + 1 /\ UNCHANGED <<sleep, since>>
     ELSE /\ asleep' = FALSE /\ wakeAt' = NULL
          /\ since' = IF asleep THEN Now ELSE since
          /\ UNCHANGED cTxLock

-----------------------------------------------------------------------------
(* The clients.                                                             *)

xTimerCreate(t) ==
  /\ ~ Suspended
  /\ t \notin created
  /\ \E p \in Periods, mode \in Modes :
       /\ <<t, p, mode>> \in application.timers
       /\ xTimerPeriodInTicks' = [xTimerPeriodInTicks EXCEPT ![t] = p]
       /\ ucStatus' = [ucStatus EXCEPT ![t] = mode]
  /\ created' = created \union {t}
  /\ UNCHANGED <<xTimerQueue, lists, xItemValue, ticks, sampled, pc, switching,
                 expiry, xMessage, sleep, cTxLock, posting, due>>

(* A client prepares the command, reading the tick count if it is a start.  *)
Prepare(c) ==
  /\ ~ Suspended
  /\ posting[c] = NULL
  /\ \E m \in Commands(application.taskCommands) : posting' = [posting EXCEPT ![c] = m]
  /\ UNCHANGED <<xTimerQueue, lists, fields, ticks, sampled, pc, switching,
                 expiry, xMessage, sleep, cTxLock, due>>

(* It posts the command when the queue has room for it.                     *)
xTimerGenericCommandFromTask(c) ==
  /\ ~ Suspended
  /\ posting[c] # NULL
  /\ Len(xTimerQueue) < QueueLength
  /\ Send(posting[c])
  /\ posting' = [posting EXCEPT ![c] = NULL]
  /\ UNCHANGED <<lists, fields, ticks, xLastTime, sampleBase, pc, switching,
                 expiry, xMessage, due>>

(* It has waited for room as long as it wanted to.                          *)
CommandFails(c) ==
  /\ ~ Suspended
  /\ posting[c] # NULL
  /\ Len(xTimerQueue) >= QueueLength
  /\ posting' = [posting EXCEPT ![c] = NULL]
  /\ UNCHANGED <<xTimerQueue, lists, fields, ticks, sampled, pc, switching,
                 expiry, xMessage, sleep, cTxLock, due>>

(* An interrupt, or the callback of a timer, which may not block either.    *)
xTimerGenericCommandFromISR ==
  /\ Len(xTimerQueue) < QueueLength
  /\ \E m \in Commands(application.isrCommands) : Send(m)
  /\ UNCHANGED <<lists, fields, ticks, xLastTime, sampleBase, pc, switching,
                 expiry, xMessage, posting, due>>

(* In a critical section; the daemon changes ucStatus without, by single    *)
(* instructions.                                                            *)
vTimerSetReloadMode(t) ==
  /\ Suspended => pc = "callback"
  /\ t \in Usable
  /\ \E mode \in application.modes :
       ucStatus' = [ucStatus EXCEPT ![t] = (@ \ {"AUTORELOAD"}) \union mode]
  /\ UNCHANGED <<xTimerQueue, lists, created, xItemValue, xTimerPeriodInTicks,
                 ticks, sampled, pc, switching, expiry, xMessage, sleep, cTxLock,
                 posting, due>>

(* A tick, which wakes the daemon when its time has come.  Nobody is held   *)
(* up for more than MaxLate ticks.                                          *)
Tick ==
  /\ Now < MaxNow
  /\ ~ Suspended
  /\ ~ asleep => Now - since < MaxLate
  /\ \A m \in Outstanding \ {NULL} : m.id = "start" => Now - m.at < MaxLate
  /\ IF xTickCount = MAX_TIME
     THEN xTickCount' = 0 /\ base' = base + TickValues
     ELSE xTickCount' = xTickCount + 1 /\ UNCHANGED base
  /\ IF asleep /\ wakeAt = Now + 1
     THEN asleep' = FALSE /\ wakeAt' = NULL /\ since' = Now + 1
     ELSE UNCHANGED <<sleep, since>>
  /\ UNCHANGED <<xTimerQueue, lists, fields, xLastTime, sampleBase, pc, switching,
                 expiry, xMessage, cTxLock, posting, due>>

-----------------------------------------------------------------------------
(* The lists.                                                               *)

RemoveTimer(t) ==
  /\ pxCurrentTimerList' = uxListRemove(pxCurrentTimerList, t)
  /\ pxOverflowTimerList' = uxListRemove(pxOverflowTimerList, t)

(* What prvInsertTimerInActiveList decides: the expiry time has passed      *)
(* already, or is after the next overflow of the tick count, or before it.  *)
Destination(t, next, now, commandTime) ==
  IF next <= now
  THEN IF (now - commandTime) % TickValues >= xTimerPeriodInTicks[t]
       THEN "processNow" ELSE "overflow"
  ELSE IF now < commandTime /\ next >= commandTime
       THEN "processNow" ELSE "current"

(* prvInsertTimerInActiveList, which sets the value in any case; removed    *)
(* are the lists the timer has been taken out of.                           *)
InsertTimer(t, next, where) ==
  LET value == [xItemValue EXCEPT ![t] = next]
  IN  /\ xItemValue' = value
      /\ pxCurrentTimerList' =
           IF where = "current" THEN vListInsert(pxCurrentTimerList, value, t)
           ELSE pxCurrentTimerList
      /\ pxOverflowTimerList' =
           IF where = "overflow" THEN vListInsert(pxOverflowTimerList, value, t)
           ELSE pxOverflowTimerList

(* prvProcessExpiredTimer up to the first prvInsertTimerInActiveList.       *)
prvProcessExpiredTimer(t) ==
  /\ RemoveTimer(t)
  /\ pxTimer' = t
  /\ xExpiredTime' = xItemValue[t]
  /\ IF "AUTORELOAD" \in ucStatus[t]
     THEN pc' = "reload" /\ UNCHANGED ucStatus
     ELSE /\ pc' = "callback"
          /\ ucStatus' = [ucStatus EXCEPT ![t] = @ \ {"ACTIVE"}]

(* The time prvReloadTimer is given: in prvSwitchTimerLists the last one    *)
(* before the overflow.                                                     *)
xTimeOfSample == xLastTime                                             \* mutant
xTimeNow == IF switching = "no" THEN xLastTime ELSE MAX_TIME

(* prvSampleTimeNow up to prvSwitchTimerLists.                              *)
prvSampleTimeNow(caller, otherwise) ==
  /\ xLastTime' = xTickCount /\ sampleBase' = base /\ since' = Now
  /\ IF xTickCount < xLastTime
     THEN pc' = "switch" /\ switching' = caller
     ELSE pc' = otherwise /\ UNCHANGED switching

-----------------------------------------------------------------------------
(* The daemon.                                                              *)

DaemonRuns(label) == pc = label /\ (asleep => Suspended)

(* prvGetNextExpireTime and prvProcessTimerOrBlockTask, which suspends the  *)
(* scheduler, up to its decision.                                           *)
prvProcessTimerOrBlockTask ==
  /\ DaemonRuns("query")
  /\ LET expired == /\ pxCurrentTimerList # <<>>
                    /\ xItemValue[Head(pxCurrentTimerList)] <= xTickCount
     IN  prvSampleTimeNow("query", IF expired THEN "expire" ELSE "wait")
  /\ UNCHANGED <<xTimerQueue, lists, fields, ticks, expiry, xMessage, sleep,
                 cTxLock, posting, due>>

(* vQueueWaitForMessageRestricted: the queue is locked ...                  *)
WaitForMessage ==
  /\ DaemonRuns("wait")
  /\ cTxLock' = 0
  /\ pc' = IF xTimerQueue = <<>> THEN "place" ELSE "unlock"
  /\ UNCHANGED <<xTimerQueue, lists, fields, ticks, sampled, switching, expiry,
                 xMessage, sleep, posting, due>>

(* ... the daemon is put on the list of its waiting tasks, until the next   *)
(* timer expires, for ever when there is none ...                           *)
xCurrentListIsEmpty == pxCurrentTimerList = <<>>                       \* mutant
xWaitIndefinitely == pxCurrentTimerList = <<>> /\ pxOverflowTimerList = <<>>

xTicksToWait ==
  ((IF pxCurrentTimerList = <<>> THEN 0 ELSE xItemValue[Head(pxCurrentTimerList)])
     - xLastTime) % TickValues

vTaskPlaceOnEventListRestricted ==
  /\ DaemonRuns("place")
  /\ asleep' = TRUE
  /\ wakeAt' = IF xWaitIndefinitely THEN NULL ELSE Now + xTicksToWait
  /\ pc' = "unlock"
  /\ UNCHANGED <<xTimerQueue, lists, fields, ticks, sampled, switching, expiry,
                 xMessage, cTxLock, posting, due>>

(* ... and woken again if an interrupt posted a command meanwhile.          *)
prvUnlockQueue ==
  /\ DaemonRuns("unlock")
  /\ cTxLock' = queueUNLOCKED
  /\ IF cTxLock > 0 THEN asleep' = FALSE /\ wakeAt' = NULL ELSE UNCHANGED sleep
  /\ pc' = "receive"
  /\ UNCHANGED <<xTimerQueue, lists, fields, ticks, sampled, switching, expiry,
                 xMessage, posting, due>>

(* The first timer of the current list has expired.                         *)
Expire ==
  /\ DaemonRuns("expire")
  /\ prvProcessExpiredTimer(Head(pxCurrentTimerList))
  /\ UNCHANGED <<xTimerQueue, created, xItemValue, xTimerPeriodInTicks, ticks,
                 sampled, switching, xMessage, sleep, cTxLock, posting, due>>

(* One round of the loop of prvReloadTimer: an expiry that has been missed  *)
(* is made up for by calling the callback at once.                          *)
prvReloadTimer ==
  /\ DaemonRuns("reload")
  /\ LET period == xTimerPeriodInTicks[pxTimer]
         next == (xExpiredTime + period) % TickValues
         where == Destination(pxTimer, next, xTimeNow, xExpiredTime)
     IN  /\ InsertTimer(pxTimer, next, where)
         /\ IF where = "processNow"
            THEN /\ xExpiredTime' = next
                 /\ due' = [due EXCEPT ![pxTimer] = @ + period]
                 /\ UNCHANGED pc
            ELSE /\ pc' = "callback"
                 /\ UNCHANGED <<xExpiredTime, due>>
  /\ UNCHANGED <<xTimerQueue, created, xTimerPeriodInTicks, ucStatus, ticks,
                 sampled, switching, pxTimer, xMessage, sleep, cTxLock, posting>>

Listed == Items(pxCurrentTimerList) \union Items(pxOverflowTimerList)

(* The callback of pxTimer returns.                                         *)
Callback ==
  /\ DaemonRuns("callback")
  /\ due' = [due EXCEPT ![pxTimer] =
               IF pxTimer \in Listed THEN @ + xTimerPeriodInTicks[pxTimer] ELSE 0]
  /\ pxTimer' = NULL /\ xExpiredTime' = 0
  /\ pc' = IF switching = "no" THEN "receive" ELSE "switch"
  /\ UNCHANGED <<xTimerQueue, lists, fields, ticks, sampled, switching, xMessage,
                 sleep, cTxLock, posting>>

(* The loop of prvSwitchTimerLists: what is left in the current list has    *)
(* expired.                                                                 *)
prvSwitchTimerLists ==
  /\ DaemonRuns("switch")
  /\ IF pxCurrentTimerList # <<>>
     THEN /\ prvProcessExpiredTimer(Head(pxCurrentTimerList))
          /\ UNCHANGED switching
     ELSE /\ pxCurrentTimerList' = pxOverflowTimerList
          /\ pxOverflowTimerList' = pxCurrentTimerList
          /\ switching' = "no"
          /\ pc' = IF switching = "query" THEN "receive" ELSE "command"
          /\ UNCHANGED <<expiry, ucStatus>>
  /\ UNCHANGED <<xTimerQueue, created, xItemValue, xTimerPeriodInTicks, ticks,
                 sampled, xMessage, sleep, cTxLock, posting, due>>

(* prvProcessReceivedCommands takes the next command; its timer leaves its  *)
(* list.                                                                    *)
ReceiveCommand ==
  /\ DaemonRuns("receive")
  /\ IF xTimerQueue = <<>>
     THEN pc' = "query" /\ UNCHANGED <<xTimerQueue, lists, xMessage>>
     ELSE /\ xMessage' = Head(xTimerQueue)
          /\ xTimerQueue' = Tail(xTimerQueue)
          /\ RemoveTimer(Head(xTimerQueue).timer)
          /\ pc' = "sample"
  /\ due' = IF xTimerQueue = <<>> THEN due
            ELSE [due EXCEPT ![Head(xTimerQueue).timer] = 0]
  /\ UNCHANGED <<fields, ticks, sampled, switching, expiry, sleep, cTxLock,
                 posting>>

(* Mutant: the time is not taken again.                                     *)
UseLastSample ==
  /\ DaemonRuns("sample")
  /\ pc' = "command"
  /\ UNCHANGED <<xTimerQueue, lists, fields, ticks, sampled, switching, expiry,
                 xMessage, sleep, cTxLock, posting, due>>

(* It takes the time after that, so that no command is from the future.     *)
SampleForCommand ==
  /\ DaemonRuns("sample")
  /\ prvSampleTimeNow("command", "command")
  /\ UNCHANGED <<xTimerQueue, lists, fields, ticks, expiry, xMessage, sleep,
                 cTxLock, posting, due>>

(* Mutant: a timer that expires while it is started stays active.           *)
StartAsActive(t) ==
  LET next == (xMessage.value + xTimerPeriodInTicks[t]) % TickValues
      where == Destination(t, next, xTimeNow, xMessage.value)
      now == where = "processNow"
  IN  /\ InsertTimer(t, next, where)
      /\ due' = [due EXCEPT ![t] = xMessage.at + xTimerPeriodInTicks[t]]
      /\ ucStatus' = [ucStatus EXCEPT ![t] = @ \union {"ACTIVE"}]
      /\ pc' = IF ~ now THEN "receive"
               ELSE IF "AUTORELOAD" \in ucStatus[t] THEN "reload" ELSE "callback"
      /\ IF now THEN pxTimer' = t /\ xExpiredTime' = next ELSE UNCHANGED expiry
      /\ UNCHANGED <<created, xTimerPeriodInTicks>>

(* The commands.  The expiry time of a start counts from its call.          *)
Start(t) ==
  LET next == (xMessage.value + xTimerPeriodInTicks[t]) % TickValues
      where == Destination(t, next, xTimeNow, xMessage.value)
      now == where = "processNow"
      reloads == "AUTORELOAD" \in ucStatus[t]
  IN  /\ InsertTimer(t, next, where)
      /\ due' = [due EXCEPT ![t] = xMessage.at + xTimerPeriodInTicks[t]]
      /\ ucStatus' = [ucStatus EXCEPT ![t] = IF now /\ ~ reloads THEN @ \ {"ACTIVE"}
                                             ELSE @ \union {"ACTIVE"}]
      /\ pc' = IF ~ now THEN "receive" ELSE IF reloads THEN "reload" ELSE "callback"
      /\ IF now THEN pxTimer' = t /\ xExpiredTime' = next ELSE UNCHANGED expiry
      /\ UNCHANGED <<created, xTimerPeriodInTicks>>

Stop(t) ==
  /\ ucStatus' = [ucStatus EXCEPT ![t] = @ \ {"ACTIVE"}]
  /\ pc' = "receive"
  /\ UNCHANGED <<lists, created, xItemValue, xTimerPeriodInTicks, expiry, due>>

(* The result of prvInsertTimerInActiveList is ignored here.                *)
ChangePeriod(t) ==
  LET period == xMessage.value
      next == (xTimeNow + period) % TickValues
  IN  /\ xTimerPeriodInTicks' = [xTimerPeriodInTicks EXCEPT ![t] = period]
      /\ InsertTimer(t, next, IF next <= xTimeNow THEN "overflow" ELSE "current")
      /\ ucStatus' = [ucStatus EXCEPT ![t] = @ \union {"ACTIVE"}]
      /\ due' = [due EXCEPT ![t] = sampleBase + xLastTime + period]
      /\ pc' = "receive"
      /\ UNCHANGED <<created, expiry>>

Delete(t) ==
  /\ IF t \in StaticTimers
     THEN ucStatus' = [ucStatus EXCEPT ![t] = @ \ {"ACTIVE"}] /\ UNCHANGED created
     ELSE created' = created \ {t} /\ UNCHANGED ucStatus
  /\ pc' = "receive"
  /\ UNCHANGED <<lists, xItemValue, xTimerPeriodInTicks, expiry, due>>

ProcessCommand ==
  /\ DaemonRuns("command")
  /\ \/ xMessage.id = "start" /\ Start(xMessage.timer)
     \/ xMessage.id = "stop" /\ Stop(xMessage.timer)
     \/ xMessage.id = "changePeriod" /\ ChangePeriod(xMessage.timer)
     \/ xMessage.id = "delete" /\ Delete(xMessage.timer)
  /\ xMessage' = NULL
  /\ UNCHANGED <<xTimerQueue, ticks, sampled, switching, sleep, cTxLock, posting>>

-----------------------------------------------------------------------------

Init ==
  /\ application \in Applications
  /\ xTimerQueue = <<>>
  /\ pxCurrentTimerList = <<>> /\ pxOverflowTimerList = <<>>
  /\ created = {}
  /\ xItemValue = [t \in Timers |-> 0]
  /\ xTimerPeriodInTicks = [t \in Timers |-> 0]
  /\ ucStatus = [t \in Timers |-> {}]
  /\ xTickCount = 0 /\ base = 0
  /\ xLastTime = 0 /\ sampleBase = 0 /\ since = 0
  /\ pc = "query" /\ switching = "no"
  /\ pxTimer = NULL /\ xExpiredTime = 0
  /\ xMessage = NULL
  /\ asleep = FALSE /\ wakeAt = NULL
  /\ cTxLock = queueUNLOCKED
  /\ posting = [c \in Clients |-> NULL]
  /\ due = [t \in Timers |-> 0]

Daemon ==
  \/ prvProcessTimerOrBlockTask
  \/ WaitForMessage
  \/ vTaskPlaceOnEventListRestricted
  \/ prvUnlockQueue
  \/ Expire
  \/ prvReloadTimer
  \/ Callback
  \/ prvSwitchTimerLists
  \/ ReceiveCommand
  \/ SampleForCommand
  \/ ProcessCommand

Environment ==
  \/ Tick
  \/ \E t \in Timers : xTimerCreate(t) \/ vTimerSetReloadMode(t)
  \/ \E c \in Clients :
       Prepare(c) \/ xTimerGenericCommandFromTask(c) \/ CommandFails(c)
  \/ xTimerGenericCommandFromISR

Next == (Daemon \/ Environment) /\ UNCHANGED application

Spec == Init /\ [][Next]_vars

-----------------------------------------------------------------------------

Command == [id : CommandIDs, timer : Timers, value : Nat, at : Nat]

TypeOK ==
  /\ application \in Applications
  /\ created \subseteq Timers
  /\ xTimerQueue \in Seq(Command)
  /\ Len(xTimerQueue) <= QueueLength
  /\ xMessage \in Command \union {NULL}
  /\ posting \in [Clients -> Command \union {NULL}]
  /\ lists \in Seq(Timers) \X Seq(Timers)
  /\ xItemValue \in [Timers -> 0..MAX_TIME]
  /\ xTimerPeriodInTicks \in [Timers -> Periods \union {0}]
  /\ ucStatus \in [Timers -> SUBSET Statuses]
  /\ xTickCount \in 0..MAX_TIME /\ xLastTime \in 0..MAX_TIME
  /\ base \in Nat /\ sampleBase \in Nat /\ since \in Nat
  /\ pc \in Labels /\ switching \in {"no", "query", "command"}
  /\ pxTimer \in Timers \union {NULL} /\ xExpiredTime \in 0..MAX_TIME
  /\ asleep \in BOOLEAN /\ wakeAt \in Nat \union {NULL}
  /\ cTxLock \in -1..QueueLength
  /\ due \in [Timers -> Nat]

(* Every timer is in the list it belongs in: the lists are in the order of  *)
(* the expiry times, no timer is in both, and an item value in the current  *)
(* list is a time before, one in the overflow list a time after the next    *)
(* overflow that the daemon has not seen yet.                               *)
ListBase == IF switching = "no" THEN sampleBase ELSE sampleBase - TickValues

NextDue(t) ==
  IF pc = "callback" /\ t = pxTimer THEN due[t] + xTimerPeriodInTicks[t] ELSE due[t]

TimersInTheirList ==
  /\ Sorted(pxCurrentTimerList, xItemValue) /\ NoDuplicates(pxCurrentTimerList)
  /\ Sorted(pxOverflowTimerList, xItemValue) /\ NoDuplicates(pxOverflowTimerList)
  /\ Items(pxCurrentTimerList) \intersect Items(pxOverflowTimerList) = {}
  /\ \A t \in Items(pxCurrentTimerList) : NextDue(t) = ListBase + xItemValue[t]
  /\ \A t \in Items(pxOverflowTimerList) :
       NextDue(t) = ListBase + TickValues + xItemValue[t]

(* No callback is called before its time, neither for an expiry nor for one *)
(* that is made up for.                                                     *)
NeverEarly == pc \in {"reload", "callback"} => due[pxTimer] <= Now

(* While the daemon sleeps there is no command to process, and it wakes at  *)
(* the latest when the next timer is due.                                   *)
DaemonSleepsUntilNextTimer ==
  asleep /\ cTxLock = queueUNLOCKED =>
    /\ xTimerQueue = <<>>
    /\ \A t \in Listed : wakeAt # NULL /\ Now < wakeAt /\ wakeAt <= due[t]

(* What xTimerIsTimerActive tells is true: but for the timer the daemon is  *)
(* working on, an active timer is in a list and any other, a deleted one in *)
(* particular, is not.                                                      *)
ActiveTimersAreListed ==
  \A t \in Timers :
    \/ t \in Listed <=> t \in created /\ "ACTIVE" \in ucStatus[t]
    \/ t = pxTimer
    \/ xMessage # NULL /\ xMessage.timer = t
=============================================================================

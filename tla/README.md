# EDF schedulers of FreeRTOS and RTEMS: TLA+ models, checks and proofs

The repository holds two earliest-deadline-first (EDF) schedulers and the
Frama-C/WP material that verifies functions of them one at a time:

- `source/freertos-edf-msp430`: a FreeRTOS kernel whose task selection was
  changed to EDF, for a one-core MSP430 with 16-bit ticks;
- `verification/5.1`, `verification/6.2`: the EDF scheduler of RTEMS, as overlays
  with contracts, ghost models and harnesses;
- `verification/freertos`: ghost models and reference versions of five functions
  of the FreeRTOS kernel.

WP proves what one function does between its entry and its exit. The modules
here are about what that leaves out: the interleavings of tasks, ticks and
interrupts between those functions, the windows between two critical sections
of one function, and what must hold, or happen, over many steps.

Lines below are of `src/source/freertos-edf-msp430/tasks.c` unless said otherwise.

## 1. Inventory

### FreeRTOS EDF kernel: `tasks.c`, `port.c`

State: the ready list (one list, ordered by deadline, in place of one list per
priority), two delayed lists (wake times before and after the next wrap of the
tick count), the suspended and the terminating list, event lists owned by queues
and `xPendingReadyList`; per task a deadline `xDeadline`, one item for the state
lists and one for the event lists; the tick count, `xNextTaskUnblockTime` (a
cached copy of the head of the delayed list), pended ticks, pended yields,
`uxSchedulerSuspended`, counts of tasks and of deleted tasks.

Operations: create, delete, suspend, resume, delay, delay until, catch up ticks,
suspend and resume all, wait on and signal event lists, tick, context switch,
idle task.

Interaction: one processor. The tick interrupt and device interrupts run between
two instructions of the current task unless it is in a critical section. Calls
that block suspend the scheduler first, so the tick is only counted and readied
tasks are parked until `xTaskResumeAll` replays both. A port without a yield
from interrupts leaves requested switches in `xYieldPendings` until the next
tick.

What is hard: windows between two critical sections of one call (`vTaskSuspend`,
`xTaskCreate`, `xTaskResumeAll` followed by `taskYIELD_WITHIN_API`); a cached
unblock time; tick counts and deadlines that wrap; list items ordered by a value
that may be stale; a task that deletes itself and goes on running for a while.

Correct when: every item is in one list at most; the delayed lists are ordered
and on the right side of the tick count; a sleeper wakes at exactly its time; no
tick is lost; the running task is one of the ready tasks with the earliest
deadline whenever no switch is due; counters agree with the lists; nobody waits
for ever.

### FreeRTOS services

| component | state | operations | what is hard |
| --- | --- | --- | --- |
| `list.c` | rings of items with an end marker, linked both ways, a count and an index per list | insert in order or at the end, remove, next entry | the writes of a call are interrupted by calls on other lists; the walk needs its end marker |
| `queue.c`, semaphores | ring of items, two event lists, two lock counts | send, receive, peek, from tasks and interrupts, unlock | lock counts replayed later, woken waiter finds it full or empty again, remaining timeout |
| `timers.c` | two timer lists, command queue | start, stop, change period, expiry | commands processed after the tick count wrapped |
| `event_groups.c` | bits, unordered event list | set, wait, sync, delete | setting bits while walking the list of waiters |
| task notifications (`tasks.c`) | per task a state and a value | wait, take, notify, clear | a notification between the look at the state and the decision to block |
| `stream_buffer.c` | ring of bytes, one reader, one writer | send, receive, reset | notification races the decision to block; reader and writer use the ring at once |
| `heap_4.c` | address-ordered free list | malloc, free | merging with both neighbours |
| `croutine.c` | - | - | compiled out in this configuration |

### RTEMS EDF scheduler, versions 5.1 and 6.2

State: a red-black tree of ready threads ordered by priority (a deadline below
the bit `SCHEDULER_EDF_PRIO_MSB`, a fixed priority above it), per thread an
aggregation of priority nodes (the real priority, one per released job,
inherited ones), `heir`, `executing`, `dispatch_necessary`; per rate-monotonic
period a state, a watchdog, a count of postponed jobs.

Operations: schedule, block, unblock, yield, change priority, release and
cancel a job, add, remove and change priority nodes, start, end and cancel a
period, timeout of a period.

What is hard: heir and tree must agree after every operation; a non-preemptible
executing thread; priorities with a group-order bit for "before equals"; the
timeout of a period racing the call that ends the job; jobs released late.

Correct when (`models/edf_property.h`): outside the scheduler the heir is a ready
thread with the least priority, unless the executing thread cannot be
pre-empted, and a dispatch is due whenever heir and executing differ.

### Ghost models and scripts

`verification/*/models` and `verification/freertos/model` hold predicates, no
program; those that speak about states between calls become properties here.
`scripts/` and `setup.sh` run Frama-C in containers.

## 2. Plan

In this order; all are done.

1. `FreeRTOSList`, `FreeRTOSKernel` and their theorems.
2. `RTEMSScheduler`: ready set, heir, dispatch, priorities with groups of
   version 6.2; theorem: `edf_scheduler_decision` holds whenever no update is
   outstanding.
3. `RTEMSPeriod`: the rate-monotonic periods on top of 2, `Spec` of
   `RTEMSScheduler` as the abstract specification they implement: postponed jobs,
   the race of timeout and call, who waits is woken; theorem: the refinement,
   and with it 2's theorems for the real callers.
4. `FreeRTOSQueue`: contents, locks, retries with the remaining time, against an
   abstract bounded queue (refinement); its event lists are those of 1.
5. `FreeRTOSTimers`: the daemon, its command queue and its two lists; theorem:
   the lists stand for their times, so no callback is early and none is forgotten.
6. `FreeRTOSNotification`, `FreeRTOSStreamBuffer` on top of it against an abstract
   stream of bytes (refinement), `FreeRTOSEventGroup` with its theorems.
7. `FreeRTOSHeap`: the free list against a set of allocated blocks (refinement);
   theorems: the blocks tile the heap, and a search that fails had no room.
8. RTEMS 5.1 as a value of a constant of 2 and 3, where it differs.
9. `FreeRTOSRing`: `list.c` with its pointers, write by write, shown to implement
   the ordered lists of 1.

## 3. Modules

### `OrderedSequences`

What both systems' lists have in common: the items of a sequence, no duplicates,
order by a key kept beside the sequence, taking an item out.

### `FreeRTOSList`

The lists of `list.c` as sequences in list order: `vListInsert` (behind all items
with a smaller or equal value), `vListInsertEnd`, `uxListRemove`. Values are kept
in a function beside the list, as `xItemValue` is kept in the item.
`vListInsert` has a special case for `portMAX_DELAY` (list.c): the item goes to
the end, which is what the general case does, too. No user of the kernel's lists
moves `pxIndex`, so "end" is the end.

### `OrderedLists`, `FreeRTOSRing`

Lines of `list.c` and `include/list.h`. `OrderedLists` has lists as those of
`FreeRTOSList`, and the item each list's walk has come to. `FreeRTOSRing` has the
pointers.

| action | code |
| --- | --- |
| `vListInsert`, `Walk`, `SetNext`, `SetPreviousOfNext`, `SetPrevious`, `SetNextOfNode` | `vListInsert`: the start and a round of the loop, the four writes of the links |
| `vListInsertEnd`, `SetNextToIndex`, `CopyPrevious`, `SetNextOfPrevious`, `SetPreviousOfIndex` | `vListInsertEnd` |
| `SetContainer`, `CountUp` | the end of both |
| `uxListRemove`, `UnlinkPrevious`, `UnlinkNext`, `MoveIndex`, `ClearContainer`, `CountDown` | `uxListRemove` |
| `listGET_OWNER_OF_NEXT_ENTRY`, `SkipEnd` | the macro, its two writes of `pxIndex` |
| `listINSERT_END`, `listREMOVE_ITEM` | the macros, whole: in critical sections and interrupts |
| `listSET_LIST_ITEM_VALUE` | same name |

`call[c]` is the call a caller is in, with its locals. Callers pre-empt each other
after every write, for most calls are made with interrupts enabled. `InUse` is
what the rest of the kernel guarantees: the list and the item of a call
under way are nobody else's. A queue's event lists are touched by interrupts only
while the queue is not locked, the timer lists only by the timer task, and a task
an interrupt readies while the scheduler is suspended waits by its event item in
`xPendingReadyList`. `contents` is no variable of the code: it is the order in
which a list's items are linked, changed by the one write that links or unlinks an
item for those who follow `pxNext`. Links that were never written are `NULL`.
`OrderedLists` is implemented at that write, so `ImplementsOrderedLists` has the
index where the call will put it when a removal is between unlinking the item and
moving the index away from it.

### `FreeRTOSKernel`

One action per kernel call, or per critical section of it where there are
several. `pc[t]` is where task t is inside its call: a task that is switched out
there continues from there. Only `pxCurrentTCB` takes steps; interrupts take
theirs in between (`mode = "task"`). A loop with interrupts masked takes a step
per iteration under a `mode` of its own.

| action | code |
| --- | --- |
| `MainCreate`, `CallCreate`, `prvAddNewTaskToReadyList` | `xTaskCreate`: `prvAddNewTaskToReadyList` before and after the start; the comparison with the new task is made outside the critical section and is an action of its own |
| `MainSuspend`, `CallSuspend`, `vTaskSuspend` | `vTaskSuspend`: first and second critical section |
| `vTaskStartScheduler` | idle task, first task, unblock time |
| `TickISR`, `TickWhileSuspended`, `UnblockTask`, `UnblockDone`, `TickReturn` | `vPortPreemptiveTickISR`, `xTaskIncrementTick`: head, loop, end |
| `CallSuspendAll`, `CallResumeAll`, `xTaskResumeAll`, `ResumePendingTask`, `ResumePendedTick`, `ResumeAllReturn` | `vTaskSuspendAll`, `xTaskResumeAll` and its two loops |
| `CallCatchUpTicks`, `xTaskCatchUpTicks` | `xTaskCatchUpTicks` |
| `CallDelay`, `vTaskDelay`, `CallDelayUntil`, `xTaskDelayUntil` | same names; `RefreshOnOverrun` chooses the version of tasks.c or that of `verification/freertos/reference/delay.c` |
| `CallWait`, `vTaskPlaceOnEventList`, `CallSignal`, `SignalFromISR` | the event lists as `queue.c` uses them |
| `vTaskResume`, `xTaskResumeFromISR` | same names |
| `DeleteSelf`, `DeleteOther`, `prvDeleteTCB`, `prvCheckTasksWaitingTermination` | `vTaskDelete` and the idle task |
| `vPortYield`, `IdleShouldYield` | `taskYIELD_WITHIN_API` and the idle task's yield |

A deletion leaves `xDeadline` and the item values as they are (they are freed
memory) and clears the locals; the one later read of freed memory,
`pxNewTCB->xDeadline` (2056), is a free choice of its outcome.

Assumed of the application, as task.h and queue.c demand it: no blocking call
with the scheduler suspended, no `xTaskResumeAll` without `vTaskSuspendAll`,
handles only of tasks that exist and have not deleted themselves,
`xPreviousWakeTime` set from the tick count before the first
`xTaskDelayUntil`. A device interrupt signals an event list only while no task
is between locking the queue and blocking on it: queue.c's lock count defers it.

`xPendedTicks` and `xPendedCounts` are `TickType_t` and wrap. A task that catches up
ticks while others are pended can exceed them, for `xTaskCatchUpTicks` checks
nothing: the code then drops a whole turn, replays only the rest, and
`xTickCount` shows nothing of it. `NoTickLost` exempts exactly those steps (of a
16-bit count: 65536 ticks or more pended at once); the run `kernel` takes them, with 1
pended and 3 caught up of 4, so that all its other properties hold across them too.

### `FreeRTOSKernelMC`

Which calls each task makes, and deadlines and periods, for each run.

### `RTEMSScheduler`

Lines of `src/verification/6.2/overlay/cpukit`, and of `src/verification/5.1` where
that version differs: `Version` says which of the two the program is. What the code
does with interrupts disabled is one action. A change of a priority has two such
parts: the first changes the aggregation and puts the thread on the update list of the caller's
`Thread_queue_Context`; the second, `_Thread_Priority_update`, brings the change
to the scheduler. Between them interrupts run, with a context of their own.

| variable | code |
| --- | --- |
| `ready`, `node_priority` | the red-black tree in its order; `Scheduler_EDF_Node.priority`, the key |
| `contributors`, `aggregate` | nodes of `Wait.Priority`; its own node, the cached minimum |
| `value` | `Scheduler_Node.Priority.value`: priority and group bit as two fields |
| `heir`, `executing`, `dispatch_necessary`, `current_state`, `is_preemptible` | same names |
| `updates` | `Priority.update` of the task's and the interrupt's queue context |
| `preempt_enabled` | a thread in `rtems_task_mode` before it calls `_Scheduler_Schedule` |

| action | code |
| --- | --- |
| `Set_state`, `Clear_state` | `_Thread_Set_state`, `_Thread_Clear_state` (external) with `_Scheduler_EDF_Block`, `_Scheduler_EDF_Unblock`: in 6.2 through `_Scheduler_uniprocessor_Block` and `_Unblock`, in 5.1 through `_Scheduler_Generic_block` and `_Scheduler_Update_heir` |
| `Yield` | `_Scheduler_Yield`, `_Scheduler_EDF_Yield` |
| `Set_preemptible`, `Schedule` | `rtems_task_mode` (external), `_Scheduler_EDF_Schedule` |
| `Release_job`, `Cancel_job` | `_Rate_monotonic_Release_job`, `_Rate_monotonic_Cancel` up to the release of the lock |
| `Release_job_from_ISR` | the same from `_Rate_monotonic_Timeout` (external) |
| `Set_priority` | `rtems_task_set_priority` (external) with `_Thread_Priority_changed` |
| `Thread_Priority_update` | an iteration of `_Thread_Priority_update` with `_Scheduler_EDF_Update_priority` |
| `Dispatch` | `_Thread_Get_heir_and_make_it_executing` |

The versions. In 6.2 a blocking thread gives up its place if it is the heir, in
5.1 also if it only executes: then a heir that cannot be pre-empted may lose its
place before it was ever dispatched, and `NotPreempted` allows that. In 5.1 an
unblocked thread more urgent than the heir takes its place by force if it has
the priority that stands for interrupts (`PRIORITY_PSEUDO_ISR`, 0); in 6.2 only a
heir that can be pre-empted gives way. No application thread has that priority,
which `ConstantsAssumption` says. Schedule, yield, priorities and dispatch are the
same: the flag `force_dispatch` of 5.1 became two functions.

Data. Fixed priorities are numbers from `MSB` on, deadlines numbers below it. The
group bit is a field of its own, so a key in the tree is a number and
`_Scheduler_EDF_Priority_less_equal` looks at the bit of the inserted key. The
states that keep a thread from running are two, one it puts itself in and one
another thread puts it in: two are enough for a thread that becomes ready only
when the last of them is cleared. Deadlines come from a finite set, in no order:
the scheduler never looks at the time.

Assumed of code outside the repository. `rtems_task_mode` sets the flag and then
calls `_Scheduler_Schedule`. `_Rate_monotonic_Timeout` releases a job only for an
owner that waits for the period or, ready, is just about to: it is the
executing thread then and in no other call. `RTEMSPeriod` derives this from the
wait flags. A thread makes no directive call
while the dispatch an interrupt asked for is due, for that dispatch is made on
the way out of the interrupt; the second part of a call already begun may see it.

`RTEMSSchedulerMC` has the instances: who owns which period.

### `RTEMSPeriod`

The callers of `Release_job`, `Cancel_job` and `Release_job_from_ISR`: the owner's
calls and the watchdog of each period, with what the scheduler does in the same
step. It extends `RTEMSScheduler`; `Spec` there is the abstract specification,
the mapping the identity on the scheduler's variables, and `ImplementsScheduler`
says that every step of a period is one the scheduler was checked and proved
for, or leaves the scheduler alone.

| variable | code |
| --- | --- |
| `state`, `postponed_jobs`, `latest_deadline` | fields of `Rate_monotonic_Control` |
| `scheduled`, `expire` | the watchdog `Timer`: whether it runs, and until when |
| `wait_flags`, `return_argument` | `Wait.flags`, `Wait.return_argument` of a thread |
| `section` | where the executing thread is in `_Rate_monotonic_Block_while_active` |
| `waking` | the thread a timeout has still to unblock after its update |

| action | code (`ratemonperiod.c` unless said otherwise) |
| --- | --- |
| `Activate` | `_Rate_monotonic_Activate`, with `_Rate_monotonic_Restart`; in 5.1 it forgets the postponed jobs |
| `Block_while_active` | up to the release of the lock (716) |
| `Set_waiting_for_period`, `Thread_Wait_flags_try_change`, `Unblock_executing` | the rest of it: 717, 719, 729 |
| `Block_while_expired` | a postponed job, for `EXPIRED` and for `ACTIVE` with jobs postponed |
| `Cancel` | `rtems_rate_monotonic_cancel` (ratemoncancel.c); in 6.2 it forgets the postponed jobs |
| `Timeout_restart`, `Timeout_unblock`, `Timeout_renew` | `_Rate_monotonic_Timeout` (external) |
| `OtherCall`, `OtherWakeup` | the actions of `RTEMSScheduler` that are not about periods |
| `Update`, `Dispatch_enabled` | as there, with dispatching disabled in the middle of a call |

`_Rate_monotonic_Timeout` is not in the repository, for either version. It is modelled from what the
code here relies on: the comment before `Wait.return_argument` is set (707), the
assertion that the flags are `THREAD_WAIT_STATE_READY` when the change of the flags
fails (725), the release of postponed jobs with `latest_deadline` (157), states
that say whether jobs are postponed (840). A step of the timeout runs with
interrupts of its own kind masked, and it is between its steps that its context
in `updates` may be non-empty.

A deadline is any member of `Deadlines`: the lengths of periods, their change with
`next_length` and the time are abstracted, so watchdogs may expire in any order
and any number of times between two steps. Statistics and the status call
(`RTEMS_PERIOD_STATUS`) change no other state and are left out.

`RTEMSPeriodMC` has the instances.

### `BoundedQueue`, `FreeRTOSQueue`

Lines of `queue.c`. `BoundedQueue` is what a queue promises: a bounded sequence,
sent to at either end, received or peeked from the front, overwritten if it has
one place, emptied. `FreeRTOSQueue` is the code: the ring with a write and a read
position, the two event lists, the two lock counts, and the loop of the blocking
calls. `ImplementsQueue` maps the ring to the sequence of the messages from the
read position on.

| `pc[t]` | where task t is in the loop of send, receive, take or peek |
| --- | --- |
| `attempt` | first critical section: `xQueueGenericSend`, `xQueueReceive`, `xQueueSemaphoreTake`, `xQueuePeek`; done, given up, or `lock` |
| `lock` | `prvLockQueue`: `vTaskSuspendAll`, the lock counts, `xTaskCheckForTimeOut` |
| `checkState` | `prvIsQueueFull` or `prvIsQueueEmpty`, a critical section of its own |
| `place` | `vTaskPlaceOnEventList` |
| `unlockTx`, `unlockRx` | the two critical sections of `prvUnlockQueue`, the second with `xTaskResumeAll` |
| `timedOut` | the last look of a receiver whose time is over |

Each critical section is a step, and between two of them interrupts send, give
and receive. Other tasks run there, too, unless the task has suspended the
scheduler: which of the ready tasks is not the queue's concern, so any may, and
what holds here holds for EDF. `asleep` and `wakeTime` are what is left of the
kernel of `FreeRTOSKernel`: a task that was placed is asleep until an event or its
time wakes it, and a tick is not over before all whose time has come are woken.
Ticks while the scheduler is suspended are pended there and come after it here.
`remaining` is no variable of the code: it counts the ticks that are left of a
call's timeout from when it first found the queue full or empty.

A semaphore is a queue with items of size 0, all alike. `buffer` is what was
copied to any receiver last; a message is a model value. `Kinds` says which
queues there are and which calls are made on them; the assertions of queue.c are
its assumptions (a queue that is overwritten has one place, only a semaphore is
taken and given).

`MaxLate` bounds how many ticks after the end of its timeout a task gets to run.
Without a bound a task kept from running for long enough would take a long time
for a short one, for `TickType_t` wraps (section 5).

`FreeRTOSQueueMC` has the kinds.

### `FreeRTOSTimers`

`timers.c`. Tasks and interrupts post commands; the timer task alone touches the
two lists of timers, one for the expiry times before the tick count overflows,
one for those after. `pc` is where the timer task is in its loop.

| action | code |
| --- | --- |
| `xTimerCreate`, `vTimerSetReloadMode` | same names |
| `Prepare`, `xTimerGenericCommandFromTask`, `CommandFails` | a task reads the tick count, later posts the command or has waited for room in vain |
| `xTimerGenericCommandFromISR` | the same from an interrupt or a callback |
| `prvProcessTimerOrBlockTask` | `prvGetNextExpireTime` and the decision to expire, to wait or to switch lists |
| `WaitForMessage`, `vTaskPlaceOnEventListRestricted`, `prvUnlockQueue` | `vQueueWaitForMessageRestricted`, with the queue's lock count |
| `Expire`, `prvReloadTimer`, `Callback` | `prvProcessExpiredTimer`; a round of the reload loop; the callback's return |
| `prvSwitchTimerLists` | a round of its loop, and the switch |
| `ReceiveCommand`, `SampleForCommand`, `ProcessCommand` | `prvProcessReceivedCommands`: the command is taken, the time is sampled after that, the command is carried out (`Start`, `Stop`, `ChangePeriod`, `Delete`) |
| `Tick` | the tick, with the wake-up of the timer task |

`base`, `sampleBase`, `since` and `due` are no variables of the code: they keep
the time that does not wrap, to say what the wrapped one stands for.

Assumed. No command is posted to a timer after its deletion (the handle is
invalid then). The timer task changes `ucStatus` outside of a critical section
with one instruction (MSP430: `bic.b`, `bis.b`). `MaxLate` bounds how many ticks
the timer task and the sender of a start are held up, and a period and that
lateness are less than a turn of the tick count (`ConstantsAssumption`): a timer
task that is later takes an overflow for none.

### `FreeRTOSNotification`

The state and the value of each task (`configTASK_NOTIFICATION_ARRAY_ENTRIES` is
1). Of the kernel there is what the calls use: who is ready, blocked or suspended,
who has suspended the scheduler, and `xPendingReadyList`. Any ready task may run.

| action | code |
| --- | --- |
| `CallWait`, `MarkWaiting`, `AddToDelayedList`, `ResumeAll`, `FinishWait` | `xTaskGenericNotifyWait`, `ulTaskGenericNotifyTake`: first look and `vTaskSuspendAll`, critical section, `prvAddCurrentTaskToDelayedList`, `xTaskResumeAll`, last critical section |
| `CallNotify`, `InterruptNotifies` | `xTaskGenericNotify`; `xTaskGenericNotifyFromISR`, `vTaskGenericNotifyGiveFromISR` |
| `xTaskGenericNotifyStateClear`, `ulTaskGenericNotifyValueClear` | same names |
| `vTaskSuspend`, `vTaskResume`, `xTaskResumeFromISR` | what they do to a task that waits for a notification: it waits no more; `prvTaskIsTaskSuspended` tells a suspended task from one that waits for ever |
| `TimeOut` | the tick |

### `ByteStream`, `FreeRTOSStreamBuffer`

`ByteStream` is the promise of stream_buffer.h and message_buffer.h: what comes
out is what went in, in order, messages whole. `FreeRTOSStreamBuffer` extends
`FreeRTOSNotification` with `stream_buffer.c`; what a task waits with is the wait
there, step by step, and the application may send notifications of its own.

| action | code |
| --- | --- |
| `CallSend`, `CheckSpace`, `WaitToSend`, `SendWoken` | the loop of `xStreamBufferSend` |
| `WriteMessage`, `PublishHead` | `prvWriteMessageToBuffer`: bytes are copied, then `xHead` is written |
| `Sent`, `SendCompleted` | the check of the trigger level, `prvSEND_COMPLETED` |
| `CallReceive`, `WaitToReceive`, `ReceiveWoken` | `xStreamBufferReceive` up to its second look |
| `ReadMessage`, `ConsumeTail`, `ReceiveCompleted` | `prvReadMessageFromBuffer`, `xTail`, `prvRECEIVE_COMPLETED` |
| `xStreamBufferSendFromISR`, `xStreamBufferReceiveFromISR` | same names |
| `xStreamBufferReset`, `xStreamBufferSetTriggerLevel` | same names |

The length before a message is one cell of the ring. Assumed, as
stream_buffer.h demands: one writer and one reader; further that nobody is copying
while the buffer is reset, the trigger level is changed only while no reader
waits, and nothing of length 0 is sent.

### `FreeRTOSEventGroup`

`event_groups.c`. What is done with the scheduler suspended, or in a critical
section, is a step; a task that was woken or timed out goes on in a later one
(`Return`), where it looks at the bits again if it timed out.

| action | code |
| --- | --- |
| `xEventGroupCreate`, `vEventGroupDelete` | same names; deletion wakes all with no bits |
| `xEventGroupSetBits`, `xEventGroupClearBits` | same names: the walk over the unordered list wakes every task whose condition holds, and clears the bits those asked for after the walk |
| `xEventGroupWaitBits`, `xEventGroupSync` | same names up to the block |
| `TimeOut`, `ReturnAtOnce`, `Return` | the tick; a wait of 0 ticks; the end of the two calls |
| `Rendezvous` | `xEventGroupSync` by tasks that do nothing else and wait for ever, one per bit |

`arrivals` and `returns` count, in the rendezvous, the rounds each task has begun
and ended. Assumed: a group is deleted only when no task that timed out is still
about to look at its bits.

### `MemoryAllocator`, `FreeRTOSHeap`

`heap_4.c`. `MemoryAllocator` is the promise: memory handed out is aligned, of the
size asked for, and nobody else's. `FreeRTOSHeap` has the free list with its
addresses and sizes as in the code, numbers of the width of `size_t`.

| action | code |
| --- | --- |
| `pvPortMalloc`, `pvPortCalloc` | same names up to the loop of `pvPortMalloc`, with `prvHeapInit` at the first call and the overflow checks; a request that is refused before the loop changes nothing else |
| `SearchOn` | a round of that loop |
| `Take`, `NotFound` | what follows it: the block is unlinked, split if that is worth it, and counted; or the search has come to `pxEnd` |
| `vPortFree`, `InsertFreedBlock` | `vPortFree` up to `vTaskSuspendAll`, and from there up to the loop of `prvInsertBlockIntoFreeList`; other tasks run between the two |
| `IterateOn` | a round of that loop |
| `prvInsertBlockIntoFreeList` | the rest of it: merging with the neighbours, linking |
| `vPortHeapResetState`, `xPortResetHeapMinimumEverFreeHeapSize` | same names |

`position`, `xWantedSize`, `asked` and `pxBlockToInsert` are what a call has in its locals
while it walks along the links. It has the scheduler suspended, so there is
one walk at a time, and no other call begins before it ends (`walk = "none"`). A round
of a loop is a step of its own, so that a walk needs no recursive definition
and an invariant can say what a walk has seen so far.

The linker may put `ucHeap` at an odd address (`HeapAddresses`). An application
frees only what it was given, once.

The `MC` module of each has its instances.

## 4. Runs

| run | instance | shows |
| --- | --- | --- |
| `lists` | 2 callers that pre-empt each other and interrupts; 3 items, an ordered and an unordered list, 2 values, one of them that of the end marker | `ListInv`, `WalksAdvance`, `ImplementsOrderedLists` |
| `kernel` | 2 tasks created before and after the start, that delete, suspend and resume themselves and each other, sleep and wait for an event; 2-bit ticks, nesting 2, 1 pended tick, interrupts that signal and resume | `ListDiscipline`, `DelayedListsValid`, `WaitersAreBlocked`, `DeletedTasksAreFreed`, `EDFProperty` (P3), `WakesExactlyOnTime`, `NoTickLost` |
| `kernel_live` | a periodic task that suspends the scheduler, with one that sleeps and waits; 3-bit ticks, refreshing `xTaskDelayUntil`, fairness | `ReadyListDeadlineMatches` (P1), `SwitchesToEarliest`, `DelayEnds`, `InterruptsAreHonoured` |
| `overrun` | 2 periodic tasks with tasks.c's `xTaskDelayUntil`, 2 pended ticks | violates `EDFProperty` |
| `rtems_scheduler` | version 5.1: 3 threads of one priority, one with two periods, 2 deadlines, a second fixed priority | `ReadyTreeWellFormed`, `PrioritiesTakeEffect`, `EDFDecision`, `NotPreempted` |
| `rtems_periods` | version 6.2: 2 threads, the one with two periods the less urgent while it has no job, 2 deadlines, count up to 2, fairness | `PeriodsConsistent`, `NobodyWaitsInVain`, `ImplementsScheduler`, `PeriodEnds` |
| `rtems_yield` | version 6.2: 2 threads with a period each | violates `YieldTransfersControl` |
| `queue` | 2 tasks; a queue of 2 places, one with resets, a mailbox, a semaphore with timeouts of 2 ticks | `TimeoutIsGenuine`, `SleepsForTheRest`, `WaitersAreWoken`, `ImplementsQueue` |
| `timers` | one timer, static or dynamic, with every command from a task or an interrupt, or two that interrupts start and stop; 2-bit ticks over two overflows, 1 tick late | `TimersInTheirList`, `NeverEarly`, `DaemonSleepsUntilNextTimer`, `ActiveTimersAreListed` |
| `heap` | 24 bytes at an aligned or an odd address, 6-bit `size_t`, 2 tasks, sizes from 0 to `SIZE_MAX` | `BlocksTileTheHeap`, `FailsOnlyWithoutRoom`, `ImplementsAllocator` |
| `events` | 3 tasks and bits: waits of every kind with deletion, or a rendezvous | `NobodyWaitsForSetBits`, `WokenWithTheirBits`, `RendezvousIsComplete` |
| `streams` | 2 tasks, or a task and an interrupt, with a stream, batching or message buffer; notifications alone with all actions | `TypeOK`, `NoNotificationIsMissed`, `WaitersAreTold`, `ImplementsByteStream` |

Bounds. Three items make a list with an item in front of, behind and between others,
or leave one for the other list; two lists let two calls be under way at once, or a
call and an interrupt. The callers are alike, hence `SYMMETRY` in `lists`, which
has no liveness. Two tasks and the idle task suffice for every race between a task, its
neighbour in a list and the interrupts: one creates, deletes and resumes the
other, and a deadline of `MaxDelay` ties with the idle task. Tick counts wrap
after 4 or 8 ticks, so every run wraps again and again; the tick count is not
bounded, it only wraps. `MaxNesting` bounds nested `vTaskSuspendAll` and
`MaxPended` the ticks pended; with 2 both the nested and the outermost resume, and
the replay of several ticks, occur. `xNumOfOverflows` counts modulo
`NumOverflows`; nothing in this model reads it. Without a bound
`uxCurrentNumberOfTasks` and `uxDeletedTasksWaitingCleanUp` are bounded by the
number of tasks. For the scheduler of RTEMS three threads and the idle task give a
heir, a ready thread that is not, and one that wakes in between; two jobs of one
thread let an aggregation lose its least node, lose another, and keep two nodes of
equal deadline. The other two threads are interchangeable in that instance, hence
`SYMMETRY`. Nothing is bounded beyond the constants. That instance has version 5.1, whose
blocking is the more involved; the periods and the yield have 6.2, and the proofs
are for both. For the periods two of them
with one owner let a watchdog expire while the owner waits for the other period,
or is about to; two threads let an owner be pre-empted in a call and interrupts
ready another thread between the steps. `MaxPostponed` stands for `UINT32_MAX`:
with 2 the count reaches its limit and stays, and is used up again. Two deadlines
tell the latest postponed one from the last released. For the queue two tasks and
the interrupts give two waiters and one that sends or receives beside them; one
task stands before the other in the event lists whoever came first, so a task may
be woken before it has left its own `prvUnlockQueue`. All messages are alike, hence
`SYMMETRY`. Two places
tell the ends of the ring apart and let it fill and wrap. The lock counts are
capped at the number of tasks, as in the code. Timeouts are 0, 2 ticks or for
ever, with a 2-bit tick count and `xNumOfOverflows` modulo 2: a timeout of 2 can
be interrupted after one tick, and a task 1 tick late (`MaxLate`) still is within
one wrap. The semaphore is the kind with timeouts, for the loop does not depend on
what is queued. For the timers two overflows (`MaxNow` is two turns of the tick
count) let a timer be put into the overflow list, be switched, and be put there
again. Periods of 1 and 2 with 1 tick of lateness let an expiry be missed, be
passed over an overflow, and two timers expire at different times; a queue of one
command makes senders wait. Commands beyond that only lengthen what the timer task
does between two waits. For the heap 24 bytes with links of 2 hold up to six
blocks of the least size, so that a freed block has a free neighbour on either
side, on both or on none, and a remainder is too small to split; 6 bits let a size
overflow with its header, with its rounding, or as a product. The tasks are
interchangeable. For the event group three bits let a task wait for any or all of
two while a third is set or not, and three tasks let one set bits for two at once.
For the stream buffers rings of 3 to 5 cells with data of 1 or 2 bytes let xHead
and xTail wrap at every offset, and the buffer be full, empty, and just short of a
message; trigger levels of 1 and 2 tell reached from passed. Two bytes tell
order and length; no step looks at a byte. A reader that waits
for ever for a trigger level the writer has no room to reach waits as the writer
does, hence `CHECK_DEADLOCK FALSE`; `WaitersAreTold` says that there is no other
such case.

Fairness (`FairSpec`). Code inside a kernel call goes on when it is the current
task's: weak fairness of `Continue(t)`, of the masked loops and of the idle loop.
Tick interrupts are latched by hardware while masked: strong fairness of
`TickISR`. A task that suspended the scheduler resumes it (task.h demands it):
weak fairness of `CallResumeAll`. Nothing is assumed of the other calls or of
device interrupts.

`FairPeriodSpec`: what has begun goes on, that is, steps of a call with dispatching
disabled, of a timeout, of an update, and a dispatch that is due: weak fairness
of `Proceed`. A running watchdog expires some time, at a later tick when interrupts
are masked at this one: strong fairness of `Timeout(j)`. Nothing is assumed of what
threads call or when.

Findings. `overrun`: on an overrun tasks.c changes `xDeadline` of a task that
stays in the ready list under its old value; the reference of the verification
re-links the item. `rtems_yield`: `_Scheduler_EDF_Yield` re-inserts the thread with a key
without the group bit, that is, in front of its equals, so it remains the heir.
Each is quoted with its
line in `PROJECT.json`. One more was met and has no run: by its comment,
`vTaskPlaceOnEventList` (tasks.c:4919) keeps the waiters in the order of priority,
but an event item keeps the deadline its task was created with. `FreeRTOSKernel` has
the list so, and claims nothing of which periodic task is woken first.

## 5. Proofs

For all constants that satisfy the assumptions of their module: any set of tasks
and event objects, any calls, any width of `TickType_t`.

`OrderedSequencesTheorems`: what insertion, appending and removal do to the items, to
freedom from duplicates and to the order of a list, and that the search for a place
stops. The modules of those who use `FreeRTOSList` cite it as `ListInsertProperties`
and `ListRemoveProperties`.

`FreeRTOSRingTheorems` proves, for any callers, items, lists and values, every
property of the run `lists`: `TypeCorrect`, `ListsAreProper` (`ListInv`), `WalksEnd`
(`WalksAdvance`), `ListsAreImplemented` (`ImplementsOrderedLists`). In the middle of a
call its list is no proper ring, so `IInv` says for every place in every call how far
it is:

- `Disjoint`, `Apart`: no item is in two lists, and calls under way have lists and
  items of their own;
- `QuietList`, `QuietItem`: a list nobody uses is a ring with its count and index,
  an item nobody uses has its list as container;
- `HeadOK`: in a list in use every node but one, `Open`, is pointed back to by the
  node behind it, the count is right or off by the call's one item, and the index may
  be at an item that is being taken out;
- `InsertOK`, `AppendOK`, `RemoveOK`: what a call has in its locals and has written
  into its item. The values up to the node a walk has come to are not larger, the one
  behind it is, and so the list stays in order when the item is linked; the walk of
  an item with the value of the end marker never begins, so a walk ends at the marker.

`LinkKeepsRing` and `UnlinkKeepsRing` are the writes that change the ring, seen from
the sequence; `CallerStep` and `WholeStep` are the frame: a step on one list and one
item leaves all other lists, items and calls as they were, so each action
only looks at its own. In the refinement each call is the abstract step at the write
that links or unlinks the item; `IndexIsRight` is what the index of the abstract list
is in the middle of a removal or a walk.

`FreeRTOSKernelTheorems` proves every safety property of the kernel's runs, for any
tasks, event objects, calls and width of `TickType_t`:

- `TypeCorrect`: `Spec => []TypeOK`. The types are not for free: `Head` of an empty
  list and a decrement at zero are outside them. So the theorem includes that
  there is always a ready task to select, that `xTaskResumeAll` only decrements a
  positive count and that its loop only looks at a non-empty list.
- `DelayedListsAreValid`: `Spec => []DelayedListsValid`, which includes the
  `configASSERT` of `taskSWITCH_DELAYED_LISTS`.
- `ReadyListIsInDeadlineOrder` (P1), `RunningTaskIsEarliest` (P3) and
  `EverySwitchIsToTheEarliest`, assuming `OverrunsKeepOrder`: no task calls
  `xTaskDelayUntil`, or its item is linked anew as `reference/delay.c` does. Without
  the assumption P3 is false, which the run `overrun` shows.
- `ListItemsAreLinkedOnce` (`ListDiscipline`), `OnlyBlockedTasksWait`
  (`WaitersAreBlocked`), `DeletedTasksDoNotRun` (`DeletedTasksAreFreed`),
  `TasksWakeOnTime` (`WakesExactlyOnTime`), `TicksAreCountedOnce` (`NoTickLost`).

The inductive invariant `IInv` adds to `TypeOK`:

- `StateListsOK`, `Disjoint`: no state item is in two places. Needed since removal
  takes an item out once and insertion adds it elsewhere.
- `MainInv`: before the start all tasks are ready or suspended and are counted;
  this is why `vTaskSuspend` finds another task unless all are suspended.
- `IdleInv`: the idle task is always in the ready list.
- `SuspendInv`: a task inside a call that suspended the scheduler is the current
  one, and the scheduler is suspended, or being resumed, as long as it is.
- `DelayListsInv`: order and sides of the delayed lists, in the middle of the
  tick's loop too, where the head may be due and `xNextTaskUnblockTime` stale.
- `ArgsInv`: a task about to block has a positive timeout. A timeout of 0 would
  put a task with wake time "now" into the list just after the tick looked.

The proof of `NextInv` has three parts: `TypeStep` (types), `FlowStep` (who is
where in which call) and `ListsStep` (the lists), each with a lemma per group of
actions and a step per action.

On `IInv` rest the invariants of the other theorems:

- `CurrentInv`: the current task is ready unless it is `Leaving`, about to yield
  or to block and yield; the calls that block suspend the scheduler exactly once
  (`NestInv`); who runs the tick's and `xTaskResumeAll`'s loops (`LoopInv`).
- `EDFInv`: the order of the ready list, and `RunInv`: the current task has no
  later deadline than any ready task but the one it has just created, or a switch
  is noted, or it leaves. A step that readies a task therefore has to compare the
  two or note the switch; `RunCompared` is the lemma for the first,
  `SwitchToEarliest` for a step that switches.
- `EventsOK`, `CountInv`: event items are in one list and their tasks blocked; the
  counters are the length of the list of terminating tasks and the number of
  tasks that exist. One lemma, `TaskMoved`, covers every step that moves a task:
  it leaves its event list, or had none, or stays blocked.
- `PendingInv`, `PendedInv`: tasks and ticks are pended only with the scheduler
  suspended or in the loops of `xTaskResumeAll`. `NoTickLost` counts plain numbers
  (`TicksGained`), by which a dropped turn of the tick count shows; `NextTick`,
  `MoreTicks` are the arithmetic of one step in a `TickType_t` of any width.

`RTEMSTheorems` proves of the scheduler, for both versions and any threads, periods,
priorities and deadlines, every property of the run `rtems_scheduler`: `TypeCorrect`,
`ReadyTreeIsWellFormed`, `PrioritiesAreKept` (the cached minimum is the minimum,
and no change of it is lost on the way to the scheduler), `HeirIsEDF`,
`NonPreemptibleStays`. What the versions share in blocking is `BlockStep` (the heir is in
the tree afterwards, and if it changed it is the first of it), where they differ
`BlockReplacesHeir` (whose blocking may change it). The inductive invariant is the conjunction of

- `Aggregations`: the cached minimum is the minimum, and the scheduler node has it;
- `Scheduling`: the tree is in the order of its keys, and the heir is in it;
- `ThreadsOK`: the tree holds exactly the ready threads, the idle thread always;
- `NoUpdateIsLost`: a key out of date has its update coming;
- `HeirInv`: when no key is out of date and nobody is about to call the
  scheduler for having enabled pre-emption, a heir that can be pre-empted has
  the least key;
- `DispatchIsDue`: heir and executing thread differ only with a dispatch due.

`EDFDecision` itself is not inductive: it says nothing while updates are
outstanding, and `_Scheduler_EDF_Unblock` compares with the heir's new priority
while the tree may still have its old key. `HeirInv` asks for less, that keys be
true, which each `_Thread_Priority_update` establishes by electing the first of
the tree and which the last one turns into `EDFDecision` by `NoUpdateIsLost`. The
lemmas come in layers: the tree (`EnqueueProperties`, `ExtractProperties`), the
scheduler's operations (`BlockStep`, `UnblockStep`, `YieldStep`,
`UpdatePriorityStep`), aggregations (`AddStep`, `ChangedStep`, `RemoveStep`), and
a lemma per action up to `NextInv`.

The second half of the module extends that to the periods, for both versions, any threads, any
assignment of periods to them, any deadlines and any limit of the count.

- `PeriodsImplementScheduler`: `PeriodSpec => ImplementsScheduler`, and so
  `PeriodsAreEDF`: `EDFDecision` holds with the real callers.
- `PeriodTypeCorrect`, `WaitsAreTimed`, `PeriodsAgree`: `PeriodTypeOK`,
  `NobodyWaitsInVain`, `PeriodsConsistent`.

The refinement is no matter of shape: `Release_job_from_ISR` is only enabled for
a blocked owner or one that is executing with no update of its own outstanding,
while `Timeout_restart` looks at nothing but the wait flags. `PInv` makes the
link, together with `IInv` of the scheduler:

- `WaitsOK`: `INTEND_TO_BLOCK` is only found on the executing thread between two
  steps of its call, `BLOCKED` only on a thread with the blocking state, and each
  names a period of that thread whose watchdog runs;
- `SectionOK`: in the middle of the call the thread executes with no update
  outstanding, and is blocked from `Set_waiting_for_period` on;
- `JobsOK`: counts agree with states, and a postponed deadline is a deadline.

For `PeriodsConsistent` there is `TInv` on top of it: `JobsTimed` (job, watchdog
and state agree) and `WaitersAreInTime`, without which it is not inductive:
nobody waits for a period with jobs postponed. If somebody did, the timeout would
release the job with the next deadline but leave the count, and `latest_deadline`
would fall behind the watchdog. The code has it so because only a period without
postponed jobs lets its owner block, and only the timeout counts them, which for
an owner that waits does not.

`FreeRTOSQueueTheorems` proves, for any tasks, messages and kinds of queue,

- `TypeCorrect`: `Spec => []TypeOK`;
- `QueueIsImplemented`: `Spec => ImplementsQueue`, for rings of any length;
- `TimeoutsAreGenuine`: `Spec => []TimeoutIsGenuine`;
- `SleepsAreRight`: `Spec => []SleepsForTheRest`, assuming `NeverTooLate`;
- `NoWakeUpIsLost`: `Spec => []WaitersAreWoken`, whatever order the event lists have.

The inductive invariant `IInv` is `TypeOK` in parts with

- `RingOK`: the write position is the place after the last message, that is, the
  place of the first when the queue is full. The code never compares the two
  positions; only `uxMessagesWaiting` tells a full ring from an empty one, and a
  send to the front of a full ring would break this;
- `Locked`: a task between `prvLockQueue` and `prvUnlockQueue` has suspended the
  scheduler and both locks are counts, so that no wake-up is replayed -1 times;
- `Legal`: a task that checks for a timeout has a time of entering, and its call
  is one the kind of queue allows: only a semaphore is taken, only a mailbox is
  overwritten.

The proof sorts what a step does to what is stored into five kinds (`StoreStep`:
send, receive, peek, reset, nothing), shows that each action is of one kind
(`StoreChanges`) and that each kind keeps `RingOK` and is a step of the abstract
queue or a stutter (`StoreRefines`). `ContentFacts` and `IsAppend`, `IsPrepend`,
`IsTail` carry the ring over to the sequence.

The theorems on timeouts: the code sees the tick count modulo its width
and whether `xNumOfOverflows` differs. `TimeInv` bounds what is left (`remaining`)
by what the code sees; this holds however late a task is, so no call ends early.
The other direction needs `NeverTooLate`, a timeout and the lateness together
within the width of the tick count: a task kept from running for longer can find
a tick count just before its time of entering, two wraps later, and sleeps again
for what seems left. With `MaxLate` at the width TLC finds that; the run and the
theorem exclude it.

`WaitersAreWoken` speaks of an unlocked queue. At every moment, and so through a
step, holds `Covers`: for receivers, if one waits or has found the queue empty under
the lock and is about to be placed, the messages are at most the woken receivers
that have yet to look plus `Pending(cTxLock)`, the wake-ups the lock count stands
for. When the count is at its limit it says nothing more, but the limit is above
the number of tasks (`ListLength`), so unlocking then wakes all. Each step changes
the sum in one of six ways, the lemmas `CoversKept` to `CoversUnlocked`. They need to
know who is woken: `ListsInv`, a task in a list sleeps, is there once and makes a call
of that kind; `AwaitInv`, it has time left and began to wait, so a woken one looks
again and does not return. Only a task that unlocks may be in a list and not yet
at its next attempt; an interrupt may wake it there (`WokenJoin`).

`FreeRTOSTimersTheorems` proves, for any timers, periods, applications, width of
the tick count and lateness that satisfy `ConstantsAssumption`, every property of
the run `timers`: `TypeCorrect`, `ListsStandForTheirTimes` (`TimersInTheirList`),
`CallbacksAreNotEarly` (`NeverEarly`), `DaemonWakesInTime`
(`DaemonSleepsUntilNextTimer`), `StatusIsTrue` (`ActiveTimersAreListed`).

The difficulty is that the code has only wrapped times and two lists, and works
while it is late. `IInv` says, apart from types (`TypeInv`), which labels and
timers go together (`ControlInv`) and who holds the queue's lock (`LockInv`):

- `MessagesInv`: a start in the queue, in a task's hands or being processed bears
  the tick count of its call, at most `MaxLate` ago;
- `SampledInv`: the time sampled for a start is not before its call;
- `DeleteInv`, `CreatedInv`: a timer about to be deleted is in no later command;
- `ListsInv`: both lists are sorted, disjoint and free of duplicates;
- `DueInv`: a timer is due at its item value counted from the start of the turn its
  list stands for, and at most the longest period after the last sample;
- `ExpiredInv`: the timer being processed was due by the last sample;
- `TimeInv`: an awake timer task is at most `MaxLate` late, and at most one overflow
  lies between the sample and now while there are timers in the lists; it is
  what lets one comparison of tick counts detect the overflow;
- `SleepInv`: one that is asleep wakes no later than any timer is due;
- `StatusInv`: a timer that is in a list, or about to be put there, is `ACTIVE`.

The key lemma is that `Destination`, which compares wrapped numbers, chooses
"processNow", "current" or "overflow" as the true times say, for starts, reloads
and during the switch of the lists; it needs the bound on period plus lateness.

`FreeRTOSServicesTheorems` proves of event groups, for any tasks, bits and applications,
`TypeCorrect`, `NobodyWaitsForWhatIsSet`, `WokenTasksHaveTheirBits` and
`RendezvousHolds`. `ItemsInv`: the item of a task in the list says what it waits
for; the item of one that was woken bears bits that satisfy its wait, unless the
group was deleted. `RoundsInv`: in a rendezvous the bits that are set are those of
the tasks in the list, never all of them, and these have begun one round more than
the others; the bits are complete only within the step of the last one, which wakes
the others and clears them.

`FreeRTOSStreamBufferTheorems` proves, for any tasks, bytes, rings, widths of a
notification's value and applications, every property of the run `streams`. The
inductive invariant has two halves.

- `NotificationInv`, on which `NotificationsArrive` (`NoNotificationIsMissed`) rests,
  is about `FreeRTOSNotification` alone and says where each task is (`WaitInv`): the
  scheduler is suspended from a task's first look until it is in its list and its call
  of `xTaskResumeAll`; a task marked as waiting is on its way into the list, or in it,
  and in no other; one that is in a list is marked, or pended by an interrupt that
  cleared the mark. The property itself is not inductive: it says nothing of a task
  between mark and list, where an interrupt comes in with the task neither blocked nor
  told. An interrupt finds `taskWAITING` and readies a task that is still
  running; what saves it is that it is put into `xPendingReadyList`, which is worked
  off only after the task has put itself into the delayed list.
- `StreamInv`: `RolesInv`, `RegisteredInv` (who is in which call, and that what is
  registered is the side that waits), `WriterInv` (the space the writer saw is still
  there, and what it has copied is behind `xHead` and fits), `ReadInv`, `ConsumeInv`
  (what the reader saw and copied is what the ring has), and for a message buffer
  `Boundaries`: the lengths found by going from message to message end exactly at
  `xHead`. Without the last a reader could take bytes for a length. It names the set of
  places where messages begin rather than a recursion along them, so adding a message
  adds a member (`MessageAdded`) and taking one shifts the rest (`MessageTaken`).
  `WaitersAreTold` is a part of it and inductive with the others.

`Refinement` (`ImplementsByteStream`): `Content` is the stream. It grows only when
`xHead` is written and shrinks only when `xTail` is (`Comes`, `Goes`, the latter with
what the reader was given); every other step leaves it alone, the copying included,
for the cells written are outside of it (`WriteMessageInv`). `PromiseSend`,
`PromiseReceive` and `PromiseStep` map the steps. The lemmas on `%` (`Wrapped` to
`RingOffsets`) carry positions in the ring to positions in the sequence. Values of
notifications are sets of bits in the model, so that `++` and `- 1` need no recursion;
`ValuesAreNumbers` has TLC check that they are the successor and the predecessor.

The second half of `FreeRTOSServicesTheorems` is about the heap, for any tasks,
requests, alignment, size of a `BlockLink_t`, width of `size_t`, and any heap that
satisfies `HeapAssumption`: it has room for three headers, else `prvHeapInit` would put
`pxEnd` before or onto the first block, and its size leaves the top bit of a `size_t` free,
where the code keeps the owner's bit. It proves every property of the run
`heap`: `HeapIsTiled` (`BlocksTileTheHeap`), `AllocationsFailOnlyWithoutRoom`
(`FailsOnlyWithoutRoom`), `HeapRefinement` (`ImplementsAllocator`). The inductive
invariant `HeapInv` consists of

- `HeapTypeOK`; `NotYetInv`: before `prvHeapInit` nothing is owned or freed;
- `Tiles`: a row of blocks, each aligned, of positive aligned size, none reaching into
  a later one, together covering the heap. It is about a set of blocks, so that
  splitting (`TilesSplit`) and joining (`TilesJoin`) each change one or two members
  and no induction along the row is needed;
- `OwnersInv`: no block has two owners, is owned and free, or is in two frees, and
  an owner's block has room for what was asked;
- `LinksInv`: `Linked`, every link leads to the next free address, which says what an
  induction along the list would (`LinkedWithout` and `LinkedWith` take a block out of
  it and put one in), and `Merged`, no free block begins where another ends;
- `CountInv`: `xFreeBytesRemaining` is the number of free bytes, and of those of the
  block that is being inserted (`BytesAdded`, `BytesJoined`);
- `WalkInv`: a search has passed only blocks that are too small, an insertion only
  blocks in front of the one it inserts.

`Merged` is what makes a failure honest. A run of free bytes lies in one free block
(`RunsAreInOneBlock`), for blocks that touch are merged; that block is at least as large as
the request with header and rounding (`RoundUp`), so that neither the check
against `xFreeBytesRemaining` nor an overflow check refuses it, and a search that has
come to `pxEnd` has passed it. In the refinement `Take` is `Allocate`, `vPortFree` is
`Release`, `vPortHeapResetState` is `Reset`, and all other steps stutter; for
`pvPortCalloc` it needs that the product was not cut off (`ProductFits`).

Only model-checked: `DelayEnds`, `InterruptsAreHonoured`, `PeriodEnds`, which are
liveness under fairness. Every other property of a passing run is stated by a theorem.

## 6. Not modelled

In the kernel: `vTaskEndScheduler`, `vTaskResetState`, failed allocations, deletion
and resumption before the scheduler starts, `uxTaskNumber` and other tracing.
Notifications, and the unordered and restricted event lists, have modules of their
own with the part of the kernel they use. Mutexes, queue sets, tickless idle,
`xTaskAbortDelay`, time slicing and more than one core are compiled out of this
port. Deadlines are plain tick counts and are compared as such (tasks.c:91), so the
code supports task sets only until their deadlines reach the end of the
tick range; `EDFProperty` is about the numbers that are compared.

In the RTEMS scheduler: propagation of priorities through thread queues (priority
inheritance), SMP, accounting of processor time, changes of the scheduler of a
thread, creation and deletion of threads (`Init` has them waiting). Of the
periods: statistics, the status call, creation and deletion, the error returns
for a wrong identifier or owner, which change nothing.

Of `list.c`: the integrity check values, which are compiled out, and `pvOwner`, for
which the item itself stands.

Of `queue.c`: deletion and the registry, and calls that only read. That a timed
call ends is not stated as a liveness property; `SleepsForTheRest` has the measure
it would rest on.

Of `timers.c` and `event_groups.c`: `xTimerPendFunctionCall` and the calls for
interrupts that go through it, which are compiled out. Of `stream_buffer.c`:
deletion, `xStreamBufferResetFromISR` (the reset with interrupts masked), the
`SendCompletedFromISR` and `ReceiveCompletedFromISR` calls for a second core, and
completion callbacks (`configUSE_SB_COMPLETED_CALLBACK` is 0). Of `heap_4.c`:
pointer protection, which is compiled out, and `vPortGetHeapStats`, which only
reads. `croutine.c` is compiled out.

How much of the source is covered. More than half of the implementation's lines
are headers (API documentation, macros for other ports, inline functions of RTEMS
that the scheduler does not call), annotations of the verification, and the
version 5.1 beside the 6.2 of the same code. The modules stand for the functions
that act on the schedulers' and services' state; a map of all of it is no aim.

Scripts are not modelled.

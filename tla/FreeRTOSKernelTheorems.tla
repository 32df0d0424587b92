---------------------- MODULE FreeRTOSKernelTheorems ----------------------
(***************************************************************************)
(* Theorems about FreeRTOSKernel, for every number of tasks and event       *)
(* objects and every width of TickType_t.                                   *)
(*                                                                          *)
(* The inductive invariant IInv strengthens TypeOK by what the types need   *)
(* (there is always a ready task to switch to, the scheduler is resumed     *)
(* only when it is suspended) and the order of the delayed lists by the     *)
(* position of the tick count between them.  CurrentInv adds where the      *)
(* current task is; on these rest EDFInv (the deadline order and the        *)
(* running task), EventsOK, PendingInv and CountInv (event lists and        *)
(* counters) and PendedInv (pended ticks).                                  *)
(***************************************************************************)
EXTENDS FreeRTOSKernel, OrderedSequencesTheorems, FiniteSetTheorems

(* What the operations of list.c do to a list.                              *)

(* vListInsert adds the item and keeps the others, keeps a list free of     *)
(* duplicates and, the reason it exists, keeps a list in value order.       *)
THEOREM ListInsertProperties ==
  ASSUME NEW S, NEW list \in Seq(S), NEW value \in [S -> Int], NEW item \in S
  PROVE  LET new == vListInsert(list, value, item)
         IN  /\ new \in Seq(S)
             /\ Items(new) = Items(list) \union {item}
             /\ item \notin Items(list) /\ NoDuplicates(list) => NoDuplicates(new)
             /\ Sorted(list, value) => Sorted(new, value)
<1>1. PICK k \in 1..(Len(list) + 1) :
        /\ k = InsertPosition(list, value, value[item])
        /\ StopsAt(list, value, value[item], k)
  BY SearchStops DEF InsertPosition
<1>2. vListInsert(list, value, item) = InsertAt(list, k, item)
  BY <1>1 DEF vListInsert
<1> QED BY <1>1, <1>2, InsertAtProperties

(* vListInsertEnd adds the item behind the others.                          *)
THEOREM ListInsertEndProperties ==
  ASSUME NEW S, NEW list \in Seq(S), NEW item \in S
  PROVE  LET new == vListInsertEnd(list, item)
         IN  /\ new \in Seq(S)
             /\ Items(new) = Items(list) \union {item}
             /\ item \notin Items(list) /\ NoDuplicates(list) => NoDuplicates(new)
BY AppendKeepsItems DEF vListInsertEnd

(* uxListRemove takes the item out of its list, and only that.              *)
THEOREM ListRemoveProperties ==
  ASSUME NEW S, NEW list \in Seq(S), NEW value \in [S -> Int], NEW item,
         NoDuplicates(list)
  PROVE  LET new == uxListRemove(list, item)
         IN  /\ new \in Seq(S)
             /\ Items(new) = Items(list) \ {item}
             /\ NoDuplicates(new)
             /\ Sorted(list, value) => Sorted(new, value)
BY WithoutProperties DEF uxListRemove

-----------------------------------------------------------------------------
(* Labels at which the caller has suspended the scheduler.                  *)
SuspendedLabels == {"delay", "delayUntil", "block", "delayResume",
                    "resumeAll", "catchUp"}

(* The lists of state items are lists of tasks without duplicates, and no   *)
(* item is in two of them.                                                  *)
StateListsOK ==
  /\ state \in [StateLists -> Seq(AllTasks)]
  /\ stateValue \in [AllTasks -> TickType]
  /\ \A l \in StateLists : NoDuplicates(state[l])

Disjoint ==
  \A l, m \in StateLists :
    l # m => Items(state[l]) \intersect Items(state[m]) = {}

(* Before the scheduler starts all tasks are ready or suspended.            *)
MainInv ==
  mode = "main" =>
    /\ \A l \in {"delayed", "overflow", "terminating"} : Items(state[l]) = {}
    /\ uxCurrentNumberOfTasks = Len(state["ready"]) + Len(state["suspended"])
    /\ uxSchedulerSuspended = 0
    /\ \A t \in AllTasks : pc[t] \in {"run", "entry"}

(* Afterwards the idle task is always there to be switched to.              *)
IdleInv ==
  /\ pc[Idle] \in {"run", "yield", "free", "resumeAll"}
  /\ mode # "main" => pxCurrentTCB # NULL /\ Idle \in Items(state["ready"])

(* A task that has suspended the scheduler is the current one, and          *)
(* xTaskResumeAll is only reached with the scheduler suspended.             *)
SuspendInv ==
  /\ mode # "task" => uxSchedulerSuspended = 0
  /\ mode \in {"main", "task"} => xPendedCounts = 0
  /\ mode = "resume" => event["pendingReady"] # <<>>
  /\ \A t \in AllTasks : pc[t] \in SuspendedLabels =>
       /\ t = pxCurrentTCB
       /\ \/ mode \in {"resume", "resumeTicks"} \/ xPendedCounts # 0
          \/ uxSchedulerSuspended # 0

(* The order of the delayed lists, and the tick count between them.         *)
DelayListsInv ==
  /\ Sorted(state["delayed"], stateValue)
  /\ Sorted(state["overflow"], stateValue)
  /\ \A t \in Items(state["delayed"]) :
       /\ stateValue[t] >= xTickCount
       /\ mode # "tick" => /\ stateValue[t] > xTickCount
                           /\ stateValue[t] >= xNextTaskUnblockTime
  /\ \A t \in Items(state["overflow"]) : stateValue[t] < xTickCount

(* What a task that is about to block has in its locals.                    *)
ArgsInv ==
  \A t \in AllTasks :
    /\ pc[t] \in {"delay", "block"} => xTicksToWait[t] > 0
    /\ pc[t] = "block" => pxEventList[t] \in EventObjects
    /\ pc[t] = "suspend" => pxTCB[t] \in Tasks

IInv ==
  /\ TypeOK /\ StateListsOK /\ Disjoint /\ MainInv /\ IdleInv
  /\ SuspendInv /\ DelayListsInv /\ ArgsInv

(* What depends on where the tasks are in their calls only.                 *)
FlowInv ==
  /\ pc[Idle] \in {"run", "yield", "free", "resumeAll"}
  /\ mode # "main" => pxCurrentTCB # NULL
  /\ SuspendInv /\ ArgsInv

(* What depends on the lists of state items only.                           *)
ListsInv ==
  /\ StateListsOK /\ Disjoint /\ DelayListsInv
  /\ mode # "main" => Idle \in Items(state["ready"])

(* Steps that leave those lists alone.                                      *)
QuietStep ==
  \/ TickWhileSuspended \/ TickReturn \/ ResumeAllReturn \/ IdleShouldYield
  \/ \E t \in AllTasks :
       \/ xTaskResumeAll(t) \/ xTaskCatchUpTicks(t) \/ TaskEntry(t)
       \/ vPortYield(t) \/ prvAddNewTaskToReadyList(t) \/ prvDeleteTCB(t)
  \/ \E t \in Tasks :
       \/ CallSuspendAll(t) \/ CallResumeAll(t) \/ CallCatchUpTicks(t)
       \/ CallDelayUntil(t)
       \/ \E n \in TickType : \/ CallDelay(t, n)
                              \/ \E e \in EventObjects : CallWait(t, e, n)

(* A step that puts the item of t into a list, or takes it out of its list. *)
Moved(list, t) ==
  /\ \A l \in StateLists \ {list} : Items(state'[l]) = Items(state[l]) \ {t}
  /\ Items(state'[list]) = Items(state[list]) \union {t}

Removed(t) ==
  \A l \in StateLists : Items(state'[l]) = Items(state[l]) \ {t}

Readied(t) ==
  /\ StateListsOK' /\ Moved("ready", t)
  /\ stateValue' = [stateValue EXCEPT ![t] = xDeadline[t]]
  /\ \A l \in StateLists :
       Sorted(state[l], stateValue) => Sorted(state'[l], stateValue')

-----------------------------------------------------------------------------
(* What the helpers do to the lists.                                        *)

LEMMA TickTypeFacts ==
  /\ TickType \subseteq Int
  /\ 0 \in TickType /\ MaxDelay \in TickType
BY ConstantsAssumption DEF TickType

(* TickType_t arithmetic within one turn of the tick count.                 *)
LEMMA WrapProperties ==
  /\ \A n \in Int : Wrap(n) \in TickType
  /\ \A n \in 0..MaxDelay : Wrap(n) = n
  /\ \A n \in (MaxDelay + 1)..(2 * MaxDelay + 1) : Wrap(n) = n - (MaxDelay + 1)
  /\ \A n \in (-MaxDelay)..(-1) : Wrap(n) = n + (MaxDelay + 1)
<1> USE ConstantsAssumption DEF Wrap, TickType
<1>1. \A n \in Int : Wrap(n) \in TickType
  OBVIOUS
<1>2. \A n \in 0..MaxDelay : Wrap(n) = n
  OBVIOUS
<1>3. \A n \in (MaxDelay + 1)..(2 * MaxDelay + 1) : Wrap(n) = n - (MaxDelay + 1)
  OBVIOUS
<1>4. \A n \in (-MaxDelay)..(-1) : Wrap(n) = n + (MaxDelay + 1)
  OBVIOUS
<1> QED BY <1>1, <1>2, <1>3, <1>4

LEMMA HoldsItems ==
  ASSUME NEW l, NEW t
  PROVE  Holds(l, t) <=> t \in Items(state[l])
BY DEF Holds, Contains, Items

LEMMA ListRemoveLength ==
  ASSUME NEW S, NEW list \in Seq(S), NEW item
  PROVE  /\ uxListRemove(list, item) \in Seq(S)
         /\ Len(uxListRemove(list, item)) =
              IF item \in Items(list) THEN Len(list) - 1 ELSE Len(list)
<1> DEFINE k == CHOOSE i \in 1..Len(list) : list[i] = item
<1>1. Contains(list, item) <=> item \in Items(list)
  BY DEF Contains, Items
<1>2. CASE Contains(list, item)
  <2>1. k \in 1..Len(list)
    BY <1>2 DEF Contains
  <2>2. uxListRemove(list, item) = RemoveAt(list, k)
    BY <1>2 DEF uxListRemove, Without
  <2> HIDE DEF k
  <2>3. RemoveAt(list, k) \in Seq(S) /\ Len(RemoveAt(list, k)) = Len(list) - 1
    BY <2>1, RemoveAtSeq DEF RemovedAt
  <2> QED BY <1>1, <1>2, <2>2, <2>3
<1>3. CASE ~ Contains(list, item)
  BY <1>1, <1>3 DEF uxListRemove, Without
<1> QED BY <1>2, <1>3

LEMMA ListInsertLength ==
  ASSUME NEW S, NEW list \in Seq(S), NEW value \in [S -> Int], NEW item \in S
  PROVE  Len(vListInsert(list, value, item)) = Len(list) + 1
<1>1. PICK k \in 1..(Len(list) + 1) :
        /\ k = InsertPosition(list, value, value[item])
        /\ StopsAt(list, value, value[item], k)
  BY SearchStops DEF InsertPosition
<1>2. vListInsert(list, value, item) = InsertAt(list, k, item)
  BY <1>1 DEF vListInsert
<1> QED BY <1>1, <1>2, InsertAtProperties

LEMMA DetachedFacts ==
  ASSUME StateListsOK, NEW t, NEW l \in StateLists
  PROVE  /\ DetachedState(t)[l] \in Seq(AllTasks)
         /\ NoDuplicates(DetachedState(t)[l])
         /\ Items(DetachedState(t)[l]) = Items(state[l]) \ {t}
         /\ Sorted(state[l], stateValue) => Sorted(DetachedState(t)[l], stateValue)
         /\ Len(DetachedState(t)[l]) =
              IF t \in Items(state[l]) THEN Len(state[l]) - 1 ELSE Len(state[l])
<1>1. DetachedState(t)[l] = uxListRemove(state[l], t)
  BY DEF DetachedState
<1>2. stateValue \in [AllTasks -> Int] /\ state[l] \in Seq(AllTasks)
      /\ NoDuplicates(state[l])
  BY TickTypeFacts DEF StateListsOK
<1> QED BY <1>1, <1>2, ListRemoveProperties, ListRemoveLength

LEMMA InsertStateFacts ==
  ASSUME StateListsOK, NEW list \in StateLists, NEW t \in AllTasks,
         NEW v \in TickType, InsertState(list, t, v)
  PROVE  /\ StateListsOK'
         /\ stateValue' = [stateValue EXCEPT ![t] = v]
         /\ Moved(list, t)
         /\ \A l \in StateLists \ {list} : state'[l] = DetachedState(t)[l]
         /\ Len(state'[list]) = IF t \in Items(state[list])
                                THEN Len(state[list]) ELSE Len(state[list]) + 1
         /\ \A l \in StateLists :
              Sorted(state[l], stateValue) => Sorted(state'[l], stateValue')
<1> DEFINE new == [stateValue EXCEPT ![t] = v]
           old == DetachedState(t)[list]
<1>1. stateValue' = new /\ new \in [AllTasks -> TickType]
      /\ new \in [AllTasks -> Int]
  BY TickTypeFacts DEF InsertState, StateListsOK
<1>2. state' = [DetachedState(t) EXCEPT ![list] = vListInsert(old, new, t)]
  BY DEF InsertState
<1>3. DetachedState(t) = [l \in StateLists |-> DetachedState(t)[l]]
  BY DEF DetachedState
<1>4. /\ state' = [l \in StateLists |-> state'[l]]
      /\ state'[list] = vListInsert(old, new, t)
      /\ \A l \in StateLists \ {list} : state'[l] = DetachedState(t)[l]
  BY <1>2, <1>3
<1>5. /\ old \in Seq(AllTasks) /\ NoDuplicates(old)
      /\ Items(old) = Items(state[list]) \ {t}
      /\ Len(old) = IF t \in Items(state[list]) THEN Len(state[list]) - 1
                    ELSE Len(state[list])
  BY DetachedFacts
<1>6. ASSUME NEW l \in StateLists, Sorted(state[l], stateValue)
      PROVE  Sorted(DetachedState(t)[l], new)
  <2>1. Sorted(DetachedState(t)[l], stateValue)
    BY <1>6, DetachedFacts
  <2>2. Items(DetachedState(t)[l]) \subseteq AllTasks \ {t}
    BY DetachedFacts, ItemsTyped DEF StateListsOK
  <2>3. \A x \in Items(DetachedState(t)[l]) : stateValue[x] = new[x]
    BY <2>2 DEF StateListsOK
  <2> HIDE DEF new
  <2> QED BY <2>1, <2>3, SortedByItems
<1>7. /\ state'[list] \in Seq(AllTasks)
      /\ Items(state'[list]) = Items(old) \union {t}
      /\ NoDuplicates(state'[list])
      /\ Sorted(old, new) => Sorted(state'[list], new)
      /\ Len(state'[list]) = Len(old) + 1
  <2> HIDE DEF new, old
  <2>1. t \notin Items(old) /\ old \in Seq(AllTasks) /\ NoDuplicates(old)
    BY <1>5
  <2>2. /\ vListInsert(old, new, t) \in Seq(AllTasks)
        /\ Items(vListInsert(old, new, t)) = Items(old) \union {t}
        /\ NoDuplicates(vListInsert(old, new, t))
        /\ Sorted(old, new) => Sorted(vListInsert(old, new, t), new)
    BY <1>1, <2>1, ListInsertProperties
  <2>3. Len(vListInsert(old, new, t)) = Len(old) + 1
    BY <1>1, <2>1, ListInsertLength
  <2> QED BY <1>4, <2>2, <2>3
<1>8. StateListsOK'
  <2>1. \A l \in StateLists : state'[l] \in Seq(AllTasks) /\ NoDuplicates(state'[l])
    BY <1>4, <1>7, DetachedFacts
  <2> QED BY <1>1, <1>4, <2>1 DEF StateListsOK
<1>9. \A l \in StateLists \ {list} : Items(state'[l]) = Items(state[l]) \ {t}
  BY <1>4, DetachedFacts
<1>10. Items(state'[list]) = Items(state[list]) \union {t}
  BY <1>5, <1>7
<1>11. Len(state'[list]) = IF t \in Items(state[list])
                           THEN Len(state[list]) ELSE Len(state[list]) + 1
  <2>1. Len(state[list]) \in Nat
    BY DEF StateListsOK
  <2> HIDE DEF old
  <2> QED BY <1>5, <1>7, <2>1
<1>12. ASSUME NEW l \in StateLists, Sorted(state[l], stateValue)
       PROVE  Sorted(state'[l], stateValue')
  BY <1>1, <1>4, <1>6, <1>7, <1>12
<1> QED BY <1>1, <1>4, <1>8, <1>9, <1>10, <1>11, <1>12 DEF Moved

LEMMA AppendStateFacts ==
  ASSUME StateListsOK, NEW list \in StateLists, NEW t \in AllTasks,
         AppendState(list, t)
  PROVE  /\ StateListsOK' /\ stateValue' = stateValue
         /\ Moved(list, t)
         /\ \A l \in StateLists \ {list} :
              /\ state'[l] = DetachedState(t)[l]
              /\ Sorted(state[l], stateValue) => Sorted(state'[l], stateValue')
         /\ Len(state'[list]) = IF t \in Items(state[list])
                                THEN Len(state[list]) ELSE Len(state[list]) + 1
<1> DEFINE old == DetachedState(t)[list]
<1>1. stateValue' = stateValue
  BY DEF AppendState
<1>2. state' = [DetachedState(t) EXCEPT ![list] = vListInsertEnd(old, t)]
  BY DEF AppendState
<1>3. DetachedState(t) = [l \in StateLists |-> DetachedState(t)[l]]
  BY DEF DetachedState
<1>4. /\ state' = [l \in StateLists |-> state'[l]]
      /\ state'[list] = vListInsertEnd(old, t)
      /\ \A l \in StateLists \ {list} : state'[l] = DetachedState(t)[l]
  BY <1>2, <1>3
<1>5. /\ old \in Seq(AllTasks) /\ NoDuplicates(old)
      /\ Items(old) = Items(state[list]) \ {t}
      /\ Len(old) = IF t \in Items(state[list]) THEN Len(state[list]) - 1
                    ELSE Len(state[list])
  BY DetachedFacts
<1>6. /\ state'[list] \in Seq(AllTasks)
      /\ Items(state'[list]) = Items(old) \union {t}
      /\ NoDuplicates(state'[list])
      /\ Len(state'[list]) = Len(old) + 1
  <2> HIDE DEF old
  <2>1. t \notin Items(old) /\ old \in Seq(AllTasks) /\ NoDuplicates(old)
    BY <1>5
  <2>2. /\ vListInsertEnd(old, t) \in Seq(AllTasks)
        /\ Items(vListInsertEnd(old, t)) = Items(old) \union {t}
        /\ NoDuplicates(vListInsertEnd(old, t))
    BY <2>1, ListInsertEndProperties
  <2>3. Len(vListInsertEnd(old, t)) = Len(old) + 1
    BY <2>1 DEF vListInsertEnd
  <2> QED BY <1>4, <2>2, <2>3
<1>7. StateListsOK'
  <2>1. \A l \in StateLists : state'[l] \in Seq(AllTasks) /\ NoDuplicates(state'[l])
    BY <1>4, <1>6, DetachedFacts
  <2> QED BY <1>1, <1>4, <2>1 DEF StateListsOK
<1>8. \A l \in StateLists \ {list} :
        /\ Items(state'[l]) = Items(state[l]) \ {t}
        /\ Sorted(state[l], stateValue) => Sorted(state'[l], stateValue')
  BY <1>1, <1>4, DetachedFacts
<1>9. Items(state'[list]) = Items(state[list]) \union {t}
  BY <1>5, <1>6
<1>10. Len(state'[list]) = IF t \in Items(state[list])
                           THEN Len(state[list]) ELSE Len(state[list]) + 1
  <2>1. Len(state[list]) \in Nat
    BY DEF StateListsOK
  <2> HIDE DEF old
  <2> QED BY <1>5, <1>6, <2>1
<1> QED BY <1>1, <1>4, <1>7, <1>8, <1>9, <1>10 DEF Moved

LEMMA UnblockTimeFacts ==
  ASSUME StateListsOK, NEW list \in Seq(AllTasks)
  PROVE  /\ UnblockTime(list) \in TickType
         /\ Sorted(list, stateValue) =>
              \A t \in Items(list) : UnblockTime(list) <= stateValue[t]
<1>1. stateValue \in [AllTasks -> Int] /\ stateValue \in [AllTasks -> TickType]
  BY TickTypeFacts DEF StateListsOK
<1>2. CASE list = <<>>
  BY <1>2, NonemptyHead, TickTypeFacts DEF UnblockTime
<1>3. CASE list # <<>>
  <2>1. Head(list) \in AllTasks /\ UnblockTime(list) = stateValue[Head(list)]
    BY <1>3, NonemptyHead DEF UnblockTime
  <2>2. Sorted(list, stateValue) =>
          \A t \in Items(list) : stateValue[Head(list)] <= stateValue[t]
    BY <1>1, <1>3, HeadIsMinimum
  <2> QED BY <1>1, <2>1, <2>2
<1> QED BY <1>2, <1>3

(* A switch goes to a ready task, or is put off while the scheduler is      *)
(* suspended.                                                               *)
LEMMA SwitchFacts ==
  ASSUME NEW ready \in Seq(AllTasks), Items(ready) # {},
         vTaskSwitchContext(ready)
  PROVE  /\ xYieldPending' \in BOOLEAN
         /\ pxCurrentTCB' = pxCurrentTCB \/ pxCurrentTCB' \in AllTasks
         /\ uxSchedulerSuspended # 0 => pxCurrentTCB' = pxCurrentTCB
<1>1. Head(ready) \in AllTasks
  BY NonemptyHead
<1> QED BY <1>1 DEF vTaskSwitchContext

LEMMA DetachedEventFacts ==
  ASSUME event \in [EventLists -> Seq(AllTasks)], NEW t
  PROVE  /\ DetachedEvent(t) \in [EventLists -> Seq(AllTasks)]
         /\ \A l \in EventLists :
              Len(DetachedEvent(t)[l]) >= Len(event[l]) - 1
<1>1. ASSUME NEW l \in EventLists
      PROVE  /\ DetachedEvent(t)[l] \in Seq(AllTasks)
             /\ Len(DetachedEvent(t)[l]) >= Len(event[l]) - 1
  <2>1. event[l] \in Seq(AllTasks) /\ Len(event[l]) \in Nat
    OBVIOUS
  <2>2. DetachedEvent(t)[l] = uxListRemove(event[l], t)
    BY DEF DetachedEvent
  <2>3. /\ uxListRemove(event[l], t) \in Seq(AllTasks)
        /\ Len(uxListRemove(event[l], t)) =
             IF t \in Items(event[l]) THEN Len(event[l]) - 1 ELSE Len(event[l])
    BY <2>1, ListRemoveLength
  <2> QED BY <2>1, <2>2, <2>3
<1>2. DetachedEvent(t) = [l \in EventLists |-> DetachedEvent(t)[l]]
  BY DEF DetachedEvent
<1> QED BY <1>1, <1>2

LEMMA MovedDisjoint ==
  ASSUME Disjoint, NEW t, NEW list \in StateLists,
         Moved(list, t) \/ Removed(t)
  PROVE  Disjoint'
<1> SUFFICES ASSUME NEW l \in StateLists, NEW m \in StateLists, l # m
             PROVE  Items(state'[l]) \intersect Items(state'[m]) = {}
  BY DEF Disjoint
<1>1. Items(state[l]) \intersect Items(state[m]) = {}
  BY DEF Disjoint
<1> QED BY <1>1 DEF Moved, Removed

(* Steps that put nothing into the delayed lists and do not change the tick *)
(* count.                                                                   *)
LEMMA DelayListsKept ==
  ASSUME DelayListsInv,
         Sorted(state'["delayed"], stateValue'),
         Sorted(state'["overflow"], stateValue'),
         \A l \in {"delayed", "overflow"} : \A x \in Items(state'[l]) :
           x \in Items(state[l]) /\ stateValue'[x] = stateValue[x],
         xTickCount' = xTickCount,
         mode = "tick" => mode' = "tick",
         \/ xNextTaskUnblockTime' = xNextTaskUnblockTime
         \/ \A x \in Items(state'["delayed"]) :
              stateValue'[x] >= xNextTaskUnblockTime'
  PROVE  DelayListsInv'
BY DEF DelayListsInv

LEMMA DelayFacts ==
  ASSUME StateListsOK, pxCurrentTCB \in AllTasks, xTickCount \in TickType,
         xNextTaskUnblockTime \in TickType,
         NEW ticks \in TickType, NEW f \in BOOLEAN,
         prvAddCurrentTaskToDelayedList(ticks, f)
  PROVE  /\ StateListsOK' /\ xNextTaskUnblockTime' \in TickType
         /\ \E list \in {"delayed", "overflow", "suspended"} :
              Moved(list, pxCurrentTCB)
<1> DEFINE wake == Wrap(xTickCount + ticks)
<1>1. wake \in TickType
  BY WrapProperties, TickTypeFacts
<1>2. CASE ticks = MaxDelay /\ f
  <2>1. AppendState("suspended", pxCurrentTCB)
        /\ xNextTaskUnblockTime' = xNextTaskUnblockTime
    BY <1>2 DEF prvAddCurrentTaskToDelayedList
  <2> QED BY <2>1, AppendStateFacts DEF StateLists
<1>3. CASE ~ (ticks = MaxDelay /\ f)
  <2>1. /\ InsertState(DelayedListFor(wake), pxCurrentTCB, wake)
        /\ xNextTaskUnblockTime' \in {wake, xNextTaskUnblockTime}
    BY <1>3 DEF prvAddCurrentTaskToDelayedList
  <2>2. DelayedListFor(wake) \in {"delayed", "overflow"}
    BY DEF DelayedListFor
  <2> HIDE DEF wake
  <2> QED BY <1>1, <2>1, <2>2, InsertStateFacts DEF StateLists
<1> QED BY <1>2, <1>3

(* A positive delay of less than one turn of the tick count ends strictly   *)
(* before the tick count in the overflow list, or strictly after it in the  *)
(* delayed list.                                                            *)
LEMMA DelayKeepsOrder ==
  ASSUME StateListsOK, pxCurrentTCB \in AllTasks, xTickCount \in TickType,
         xNextTaskUnblockTime \in TickType, DelayListsInv,
         mode = "task", mode' = "task", xTickCount' = xTickCount,
         NEW ticks \in TickType, ticks > 0, NEW f \in BOOLEAN,
         prvAddCurrentTaskToDelayedList(ticks, f)
  PROVE  DelayListsInv'
<1> DEFINE wake == Wrap(xTickCount + ticks)
           list == DelayedListFor(wake)
<1>1. CASE ticks = MaxDelay /\ f
  <2>1. AppendState("suspended", pxCurrentTCB)
        /\ xNextTaskUnblockTime' = xNextTaskUnblockTime
    BY <1>1 DEF prvAddCurrentTaskToDelayedList
  <2>2. /\ Moved("suspended", pxCurrentTCB) /\ stateValue' = stateValue
        /\ \A l \in StateLists \ {"suspended"} :
             Sorted(state[l], stateValue) => Sorted(state'[l], stateValue')
    BY <2>1, AppendStateFacts DEF StateLists
  <2> QED BY <2>1, <2>2, DelayListsKept DEF Moved, StateLists, DelayListsInv
<1>2. CASE ~ (ticks = MaxDelay /\ f)
  <2>1. /\ InsertState(list, pxCurrentTCB, wake)
        /\ xNextTaskUnblockTime' =
             IF list = "delayed" /\ wake < xNextTaskUnblockTime
             THEN wake ELSE xNextTaskUnblockTime
    BY <1>2 DEF prvAddCurrentTaskToDelayedList
  <2>2. /\ wake \in TickType
        /\ list = "delayed" => wake > xTickCount
        /\ list = "overflow" => wake < xTickCount
        /\ list \in {"delayed", "overflow"}
    <3> DEFINE sum == xTickCount + ticks
    <3>1. \/ sum \in 0..MaxDelay
          \/ sum \in (MaxDelay + 1)..(2 * MaxDelay + 1)
      BY ConstantsAssumption DEF TickType
    <3> HIDE DEF sum
    <3>2. Wrap(sum) = sum \/ Wrap(sum) = sum - (MaxDelay + 1)
      BY <3>1, WrapProperties
    <3>3. wake \in TickType
      BY WrapProperties, TickTypeFacts
    <3>4. list = IF wake < xTickCount THEN "overflow" ELSE "delayed"
      BY DEF DelayedListFor
    <3>5. wake = Wrap(sum) /\ sum = xTickCount + ticks
      BY DEF sum
    <3> HIDE DEF wake, list
    <3> QED BY <3>2, <3>3, <3>4, <3>5, ConstantsAssumption DEF TickType
  <2> HIDE DEF wake, list
  <2>3. /\ Moved(list, pxCurrentTCB)
        /\ stateValue' = [stateValue EXCEPT ![pxCurrentTCB] = wake]
        /\ \A l \in StateLists :
             Sorted(state[l], stateValue) => Sorted(state'[l], stateValue')
    BY <2>1, <2>2, InsertStateFacts DEF StateLists
  <2>4. /\ Sorted(state'["delayed"], stateValue')
        /\ Sorted(state'["overflow"], stateValue')
    BY <2>3 DEF DelayListsInv, StateLists
  <2>5. stateValue'[pxCurrentTCB] = wake
        /\ \A x \in AllTasks \ {pxCurrentTCB} : stateValue'[x] = stateValue[x]
    BY <2>3 DEF StateListsOK
  <2>6. \A l \in {"delayed", "overflow"} : Items(state[l]) \subseteq AllTasks
    BY ItemsTyped DEF StateListsOK, StateLists
  <2>7. ASSUME NEW x \in Items(state'["delayed"])
        PROVE  stateValue'[x] > xTickCount
               /\ stateValue'[x] >= xNextTaskUnblockTime'
    <3>1. CASE x = pxCurrentTCB
      <4>1. list = "delayed"
        BY <2>2, <2>3, <2>7, <3>1 DEF Moved, StateLists
      <4> QED BY <2>1, <2>2, <2>5, <3>1, <4>1 DEF TickType
    <3>2. CASE x # pxCurrentTCB
      <4>1. x \in Items(state["delayed"]) /\ x \in AllTasks
        BY <2>2, <2>3, <2>6, <2>7, <3>2 DEF Moved, StateLists
      <4>2. stateValue[x] > xTickCount /\ stateValue[x] >= xNextTaskUnblockTime
        BY <4>1 DEF DelayListsInv
      <4>3. stateValue'[x] = stateValue[x] /\ stateValue[x] \in TickType
        BY <2>5, <3>2, <4>1 DEF StateListsOK
      <4> QED BY <2>1, <2>2, <4>2, <4>3, ConstantsAssumption DEF TickType
    <3> QED BY <3>1, <3>2
  <2>8. ASSUME NEW x \in Items(state'["overflow"])
        PROVE  stateValue'[x] < xTickCount
    <3>1. CASE x = pxCurrentTCB
      <4>1. list = "overflow"
        BY <2>2, <2>3, <2>8, <3>1 DEF Moved, StateLists
      <4> QED BY <2>2, <2>5, <3>1, <4>1
    <3>2. CASE x # pxCurrentTCB
      <4>1. x \in Items(state["overflow"]) /\ x \in AllTasks
        BY <2>2, <2>3, <2>6, <2>8, <3>2 DEF Moved, StateLists
      <4> QED BY <2>5, <3>2, <4>1 DEF DelayListsInv
    <3> QED BY <3>1, <3>2
  <2>9. xTickCount' = xTickCount /\ stateValue' \in [AllTasks -> TickType]
    BY <2>2, <2>3 DEF StateListsOK
  <2>10. \A x \in Items(state'["delayed"]) : stateValue'[x] >= xTickCount
    <3>1. Items(state'["delayed"]) \subseteq AllTasks
      BY <2>2, <2>3, <2>6 DEF Moved, StateLists
    <3> QED BY <2>7, <2>9, <3>1, ConstantsAssumption DEF TickType
  <2> QED BY <2>4, <2>7, <2>8, <2>9, <2>10 DEF DelayListsInv
<1> QED BY <1>1, <1>2

LEMMA ReadiedFacts ==
  ASSUME IInv, NEW t \in AllTasks, prvAddTaskToReadyList(t)
  PROVE  Readied(t)
<1>1. xDeadline[t] \in TickType /\ StateListsOK /\ "ready" \in StateLists
  BY DEF IInv, TypeOK, StateLists
<1>2. InsertState("ready", t, xDeadline[t])
  BY DEF prvAddTaskToReadyList
<1> QED BY <1>1, <1>2, InsertStateFacts DEF Readied

LEMMA AppendEventFacts ==
  ASSUME NEW ev \in [EventLists -> Seq(AllTasks)], NEW t \in AllTasks
  PROVE  [ev EXCEPT !["pendingReady"] = vListInsertEnd(@, t)]
           \in [EventLists -> Seq(AllTasks)]
<1>1. vListInsertEnd(ev["pendingReady"], t) \in Seq(AllTasks)
  BY DEF vListInsertEnd, EventLists
<1> QED BY <1>1

LEMMA SignalFacts ==
  ASSUME IInv, NEW e \in EventObjects, event[e] # <<>>,
         xTaskRemoveFromEventList(e)
  PROVE  /\ Head(event[e]) \in AllTasks
         /\ event' \in [EventLists -> Seq(AllTasks)]
         /\ Readied(Head(event[e])) \/ UNCHANGED <<state, stateValue>>
<1> DEFINE t == Head(event[e])
<1>1. event[e] \in Seq(AllTasks) /\ event \in [EventLists -> Seq(AllTasks)]
  BY DEF IInv, TypeOK, EventLists
<1>2. t \in AllTasks
  BY <1>1, NonemptyHead
<1>3. DetachedEvent(t) \in [EventLists -> Seq(AllTasks)]
  BY <1>1, DetachedEventFacts
<1>4. CASE uxSchedulerSuspended = 0
  BY <1>2, <1>3, <1>4, ReadiedFacts DEF xTaskRemoveFromEventList
<1>5. CASE uxSchedulerSuspended # 0
  BY <1>2, <1>3, <1>5, AppendEventFacts DEF xTaskRemoveFromEventList
<1> QED BY <1>2, <1>4, <1>5

-----------------------------------------------------------------------------
(* Type correctness, one lemma per group of actions.                        *)

LEMMA ReadyNotEmpty ==
  ASSUME IInv, mode # "main"
  PROVE  /\ pxCurrentTCB \in AllTasks
         /\ state["ready"] \in Seq(AllTasks) /\ Items(state["ready"]) # {}
BY DEF IInv, TypeOK, IdleInv, StateLists

LEMMA TypeMain ==
  ASSUME IInv, Main
  PROVE  TypeOK'
<1> USE DEF IInv
<1>1. ASSUME NEW t \in AllTasks, NEW d \in TickType, AddNewTask(t, d)
      PROVE  /\ StateListsOK' /\ event' = event
             /\ xDeadline' \in [AllTasks -> TickType]
             /\ eventValue' \in [AllTasks -> TickType]
             /\ uxCurrentNumberOfTasks' \in Int
             /\ uxDeletedTasksWaitingCleanUp' = uxDeletedTasksWaitingCleanUp
  BY <1>1, InsertStateFacts DEF AddNewTask, TypeOK, StateLists
<1>2. ASSUME NEW t \in Tasks, NEW d \in TickType, MainCreate(t, d)
      PROVE  TypeOK'
  <2>1. /\ AddNewTask(t, d) /\ t \in AllTasks
        /\ pxCurrentTCB' \in {t, pxCurrentTCB}
        /\ pc' = [pc EXCEPT ![t] = EntryLabel(t)]
        /\ UNCHANGED <<wakeVars, mode, timeVars, uxSchedulerSuspended,
                       xYieldPending, argVars, loopVars>>
    BY <1>2 DEF MainCreate, PickFirst, Goto, AllTasks
  <2>2. EntryLabel(t) \in Labels
    BY DEF EntryLabel, Labels
  <2> QED BY <1>1, <2>1, <2>2
       DEF TypeOK, StateListsOK, wakeVars, timeVars, argVars, loopVars
<1>3. ASSUME NEW t \in Tasks, MainSuspend(t)
      PROVE  TypeOK'
  <2>1. /\ mode = "main" /\ AppendState("suspended", t) /\ t \in AllTasks
        /\ ValidHandle(t)
        /\ UNCHANGED <<wakeVars, frame, event, uxSchedulerSuspended, pc, argVars>>
    BY <1>3 DEF MainSuspend, AllTasks
  <2>2. StateListsOK' /\ Moved("suspended", t)
        /\ state'["ready"] = DetachedState(t)["ready"]
    BY <2>1, AppendStateFacts DEF StateLists
  <2>3. pxCurrentTCB' \in AllTasks \union {NULL} /\ xYieldPending' \in BOOLEAN
    <3>1. CASE t # pxCurrentTCB \/ Len(state'["suspended"]) = uxCurrentNumberOfTasks
      BY <1>3, <3>1 DEF MainSuspend, TypeOK
    <3>2. CASE /\ t = pxCurrentTCB
               /\ Len(state'["suspended"]) # uxCurrentNumberOfTasks
      <4>1. vTaskSwitchContext(state'["ready"])
        BY <1>3, <3>2 DEF MainSuspend
      <4>2. t \in Items(state["ready"]) \/ t \in Items(state["suspended"])
        <5>1. \E l \in StateLists : t \in Items(state[l])
          BY <2>1, HoldsItems DEF ValidHandle, Exists
        <5> QED BY <2>1, <5>1 DEF MainInv, StateLists
      <4>3. ~ (t \in Items(state["ready"]) /\ t \in Items(state["suspended"]))
        BY DEF Disjoint, StateLists
      <4>4. /\ Len(state'["ready"]) = IF t \in Items(state["ready"])
                 THEN Len(state["ready"]) - 1 ELSE Len(state["ready"])
            /\ Len(state'["suspended"]) = IF t \in Items(state["suspended"])
                 THEN Len(state["suspended"]) ELSE Len(state["suspended"]) + 1
        BY <2>1, <2>2, AppendStateFacts, DetachedFacts DEF StateLists
      <4>5. Len(state'["ready"]) # 0
        <5> DEFINE r == Len(state["ready"])    s == Len(state["suspended"])
                   r2 == Len(state'["ready"])  s2 == Len(state'["suspended"])
        <5>1. r \in Nat /\ s \in Nat
          BY DEF TypeOK, StateLists
        <5>2. (r2 = r - 1 /\ s2 = s + 1) \/ (r2 = r /\ s2 = s)
          BY <4>2, <4>3, <4>4
        <5>3. s2 # r + s
          <6>1. uxCurrentNumberOfTasks = r + s
            BY <2>1 DEF MainInv
          <6> QED BY <3>2, <6>1
        <5> HIDE DEF r, s, r2, s2
        <5>4. r2 # 0
          BY <5>1, <5>2, <5>3
        <5> QED BY <5>4 DEF r2
      <4>6. state'["ready"] \in Seq(AllTasks) /\ Items(state'["ready"]) # {}
        BY <2>2, <4>5, NonemptyHead, EmptySeq DEF StateListsOK, StateLists
      <4> QED BY <4>1, <4>6, SwitchFacts DEF TypeOK
    <3> QED BY <3>1, <3>2
  <2> QED BY <2>1, <2>2, <2>3
       DEF TypeOK, StateListsOK, wakeVars, frame, tcbVars, timeVars, countVars,
           argVars, loopVars
<1>4. ASSUME vTaskStartScheduler
      PROVE  TypeOK'
  <2>1. /\ AddNewTask(Idle, MaxDelay) /\ pxCurrentTCB' \in {Idle, pxCurrentTCB}
        /\ xNextTaskUnblockTime' = MaxDelay /\ xTickCount' = 0 /\ mode' = "task"
        /\ UNCHANGED <<xNumOfOverflows, xPendedTicks, uxSchedulerSuspended,
                       xYieldPending, pc, argVars, loopVars>>
    BY <1>4 DEF vTaskStartScheduler, PickFirst
  <2>2. Idle \in AllTasks
    BY DEF AllTasks
  <2>3. pxCurrentTCB' \in AllTasks \union {NULL}
    BY <2>1, <2>2 DEF TypeOK
  <2> QED BY <1>1, <2>1, <2>2, <2>3, TickTypeFacts
       DEF TypeOK, StateListsOK, argVars, loopVars, Modes
<1> QED BY <1>2, <1>3, <1>4 DEF Main

LEMMA TypeTick ==
  ASSUME IInv, xTaskIncrementTick
  PROVE  TypeOK'
<1> DEFINE tick == Wrap(xTickCount + 1)
<1> USE DEF IInv
<1>1. tick \in TickType /\ xTickCount' = tick
  BY WrapProperties, TickTypeFacts DEF TypeOK, xTaskIncrementTick
<1>2. /\ state["delayed"] \in Seq(AllTasks) /\ state["overflow"] \in Seq(AllTasks)
      /\ state' \in [StateLists -> Seq(AllTasks)]
  BY DEF TypeOK, StateLists, xTaskIncrementTick
<1>3. xNextTaskUnblockTime' \in TickType
  <2>1. UnblockTime(state["overflow"]) \in TickType
    BY <1>2, UnblockTimeFacts
  <2>2. xNextTaskUnblockTime' \in {UnblockTime(state["overflow"]), xNextTaskUnblockTime}
    <3>1. [state EXCEPT !["delayed"] = state["overflow"],
                        !["overflow"] = state["delayed"]]["delayed"]
            = state["overflow"]
      BY DEF TypeOK, StateLists
    <3> QED BY <3>1 DEF xTaskIncrementTick
  <2> QED BY <2>1, <2>2 DEF TypeOK
<1>4. xNumOfOverflows' \in 0..(NumOverflows - 1)
  <2>1. xNumOfOverflows' \in {(xNumOfOverflows + 1) % NumOverflows, xNumOfOverflows}
    BY DEF xTaskIncrementTick
  <2> QED BY <2>1, ConstantsAssumption DEF TypeOK
<1>5. /\ mode' \in Modes /\ xSwitchRequired' \in BOOLEAN
      /\ UNCHANGED <<schedVars, stateValue, event, tcbVars, xPendedTicks,
                     countVars, pc, argVars, xPendedCounts>>
  BY DEF xTaskIncrementTick, Modes
<1> HIDE DEF tick
<1> QED BY <1>1, <1>2, <1>3, <1>4, <1>5
     DEF TypeOK, schedVars, tcbVars, countVars, argVars

LEMMA TypeInterrupt ==
  ASSUME IInv, Interrupt
  PROVE  TypeOK'
<1> USE DEF IInv
<1>1. ASSUME TickISR PROVE TypeOK'
  BY <1>1, TypeTick DEF TickISR
<1>2. ASSUME TickWhileSuspended PROVE TypeOK'
  <2>1. xPendedTicks' \in TickType
    BY <1>2, WrapProperties, TickTypeFacts DEF TickWhileSuspended, TypeOK
  <2> QED BY <1>2, <2>1 DEF TickWhileSuspended, TypeOK, schedVars, frame, tcbVars,
             timeVars, countVars, loopVars, listVars, argVars
<1>3. ASSUME NEW t \in Tasks, xTaskResumeFromISR(t) PROVE TypeOK'
  <2>1. t \in AllTasks
    BY DEF AllTasks
  <2>2. /\ StateListsOK' /\ event' \in [EventLists -> Seq(AllTasks)]
        /\ xYieldPending' \in BOOLEAN
    <3>1. CASE uxSchedulerSuspended = 0
      BY <1>3, <2>1, <3>1, ReadiedFacts
         DEF xTaskResumeFromISR, Readied, TypeOK
    <3>2. CASE uxSchedulerSuspended # 0
      <4>1. /\ event' = [event EXCEPT !["pendingReady"] = vListInsertEnd(@, t)]
            /\ UNCHANGED <<state, stateValue, xYieldPending>>
        BY <1>3, <3>2 DEF xTaskResumeFromISR
      <4>2. event' \in [EventLists -> Seq(AllTasks)]
        BY <2>1, <4>1, AppendEventFacts DEF TypeOK
      <4> QED BY <4>1, <4>2 DEF TypeOK, StateListsOK
    <3> QED BY <3>1, <3>2
  <2>3. UNCHANGED <<wakeVars, frame, pxCurrentTCB, uxSchedulerSuspended, pc, argVars>>
    BY <1>3 DEF xTaskResumeFromISR
  <2> QED BY <2>2, <2>3 DEF TypeOK, StateListsOK, wakeVars, frame, tcbVars,
                            timeVars, countVars, loopVars, argVars
<1>4. ASSUME NEW e \in EventObjects, SignalFromISR(e) PROVE TypeOK'
  <2>1. /\ event[e] # <<>> /\ xTaskRemoveFromEventList(e)
        /\ xYieldPending' \in BOOLEAN
        /\ UNCHANGED <<wakeVars, frame, pxCurrentTCB, uxSchedulerSuspended, pc,
                       argVars>>
    BY <1>4 DEF SignalFromISR
  <2>2. StateListsOK' /\ event' \in [EventLists -> Seq(AllTasks)]
    BY <2>1, SignalFacts DEF Readied, StateListsOK
  <2> QED BY <2>1, <2>2 DEF TypeOK, StateListsOK, wakeVars, frame, tcbVars,
                            timeVars, countVars, loopVars, argVars
<1> QED BY <1>1, <1>2, <1>3, <1>4 DEF Interrupt

LEMMA TypeMasked ==
  ASSUME IInv, Masked
  PROVE  TypeOK'
<1> USE DEF IInv
<1>1. ASSUME UnblockTask PROVE TypeOK'
  <2> DEFINE t == Head(state["delayed"])
  <2>1. t \in AllTasks
    BY <1>1, NonemptyHead DEF UnblockTask, TypeOK, StateLists
  <2>2. /\ event' = DetachedEvent(t) /\ prvAddTaskToReadyList(t)
        /\ xSwitchRequired' \in BOOLEAN
        /\ UNCHANGED <<wakeVars, schedVars, mode, tcbVars, timeVars, countVars,
                       pc, argVars, xPendedCounts>>
    BY <1>1 DEF UnblockTask
  <2> HIDE DEF t
  <2>3. StateListsOK' /\ event' \in [EventLists -> Seq(AllTasks)]
    BY <2>1, <2>2, ReadiedFacts, DetachedEventFacts DEF Readied, TypeOK
  <2> QED BY <2>2, <2>3 DEF TypeOK, StateListsOK, wakeVars, schedVars, tcbVars,
                            timeVars, countVars, argVars
<1>2. ASSUME UnblockDone PROVE TypeOK'
  <2>1. UnblockTime(state["delayed"]) \in TickType
    BY UnblockTimeFacts DEF TypeOK, StateLists
  <2> QED BY <1>2, <2>1 DEF UnblockDone, prvResetNextTaskUnblockTime, TypeOK,
             Modes, schedVars, listVars, tcbVars, timeVars, countVars, argVars,
             loopVars
<1>3. ASSUME TickReturn PROVE TypeOK'
  <2>1. /\ mode' \in Modes /\ xPendedCounts' \in TickType /\ xYieldPending' \in BOOLEAN
        /\ pxCurrentTCB' \in AllTasks \union {NULL}
    <3>1. CASE xPendedCounts = 0
      <4>1. \/ vTaskSwitchContext(state["ready"])
            \/ UNCHANGED <<xYieldPending, pxCurrentTCB>>
        BY <1>3, <3>1 DEF TickReturn
      <4>2. mode # "main"
        BY <1>3 DEF TickReturn
      <4> QED BY <1>3, <3>1, <4>1, <4>2, ReadyNotEmpty, SwitchFacts
           DEF TickReturn, TypeOK, Modes
    <3>2. CASE xPendedCounts # 0
      <4>1. xPendedCounts - 1 \in TickType
        BY <3>2, ConstantsAssumption DEF TypeOK, TickType
      <4> QED BY <1>3, <3>2, <4>1 DEF TickReturn, TypeOK, Modes, SwitchDue
    <3> QED BY <3>1, <3>2
  <2> QED BY <1>3, <2>1 DEF TickReturn, TypeOK, wakeVars, listVars, tcbVars,
             timeVars, countVars, argVars
<1>4. ASSUME ResumePendingTask PROVE TypeOK'
  <2> DEFINE t == Head(event["pendingReady"])
  <2>1. t \in AllTasks
    <3>1. event["pendingReady"] \in Seq(AllTasks) /\ event["pendingReady"] # <<>>
      BY <1>4 DEF ResumePendingTask, TypeOK, SuspendInv, EventLists
    <3> QED BY <3>1, NonemptyHead
  <2>2. /\ event' = DetachedEvent(t) /\ prvAddTaskToReadyList(t)
        /\ xYieldPending' \in BOOLEAN /\ mode' \in {mode, "resumeTicks"}
        /\ xNextTaskUnblockTime' \in
             {xNextTaskUnblockTime, UnblockTime(DetachedState(t)["delayed"])}
        /\ UNCHANGED <<pxCurrentTCB, tcbVars, timeVars, xPendedTicks,
                       uxSchedulerSuspended, countVars, pc, argVars, loopVars>>
    BY <1>4 DEF ResumePendingTask, prvResetNextTaskUnblockTime
  <2> HIDE DEF t
  <2>3. StateListsOK' /\ event' \in [EventLists -> Seq(AllTasks)]
    BY <2>1, <2>2, ReadiedFacts, DetachedEventFacts DEF Readied, TypeOK
  <2>4. UnblockTime(DetachedState(t)["delayed"]) \in TickType
    BY DetachedFacts, UnblockTimeFacts DEF StateLists
  <2> QED BY <2>2, <2>3, <2>4 DEF TypeOK, StateListsOK, Modes, tcbVars,
             timeVars, countVars, argVars, loopVars
<1>5. ASSUME ResumePendedTick PROVE TypeOK'
  BY <1>5, TypeTick DEF ResumePendedTick
<1>6. ASSUME ResumeAllReturn PROVE TypeOK'
  <2>1. mode # "main" /\ pxCurrentTCB \in AllTasks
    BY <1>6, ReadyNotEmpty DEF ResumeAllReturn, TicksCaughtUp
  <2>2. /\ pc' \in [AllTasks -> Labels] /\ xYieldPending' \in BOOLEAN
        /\ pxCurrentTCB' \in AllTasks \union {NULL}
    <3>1. CASE xYieldPending
      <4>1. vTaskSwitchContext(state["ready"]) /\ Goto(pxCurrentTCB, "run")
        BY <1>6, <3>1 DEF ResumeAllReturn
      <4> QED BY <2>1, <4>1, ReadyNotEmpty, SwitchFacts DEF Goto, TypeOK, Labels
    <3>2. CASE ~ xYieldPending
      BY <1>6, <2>1, <3>2 DEF ResumeAllReturn, Goto, TypeOK, Labels
    <3> QED BY <3>1, <3>2
  <2> QED BY <1>6, <2>2, TickTypeFacts DEF ResumeAllReturn, TypeOK, Modes, listVars, tcbVars,
             timeVars, countVars, argVars, loopVars
<1> QED BY <1>1, <1>2, <1>3, <1>4, <1>5, <1>6 DEF Masked

LEMMA TypeContinue ==
  ASSUME IInv, NEW t \in AllTasks, Continue(t)
  PROVE  TypeOK'
<1> USE DEF IInv
<1>1. ASSUME xTaskResumeAll(t) PROVE TypeOK'
  <2>1. uxSchedulerSuspended # 0
    BY <1>1 DEF xTaskResumeAll, At, SuspendInv, SuspendedLabels
  <2>2. mode' \in Modes /\ xPendedCounts' \in TickType /\ pc' \in [AllTasks -> Labels]
    BY <1>1 DEF xTaskResumeAll, ResumeMode, Goto, TypeOK, Modes, Labels
  <2> QED BY <1>1, <2>1, <2>2 DEF xTaskResumeAll, TypeOK, wakeVars, listVars,
             tcbVars, timeVars, countVars, argVars
<1>2. ASSUME xTaskCatchUpTicks(t) PROVE TypeOK'
  <2>1. xPendedTicks' \in TickType /\ 0 \in TickType
    <3>1. xPendedTicks \in TickType /\ xTicksToWait[t] \in TickType
      BY DEF TypeOK
    <3>2. xPendedTicks + xTicksToWait[t] \in Int
      BY <3>1 DEF TickType
    <3> QED BY <1>2, <3>2, WrapProperties, TickTypeFacts DEF xTaskCatchUpTicks
  <2> QED BY <1>2, <2>1 DEF xTaskCatchUpTicks, Goto, TypeOK, Labels, schedVars,
             frame, tcbVars, timeVars, countVars, loopVars, listVars
<1>3. ASSUME TaskEntry(t) PROVE TypeOK'
  BY <1>3 DEF TaskEntry, Goto, TypeOK, Labels, wakeVars, schedVars, frame,
              tcbVars, timeVars, countVars, loopVars, listVars
<1>4. ASSUME vTaskDelay(t) PROVE TypeOK'
  <2>1. /\ t = pxCurrentTCB /\ xTicksToWait[t] \in TickType
        /\ prvAddCurrentTaskToDelayedList(xTicksToWait[t], FALSE)
    BY <1>4 DEF vTaskDelay, At, TypeOK
  <2>2. StateListsOK' /\ xNextTaskUnblockTime' \in TickType
    BY <2>1, DelayFacts DEF TypeOK
  <2> QED BY <1>4, <2>2, TickTypeFacts DEF vTaskDelay, Goto, TypeOK, Labels,
             StateListsOK, schedVars, frame, tcbVars, timeVars, countVars, loopVars
<1>5. ASSUME xTaskDelayUntil(t) PROVE TypeOK'
  <2> DEFINE prev     == pxPreviousWakeTime[t]
             wake     == Wrap(prev + Period[t])
             deadline == Wrap(prev + Period[t] + Period[t])
  <2>1. /\ t = pxCurrentTCB
        /\ xDeadline' = [xDeadline EXCEPT ![t] = deadline]
        /\ pxPreviousWakeTime' = [pxPreviousWakeTime EXCEPT ![t] = wake]
        /\ Goto(t, "delayResume")
        /\ UNCHANGED <<schedVars, mode, event, eventValue, timeVars,
                       xPendedTicks, countVars, xTicksToWait, pxTCB,
                       pxEventList, loopVars>>
    BY <1>5 DEF xTaskDelayUntil, At
  <2>2. t \in Tasks
    BY <1>5, ConstantsAssumption DEF xTaskDelayUntil, At, IdleInv, AllTasks
  <2>3. /\ wake \in TickType /\ deadline \in TickType
        /\ Wrap(wake - xTickCount) \in TickType
    <3>1. prev \in Int /\ Period[t] \in Int
      BY <2>2, ConstantsAssumption, TickTypeFacts DEF TypeOK
    <3>2. wake \in TickType /\ deadline \in TickType
      BY <3>1, WrapProperties
    <3> HIDE DEF wake, deadline
    <3>3. wake - xTickCount \in Int
      BY <3>2, TickTypeFacts DEF TypeOK
    <3> QED BY <3>2, <3>3, WrapProperties
  <2>4. StateListsOK' /\ xNextTaskUnblockTime' \in TickType
    <3>1. CASE ShouldDelay(prev, wake)
      <4>1. prvAddCurrentTaskToDelayedList(Wrap(wake - xTickCount), FALSE)
        BY <1>5, <3>1 DEF xTaskDelayUntil
      <4> HIDE DEF wake
      <4> QED BY <2>1, <2>3, <4>1, DelayFacts DEF TypeOK
    <3>2. CASE ~ ShouldDelay(prev, wake)
      <4>1. /\ RefreshReadyItem(t, deadline)
            /\ UNCHANGED xNextTaskUnblockTime
        BY <1>5, <3>2 DEF xTaskDelayUntil
      <4> HIDE DEF deadline
      <4>2. InsertState("ready", t, deadline) \/ UNCHANGED <<state, stateValue>>
        BY <4>1 DEF RefreshReadyItem
      <4>3. StateListsOK'
        BY <2>3, <4>2, InsertStateFacts DEF StateListsOK, StateLists
      <4> QED BY <4>1, <4>3 DEF TypeOK
    <3> QED BY <3>1, <3>2
  <2> HIDE DEF prev, wake, deadline
  <2> QED BY <2>1, <2>3, <2>4 DEF TypeOK, StateListsOK, Goto, Labels, schedVars,
             timeVars, countVars, loopVars
<1>6. ASSUME vTaskPlaceOnEventList(t) PROVE TypeOK'
  <2>1. /\ t = pxCurrentTCB /\ xTicksToWait[t] \in TickType
        /\ pxEventList[t] \in EventObjects
        /\ prvAddCurrentTaskToDelayedList(xTicksToWait[t], TRUE)
    BY <1>6 DEF vTaskPlaceOnEventList, At, TypeOK, ArgsInv
  <2>2. StateListsOK' /\ xNextTaskUnblockTime' \in TickType
    BY <2>1, DelayFacts DEF TypeOK
  <2>3. event' \in [EventLists -> Seq(AllTasks)]
    <3> DEFINE e == pxEventList[t]
    <3>1. event[e] \in Seq(AllTasks) /\ eventValue \in [AllTasks -> Int]
      BY <2>1, TickTypeFacts DEF TypeOK, EventLists
    <3>2. vListInsert(event[e], eventValue, t) \in Seq(AllTasks)
      BY <3>1, ListInsertProperties
    <3>3. event' = [event EXCEPT ![e] = vListInsert(event[e], eventValue, t)]
      BY <1>6 DEF vTaskPlaceOnEventList
    <3> QED BY <2>1, <3>2, <3>3 DEF TypeOK, EventLists
  <2> QED BY <1>6, <2>2, <2>3, TickTypeFacts DEF vTaskPlaceOnEventList, Goto,
             TypeOK, Labels, StateListsOK, schedVars, frame, tcbVars, timeVars,
             countVars, loopVars
<1>7. ASSUME vPortYield(t) PROVE TypeOK'
  <2>1. mode # "main" /\ vTaskSwitchContext(state["ready"])
    BY <1>7 DEF vPortYield, At
  <2>2. xYieldPending' \in BOOLEAN /\ pxCurrentTCB' \in AllTasks
    BY <2>1, ReadyNotEmpty, SwitchFacts
  <2> QED BY <1>7, <2>2 DEF vPortYield, Goto, TypeOK, Labels, wakeVars, frame,
             tcbVars, timeVars, countVars, loopVars, listVars, argVars
<1>8. ASSUME prvAddNewTaskToReadyList(t) PROVE TypeOK'
  BY <1>8 DEF prvAddNewTaskToReadyList, Goto, TypeOK, Labels, wakeVars,
              schedVars, frame, tcbVars, timeVars, countVars, loopVars, listVars
<1>9. ASSUME vTaskSuspend(t) PROVE TypeOK'
  <2>1. UnblockTime(state["delayed"]) \in TickType
    BY UnblockTimeFacts DEF TypeOK, StateLists
  <2> QED BY <1>9, <2>1 DEF vTaskSuspend, prvResetNextTaskUnblockTime, Goto,
             TypeOK, Labels, schedVars, frame, tcbVars, timeVars, countVars,
             loopVars, listVars
<1>10. ASSUME prvDeleteTCB(t) PROVE TypeOK'
  BY <1>10 DEF prvDeleteTCB, vTaskSuspendAll, Goto, TypeOK, Labels, wakeVars,
               frame, tcbVars, timeVars, countVars, loopVars, listVars, argVars
<1> QED BY <1>1, <1>2, <1>3, <1>4, <1>5, <1>6, <1>7, <1>8, <1>9, <1>10
     DEF Continue

LEMMA TypeIdleLoop ==
  ASSUME IInv, IdleLoop
  PROVE  TypeOK'
<1> USE DEF IInv
<1>1. ASSUME prvCheckTasksWaitingTermination PROVE TypeOK'
  <2>1. PICK x \in Tasks :
          /\ state' = DetachedState(x) /\ Freed(x)
          /\ pc' = [pc EXCEPT ![Idle] = "free", ![x] = "run"]
    BY <1>1 DEF prvCheckTasksWaitingTermination
  <2>2. state' \in [StateLists -> Seq(AllTasks)]
    BY <2>1, DetachedFacts DEF DetachedState
  <2>3. pc' \in [AllTasks -> Labels]
    BY <2>1 DEF TypeOK, Labels
  <2>4. /\ xTicksToWait' \in [AllTasks -> TickType]
        /\ pxTCB' \in [AllTasks -> AllTasks \union {NULL}]
        /\ pxEventList' \in [AllTasks -> EventObjects \union {NULL}]
        /\ pxPreviousWakeTime' \in [AllTasks -> TickType]
    BY <2>1, TickTypeFacts DEF Freed, TypeOK
  <2>5. /\ uxCurrentNumberOfTasks' = uxCurrentNumberOfTasks - 1
        /\ uxDeletedTasksWaitingCleanUp' = uxDeletedTasksWaitingCleanUp - 1
        /\ UNCHANGED <<wakeVars, schedVars, mode, stateValue, event, tcbVars,
                       timeVars, loopVars>>
    BY <1>1 DEF prvCheckTasksWaitingTermination
  <2> QED BY <2>2, <2>3, <2>4, <2>5 DEF TypeOK, wakeVars, schedVars, tcbVars,
             timeVars, loopVars
<1>2. ASSUME IdleShouldYield PROVE TypeOK'
  BY <1>2 DEF IdleShouldYield, Goto, TypeOK, Labels, wakeVars, schedVars, frame,
              tcbVars, timeVars, countVars, loopVars, listVars, argVars
<1> QED BY <1>1, <1>2 DEF IdleLoop

LEMMA TypeCall ==
  ASSUME IInv, NEW t \in Tasks, Call(t)
  PROVE  TypeOK'
<1> USE DEF IInv
<1>0. t \in AllTasks /\ Tasks \subseteq AllTasks
  BY DEF AllTasks
<1>1. ASSUME CallSuspendAll(t) PROVE TypeOK'
  BY <1>1 DEF CallSuspendAll, vTaskSuspendAll, TypeOK, wakeVars, frame, tcbVars,
              timeVars, countVars, loopVars, listVars, argVars
<1>2. ASSUME CallResumeAll(t) PROVE TypeOK'
  BY <1>0, <1>2 DEF CallResumeAll, Goto, TypeOK, Labels, wakeVars, schedVars,
              frame, tcbVars, timeVars, countVars, loopVars, listVars, argVars
<1>3. ASSUME CallCatchUpTicks(t) PROVE TypeOK'
  <2>1. PICK n \in DelayTicks : xTicksToWait' = [xTicksToWait EXCEPT ![t] = n]
    BY <1>3 DEF CallCatchUpTicks
  <2>2. n \in TickType
    BY ConstantsAssumption
  <2>3. xTicksToWait' \in [AllTasks -> TickType]
    BY <2>1, <2>2 DEF TypeOK
  <2> QED BY <1>3, <2>3 DEF CallCatchUpTicks, vTaskSuspendAll, Goto,
             TypeOK, Labels, wakeVars, frame, tcbVars, timeVars, countVars,
             loopVars, listVars
<1>4. ASSUME CallDelayUntil(t) PROVE TypeOK'
  BY <1>0, <1>4 DEF CallDelayUntil, vTaskSuspendAll, Goto, TypeOK, Labels, wakeVars,
              frame, tcbVars, timeVars, countVars, loopVars, listVars, argVars
<1>5. ASSUME DeleteSelf(t) PROVE TypeOK'
  <2>1. AppendState("terminating", t) /\ event' = DetachedEvent(t)
    BY <1>5 DEF DeleteSelf
  <2>2. StateListsOK' /\ event' \in [EventLists -> Seq(AllTasks)]
    BY <1>0, <2>1, AppendStateFacts, DetachedEventFacts DEF TypeOK, StateLists
  <2>3. pc' \in [AllTasks -> Labels]
    BY <1>5 DEF DeleteSelf, Goto, TypeOK, Labels
  <2>4. uxDeletedTasksWaitingCleanUp' \in Int
    BY <1>5 DEF DeleteSelf, TypeOK
  <2> QED BY <1>5, <2>2, <2>3, <2>4 DEF DeleteSelf, TypeOK, StateListsOK,
             wakeVars, schedVars, tcbVars, timeVars, argVars, loopVars
<1>6. ASSUME NEW n \in TickType, CallDelay(t, n) PROVE TypeOK'
  <2>1. \E label \in {"delay", "yield"} : Goto(t, label)
    BY <1>6 DEF CallDelay
  <2>2. pc' \in [AllTasks -> Labels]
    BY <2>1 DEF Goto, TypeOK, Labels
  <2>3. uxSchedulerSuspended' \in Nat
    BY <1>6 DEF CallDelay, vTaskSuspendAll, TypeOK
  <2> QED BY <1>6, <2>2, <2>3 DEF CallDelay, TypeOK, wakeVars, frame, tcbVars,
             timeVars, countVars, loopVars, listVars
<1>7. ASSUME NEW e \in EventObjects, NEW n \in TickType, CallWait(t, e, n)
      PROVE  TypeOK'
  BY <1>0, <1>7 DEF CallWait, vTaskSuspendAll, Goto, TypeOK, Labels, wakeVars, frame,
              tcbVars, timeVars, countVars, loopVars, listVars
<1>8. ASSUME NEW e \in EventObjects, CallSignal(t, e) PROVE TypeOK'
  <2> DEFINE x == Head(event[e])
  <2>1. /\ event[e] # <<>> /\ xTaskRemoveFromEventList(e) /\ mode = "task"
        /\ YieldIfEarlier(x, state'["ready"])
        /\ UNCHANGED <<wakeVars, frame, uxSchedulerSuspended, pc, argVars>>
    BY <1>8 DEF CallSignal, Calling, At
  <2>2. /\ StateListsOK' /\ event' \in [EventLists -> Seq(AllTasks)]
        /\ Items(state'["ready"]) # {}
    <3>1. Items(state["ready"]) # {}
      BY <2>1, ReadyNotEmpty
    <3> QED BY <2>1, <3>1, SignalFacts DEF Readied, Moved, StateListsOK
  <2>3. xYieldPending' \in BOOLEAN /\ pxCurrentTCB' \in AllTasks \union {NULL}
    <3>1. \/ vTaskSwitchContext(state'["ready"])
          \/ UNCHANGED <<xYieldPending, pxCurrentTCB>>
      BY <2>1 DEF YieldIfEarlier
    <3> QED BY <2>2, <3>1, SwitchFacts DEF TypeOK, StateListsOK, StateLists
  <2> QED BY <2>1, <2>2, <2>3 DEF TypeOK, StateListsOK, wakeVars, frame,
             tcbVars, timeVars, countVars, loopVars, argVars
<1>9. ASSUME NEW x \in Tasks, NEW d \in TickType, CallCreate(t, x, d)
      PROVE  TypeOK'
  <2>1. /\ x \in AllTasks /\ InsertState("ready", x, d)
        /\ xDeadline' = [xDeadline EXCEPT ![x] = d]
        /\ eventValue' = [eventValue EXCEPT ![x] = d]
        /\ uxCurrentNumberOfTasks' = uxCurrentNumberOfTasks + 1
        /\ pxTCB' = [pxTCB EXCEPT ![t] = x]
        /\ pc' = [pc EXCEPT ![t] = "create", ![x] = EntryLabel(x)]
        /\ UNCHANGED <<event, uxDeletedTasksWaitingCleanUp, wakeVars, schedVars,
                       mode, timeVars, xTicksToWait, pxEventList,
                       pxPreviousWakeTime, loopVars>>
    BY <1>0, <1>9 DEF CallCreate, AddNewTask
  <2>2. StateListsOK'
    BY <2>1, InsertStateFacts DEF StateLists
  <2>3. EntryLabel(x) \in Labels /\ "create" \in Labels
    BY DEF EntryLabel, Labels
  <2>4. /\ xDeadline' \in [AllTasks -> TickType]
        /\ eventValue' \in [AllTasks -> TickType]
        /\ pxTCB' \in [AllTasks -> AllTasks \union {NULL}]
    BY <1>0, <2>1 DEF TypeOK
  <2>5. pc' \in [AllTasks -> Labels]
    BY <2>1, <2>3 DEF TypeOK
  <2>6. uxCurrentNumberOfTasks' \in Int
    BY <2>1 DEF TypeOK
  <2> QED BY <2>1, <2>2, <2>4, <2>5, <2>6 DEF TypeOK, StateListsOK, wakeVars,
             schedVars, timeVars, loopVars
<1>10. ASSUME NEW x \in Tasks, CallSuspend(t, x) PROVE TypeOK'
  <2>1. /\ x \in AllTasks /\ AppendState("suspended", x)
        /\ event' = DetachedEvent(x)
    BY <1>0, <1>10 DEF CallSuspend
  <2>2. StateListsOK' /\ event' \in [EventLists -> Seq(AllTasks)]
    BY <2>1, AppendStateFacts, DetachedEventFacts DEF TypeOK, StateLists
  <2> QED BY <1>10, <2>1, <2>2 DEF CallSuspend, Goto, TypeOK, StateListsOK,
             Labels, wakeVars, schedVars, frame, tcbVars, timeVars, countVars,
             loopVars
<1>11. ASSUME NEW x \in Tasks, vTaskResume(t, x) PROVE TypeOK'
  <2>1. /\ x \in AllTasks /\ prvAddTaskToReadyList(x)
        /\ YieldIfEarlier(x, state'["ready"])
        /\ UNCHANGED <<wakeVars, frame, event, uxSchedulerSuspended, pc, argVars>>
    BY <1>0, <1>11 DEF vTaskResume
  <2>2. StateListsOK' /\ Items(state'["ready"]) # {}
    BY <2>1, ReadiedFacts DEF Readied, Moved
  <2>3. xYieldPending' \in BOOLEAN /\ pxCurrentTCB' \in AllTasks \union {NULL}
    <3>1. \/ vTaskSwitchContext(state'["ready"])
          \/ UNCHANGED <<xYieldPending, pxCurrentTCB>>
      BY <2>1 DEF YieldIfEarlier
    <3> QED BY <2>2, <3>1, SwitchFacts DEF TypeOK, StateListsOK, StateLists
  <2> QED BY <2>1, <2>2, <2>3 DEF TypeOK, StateListsOK, wakeVars, frame,
             tcbVars, timeVars, countVars, loopVars, argVars
<1>12. ASSUME NEW x \in Tasks, DeleteOther(t, x) PROVE TypeOK'
  <2>1. /\ x \in AllTasks /\ state' = DetachedState(x)
        /\ event' = DetachedEvent(x) /\ Freed(x)
        /\ pc' = [pc EXCEPT ![t] = "free", ![x] = "run"]
        /\ uxCurrentNumberOfTasks' = uxCurrentNumberOfTasks - 1
        /\ xNextTaskUnblockTime' = UnblockTime(DetachedState(x)["delayed"])
        /\ UNCHANGED <<schedVars, mode, stateValue, tcbVars, timeVars,
                       xPendedTicks, uxDeletedTasksWaitingCleanUp, loopVars>>
    BY <1>0, <1>12 DEF DeleteOther, prvResetNextTaskUnblockTime
  <2>2. state' \in [StateLists -> Seq(AllTasks)]
    BY <2>1, DetachedFacts DEF DetachedState
  <2>3. xNextTaskUnblockTime' \in TickType
    BY <2>1, DetachedFacts, UnblockTimeFacts DEF StateLists
  <2>4. event' \in [EventLists -> Seq(AllTasks)]
    BY <2>1, DetachedEventFacts DEF TypeOK
  <2>5. /\ xTicksToWait' \in [AllTasks -> TickType]
        /\ pxTCB' \in [AllTasks -> AllTasks \union {NULL}]
        /\ pxEventList' \in [AllTasks -> EventObjects \union {NULL}]
        /\ pxPreviousWakeTime' \in [AllTasks -> TickType]
    BY <2>1, TickTypeFacts DEF Freed, TypeOK
  <2>6. pc' \in [AllTasks -> Labels] /\ uxCurrentNumberOfTasks' \in Int
    BY <2>1 DEF TypeOK, Labels
  <2> QED BY <2>1, <2>2, <2>3, <2>4, <2>5, <2>6 DEF TypeOK, schedVars, tcbVars,
             timeVars, loopVars
<1> QED BY <1>1, <1>2, <1>3, <1>4, <1>5, <1>6, <1>7, <1>8, <1>9, <1>10, <1>11,
           <1>12 DEF Call

-----------------------------------------------------------------------------
(* The lists of state items, and the order of the delayed ones.             *)

LEMMA QuietFacts ==
  ASSUME QuietStep
  PROVE  /\ UNCHANGED <<state, stateValue, xTickCount, xNextTaskUnblockTime>>
         /\ mode \notin {"main", "tick"} /\ mode' \notin {"main", "tick"}
<1> DEFINE Goal ==
      /\ UNCHANGED <<state, stateValue, xTickCount, xNextTaskUnblockTime>>
      /\ mode \notin {"main", "tick"} /\ mode' \notin {"main", "tick"}
<1>1. CASE TickWhileSuspended
  BY <1>1 DEF TickWhileSuspended, frame, timeVars, listVars
<1>2. CASE TickReturn
  BY <1>2 DEF TickReturn, wakeVars, timeVars, listVars
<1>3. CASE ResumeAllReturn
  BY <1>3 DEF ResumeAllReturn, TicksCaughtUp, timeVars, listVars
<1>4. CASE IdleShouldYield
  BY <1>4 DEF IdleShouldYield, At, wakeVars, frame, timeVars, listVars
<1>5. ASSUME NEW t \in AllTasks, xTaskResumeAll(t) PROVE Goal
  BY <1>5 DEF xTaskResumeAll, At, ResumeMode, wakeVars, timeVars, listVars
<1>6. ASSUME NEW t \in AllTasks,
             \/ xTaskCatchUpTicks(t) \/ TaskEntry(t) \/ vPortYield(t)
             \/ prvAddNewTaskToReadyList(t) \/ prvDeleteTCB(t)
      PROVE  Goal
  BY <1>6 DEF xTaskCatchUpTicks, TaskEntry, vPortYield, prvAddNewTaskToReadyList,
              prvDeleteTCB, At, wakeVars, frame, timeVars, listVars
<1>7. ASSUME NEW t \in Tasks,
             \/ CallSuspendAll(t) \/ CallResumeAll(t) \/ CallCatchUpTicks(t)
             \/ CallDelayUntil(t)
      PROVE  Goal
  BY <1>7 DEF CallSuspendAll, CallResumeAll, CallCatchUpTicks, CallDelayUntil,
              Calling, At, wakeVars, frame, timeVars, listVars
<1>8. ASSUME NEW t \in Tasks, NEW n \in TickType, CallDelay(t, n) PROVE Goal
  BY <1>8 DEF CallDelay, Calling, At, wakeVars, frame, timeVars, listVars
<1>9. ASSUME NEW t \in Tasks, NEW n \in TickType, NEW e \in EventObjects,
             CallWait(t, e, n)
      PROVE  Goal
  BY <1>9 DEF CallWait, Calling, At, wakeVars, frame, timeVars, listVars
<1> QED BY <1>1, <1>2, <1>3, <1>4, <1>5, <1>6, <1>7, <1>8, <1>9 DEF QuietStep

(* A step that moves one task to a list other than the delayed ones, or     *)
(* takes it out of all lists.                                               *)
LEMMA MovedLists ==
  ASSUME IInv, StateListsOK', NEW t \in AllTasks,
         NEW list \in StateLists \ {"delayed", "overflow"},
         \/ Moved(list, t) /\ (t = Idle => list = "ready")
         \/ Removed(t) /\ t # Idle,
         \A x \in AllTasks \ {t} : stateValue'[x] = stateValue[x],
         \A l \in {"delayed", "overflow"} :
           Sorted(state[l], stateValue) => Sorted(state'[l], stateValue'),
         xTickCount' = xTickCount, mode' = mode \/ mode = "resume",
         \/ xNextTaskUnblockTime' = xNextTaskUnblockTime
         \/ \A x \in Items(state'["delayed"]) :
              stateValue'[x] >= xNextTaskUnblockTime'
  PROVE  ListsInv'
<1> USE DEF IInv
<1>1. Disjoint'
  BY MovedDisjoint
<1>2. mode' # "main" => Idle \in Items(state'["ready"])
  <2>1. ASSUME mode' # "main" PROVE Idle \in Items(state["ready"])
    BY <2>1 DEF IdleInv
  <2> QED BY <2>1 DEF Moved, Removed, StateLists
<1>3. DelayListsInv'
  <2>1. \A l \in {"delayed", "overflow"} : Items(state'[l]) = Items(state[l]) \ {t}
    BY DEF Moved, Removed, StateLists
  <2>2. \A l \in {"delayed", "overflow"} : Items(state[l]) \subseteq AllTasks
    BY ItemsTyped DEF StateListsOK, StateLists
  <2>3. \A l \in {"delayed", "overflow"} : \A x \in Items(state'[l]) :
          x \in Items(state[l]) /\ stateValue'[x] = stateValue[x]
    BY <2>1, <2>2
  <2>4. Sorted(state'["delayed"], stateValue') /\ Sorted(state'["overflow"], stateValue')
    BY DEF DelayListsInv
  <2> QED BY <2>3, <2>4, DelayListsKept
<1> QED BY <1>1, <1>2, <1>3 DEF ListsInv

(* Steps that ready a task.                                                 *)
LEMMA ReadiedLists ==
  ASSUME IInv, NEW t \in AllTasks, Readied(t),
         xTickCount' = xTickCount, mode' = mode \/ mode = "resume",
         \/ xNextTaskUnblockTime' = xNextTaskUnblockTime
         \/ \A x \in Items(state'["delayed"]) :
              stateValue'[x] >= xNextTaskUnblockTime'
  PROVE  ListsInv'
<1>1. /\ Moved("ready", t) /\ StateListsOK'
      /\ "ready" \in StateLists \ {"delayed", "overflow"}
      /\ \A l \in {"delayed", "overflow"} :
           Sorted(state[l], stateValue) => Sorted(state'[l], stateValue')
  BY DEF Readied, StateLists
<1>2. \A x \in AllTasks \ {t} : stateValue'[x] = stateValue[x]
  BY DEF Readied, IInv, StateListsOK
<1> QED BY <1>1, <1>2, MovedLists

LEMMA ListsSame ==
  ASSUME IInv, UNCHANGED <<state, stateValue, xTickCount>>,
         mode # "main", mode = "tick" => mode' = "tick",
         \/ xNextTaskUnblockTime' = xNextTaskUnblockTime
         \/ \A x \in Items(state["delayed"]) :
              stateValue[x] >= xNextTaskUnblockTime'
  PROVE  ListsInv'
<1>1. StateListsOK' /\ Disjoint'
  BY DEF IInv, StateListsOK, Disjoint
<1>2. DelayListsInv'
  BY DelayListsKept DEF IInv, DelayListsInv
<1>3. Idle \in Items(state'["ready"])
  BY DEF IInv, IdleInv
<1> QED BY <1>1, <1>2, <1>3 DEF ListsInv

(* The tick: at the wrap the list of the times after it becomes current,    *)
(* and the list that was current is empty.                                  *)
LEMMA ListsTick ==
  ASSUME IInv, mode \notin {"main", "tick"}, xTaskIncrementTick
  PROVE  ListsInv'
<1> DEFINE tick == Wrap(xTickCount + 1)
<1> USE DEF IInv
<1>1. /\ stateValue' = stateValue /\ xTickCount' = tick
      /\ mode' = IF tick >= xNextTaskUnblockTime' THEN "tick" ELSE "tickDone"
  BY DEF xTaskIncrementTick
<1>2. /\ state \in [StateLists -> Seq(AllTasks)] /\ xTickCount \in 0..MaxDelay
      /\ stateValue \in [AllTasks -> TickType]
      /\ \A l \in {"delayed", "overflow"} : Items(state[l]) \subseteq AllTasks
  BY ItemsTyped DEF TypeOK, TickType, StateLists
<1>3. \A t \in AllTasks : stateValue[t] \in 0..MaxDelay
  BY <1>2 DEF TickType
<1>4. \A t \in Items(state["delayed"]) :
        stateValue[t] > xTickCount /\ stateValue[t] >= xNextTaskUnblockTime
  BY DEF DelayListsInv
<1>5. \A t \in Items(state["overflow"]) : stateValue[t] < xTickCount
  BY DEF DelayListsInv
<1>6. CASE xTickCount = MaxDelay
  <2>1. tick = 0
    BY <1>6, WrapProperties, ConstantsAssumption
  <2>2. state' = [state EXCEPT !["delayed"] = state["overflow"],
                               !["overflow"] = state["delayed"]]
    BY <2>1 DEF xTaskIncrementTick
  <2>3. /\ state'["delayed"] = state["overflow"]
        /\ state'["overflow"] = state["delayed"]
        /\ \A l \in StateLists \ {"delayed", "overflow"} : state'[l] = state[l]
        /\ state' = [l \in StateLists |-> state'[l]]
    BY <1>2, <2>2 DEF StateLists
  <2>4. xNextTaskUnblockTime' = UnblockTime(state'["delayed"])
    BY <2>1, <2>2 DEF xTaskIncrementTick
  <2>5. Items(state["delayed"]) = {}
    BY <1>2, <1>3, <1>4, <1>6, ConstantsAssumption
  <2>6. StateListsOK' /\ Disjoint'
    <3> DEFINE old(l) == IF l = "delayed" THEN "overflow"
                         ELSE IF l = "overflow" THEN "delayed" ELSE l
    <3>1. \A l \in StateLists : old(l) \in StateLists /\ state'[l] = state[old(l)]
      BY <2>3 DEF StateLists
    <3>2. \A l, m \in StateLists : l # m => old(l) # old(m)
      OBVIOUS
    <3>3. state' \in [StateLists -> Seq(AllTasks)]
      BY <1>2, <2>2 DEF StateLists
    <3> HIDE DEF old
    <3>4. StateListsOK'
      BY <1>1, <1>2, <3>1, <3>3 DEF StateListsOK
    <3>5. Disjoint'
      BY <3>1, <3>2 DEF Disjoint
    <3> QED BY <3>4, <3>5
  <2>7. \A t \in Items(state'["delayed"]) :
          xNextTaskUnblockTime' <= stateValue[t]
    <3>1. state["overflow"] \in Seq(AllTasks) /\ Sorted(state["overflow"], stateValue)
      BY <1>2 DEF DelayListsInv, StateLists
    <3> QED BY <2>3, <2>4, <3>1, UnblockTimeFacts
  <2>8. DelayListsInv'
    <3>1. \A t \in Items(state'["delayed"]) : stateValue[t] \in 0..MaxDelay
      BY <1>2, <1>3, <2>3
    <3>2. xNextTaskUnblockTime' \in 0..MaxDelay
      BY <1>2, <2>3, <2>4, UnblockTimeFacts DEF TickType, StateLists
    <3>3. Sorted(state'["delayed"], stateValue') /\ Sorted(state'["overflow"], stateValue')
      BY <1>1, <2>3 DEF DelayListsInv
    <3>4. ASSUME NEW t \in Items(state'["delayed"])
          PROVE  /\ stateValue'[t] >= xTickCount'
                 /\ mode' # "tick" => /\ stateValue'[t] > xTickCount'
                                      /\ stateValue'[t] >= xNextTaskUnblockTime'
      <4>1. /\ stateValue[t] \in 0..MaxDelay /\ xNextTaskUnblockTime' <= stateValue[t]
            /\ xTickCount' = 0 /\ stateValue'[t] = stateValue[t]
        BY <1>1, <2>1, <2>7, <3>1
      <4>2. mode' # "tick" => 0 < xNextTaskUnblockTime'
        BY <1>1, <2>1, <3>2, ConstantsAssumption
      <4> QED BY <3>2, <4>1, <4>2, ConstantsAssumption
    <3> QED BY <2>3, <2>5, <3>3, <3>4 DEF DelayListsInv
  <2>9. Idle \in Items(state'["ready"])
    BY <2>3 DEF IdleInv, StateLists
  <2> QED BY <2>6, <2>8, <2>9 DEF ListsInv
<1>7. CASE xTickCount # MaxDelay
  <2>1. tick = xTickCount + 1
    <3>1. xTickCount + 1 \in 0..MaxDelay
      BY <1>2, <1>7, ConstantsAssumption
    <3> QED BY <3>1, WrapProperties
  <2>2. tick # 0
    BY <1>2, <2>1, ConstantsAssumption
  <2>3. state' = state /\ xNextTaskUnblockTime' = xNextTaskUnblockTime
    BY <2>2 DEF xTaskIncrementTick
  <2>4. StateListsOK' /\ Disjoint'
    BY <1>1, <2>3 DEF StateListsOK, Disjoint
  <2>5. xNextTaskUnblockTime \in 0..MaxDelay
    BY DEF TypeOK, TickType
  <2>6. ASSUME NEW t \in Items(state["delayed"])
        PROVE  /\ stateValue[t] >= tick
               /\ mode' # "tick" => stateValue[t] > tick
    <3>1. stateValue[t] \in 0..MaxDelay
      BY <1>2, <1>3
    <3>2. mode' # "tick" => ~ (tick >= xNextTaskUnblockTime)
      BY <1>1, <2>3
    <3> QED BY <1>2, <1>4, <2>1, <2>5, <3>1, <3>2, ConstantsAssumption
  <2>7. \A t \in Items(state["overflow"]) : stateValue[t] < tick
    <3>1. \A t \in Items(state["overflow"]) : stateValue[t] \in 0..MaxDelay
      BY <1>2, <1>3
    <3> QED BY <1>2, <1>5, <2>1, <3>1, ConstantsAssumption
  <2>8. DelayListsInv'
    BY <1>1, <1>4, <2>3, <2>6, <2>7 DEF DelayListsInv
  <2>9. Idle \in Items(state'["ready"])
    BY <2>3 DEF IdleInv
  <2> QED BY <2>4, <2>8, <2>9 DEF ListsInv
<1> QED BY <1>6, <1>7

(* An unblock time that is computed anew is that of the first delayed task. *)
LEMMA ResetUnblockTime ==
  ASSUME StateListsOK, NEW list \in Seq(AllTasks), Sorted(list, stateValue),
         xNextTaskUnblockTime' = UnblockTime(list)
  PROVE  \A x \in Items(list) : stateValue[x] >= xNextTaskUnblockTime'
<1>1. \A x \in Items(list) : UnblockTime(list) <= stateValue[x]
  BY UnblockTimeFacts
<1>2. UnblockTime(list) \in Int /\ \A x \in AllTasks : stateValue[x] \in Int
  BY UnblockTimeFacts, TickTypeFacts DEF StateListsOK
<1>3. Items(list) \subseteq AllTasks
  BY ItemsTyped
<1> QED BY <1>1, <1>2, <1>3

LEMMA ListsMain ==
  ASSUME IInv, Main
  PROVE  ListsInv'
<1> USE DEF IInv
<1>1. ASSUME NEW t \in Tasks, NEW d \in TickType, MainCreate(t, d)
      PROVE  ListsInv'
  <2>1. /\ InsertState("ready", t, d) /\ t \in AllTasks
        /\ "ready" \in StateLists \ {"delayed", "overflow"}
        /\ UNCHANGED <<mode, xTickCount, xNextTaskUnblockTime>>
    BY <1>1 DEF MainCreate, AddNewTask, AllTasks, StateLists, timeVars, wakeVars
  <2>2. /\ StateListsOK' /\ Moved("ready", t)
        /\ stateValue' = [stateValue EXCEPT ![t] = d]
        /\ \A l \in {"delayed", "overflow"} :
             Sorted(state[l], stateValue) => Sorted(state'[l], stateValue')
    BY <2>1, InsertStateFacts DEF StateLists
  <2>3. \A x \in AllTasks \ {t} : stateValue'[x] = stateValue[x]
    BY <2>2 DEF StateListsOK
  <2> QED BY <2>1, <2>2, <2>3, MovedLists
<1>2. ASSUME NEW t \in Tasks, MainSuspend(t)
      PROVE  ListsInv'
  <2>1. /\ AppendState("suspended", t) /\ t \in AllTasks /\ t # Idle
        /\ "suspended" \in StateLists \ {"delayed", "overflow"}
        /\ UNCHANGED <<mode, xTickCount, xNextTaskUnblockTime>>
    BY <1>2, ConstantsAssumption
       DEF MainSuspend, AllTasks, StateLists, frame, timeVars, wakeVars
  <2>2. /\ StateListsOK' /\ Moved("suspended", t) /\ stateValue' = stateValue
        /\ \A l \in {"delayed", "overflow"} :
             Sorted(state[l], stateValue) => Sorted(state'[l], stateValue')
    BY <2>1, AppendStateFacts DEF StateLists
  <2> QED BY <2>1, <2>2, MovedLists
<1>3. ASSUME vTaskStartScheduler
      PROVE  ListsInv'
  <2>1. InsertState("ready", Idle, MaxDelay) /\ Idle \in AllTasks /\ mode = "main"
    BY <1>3 DEF vTaskStartScheduler, AddNewTask, AllTasks
  <2>2. /\ StateListsOK' /\ Moved("ready", Idle)
        /\ \A l \in StateLists :
             Sorted(state[l], stateValue) => Sorted(state'[l], stateValue')
    BY <2>1, TickTypeFacts, InsertStateFacts DEF StateLists
  <2>3. Disjoint' /\ Idle \in Items(state'["ready"])
    BY <2>2, MovedDisjoint DEF Moved, StateLists
  <2>4. Items(state'["delayed"]) = {} /\ Items(state'["overflow"]) = {}
    BY <2>1, <2>2 DEF MainInv, Moved, StateLists
  <2>5. DelayListsInv'
    BY <2>2, <2>4 DEF DelayListsInv, StateLists
  <2> QED BY <2>2, <2>3, <2>5 DEF ListsInv
<1> QED BY <1>1, <1>2, <1>3 DEF Main

LEMMA ListsInterrupt ==
  ASSUME IInv, Interrupt, ~ TickWhileSuspended
  PROVE  ListsInv'
<1> USE DEF IInv
<1>1. ASSUME TickISR PROVE ListsInv'
  BY <1>1, ListsTick DEF TickISR
<1>2. ASSUME NEW t \in Tasks, xTaskResumeFromISR(t) PROVE ListsInv'
  <2>1. UNCHANGED <<mode, xTickCount, xNextTaskUnblockTime>> /\ t \in AllTasks
        /\ mode = "task"
    BY <1>2 DEF xTaskResumeFromISR, frame, timeVars, wakeVars, AllTasks
  <2>2. CASE uxSchedulerSuspended = 0
    BY <1>2, <2>1, <2>2, ReadiedFacts, ReadiedLists DEF xTaskResumeFromISR
  <2>3. CASE uxSchedulerSuspended # 0
    BY <1>2, <2>1, <2>3, ListsSame DEF xTaskResumeFromISR
  <2> QED BY <2>2, <2>3
<1>3. ASSUME NEW e \in EventObjects, SignalFromISR(e) PROVE ListsInv'
  <2>1. /\ UNCHANGED <<mode, xTickCount, xNextTaskUnblockTime>>
        /\ mode = "task" /\ event[e] # <<>> /\ xTaskRemoveFromEventList(e)
    BY <1>3 DEF SignalFromISR, frame, timeVars, wakeVars
  <2>2. /\ Head(event[e]) \in AllTasks
        /\ Readied(Head(event[e])) \/ UNCHANGED <<state, stateValue>>
    BY <2>1, SignalFacts
  <2> QED BY <2>1, <2>2, ReadiedLists, ListsSame
<1> QED BY <1>1, <1>2, <1>3 DEF Interrupt

LEMMA ListsMasked ==
  ASSUME IInv, UnblockTask \/ UnblockDone \/ ResumePendingTask \/ ResumePendedTick
  PROVE  ListsInv'
<1> USE DEF IInv
<1>1. ASSUME UnblockTask PROVE ListsInv'
  <2> DEFINE t == Head(state["delayed"])
  <2>1. t \in AllTasks
    BY <1>1, NonemptyHead DEF UnblockTask, TypeOK, StateLists
  <2>2. /\ prvAddTaskToReadyList(t)
        /\ UNCHANGED <<mode, xTickCount, xNextTaskUnblockTime>>
    BY <1>1 DEF UnblockTask, wakeVars, timeVars
  <2> HIDE DEF t
  <2> QED BY <2>1, <2>2, ReadiedFacts, ReadiedLists
<1>2. ASSUME UnblockDone PROVE ListsInv'
  <2> DEFINE delayed == state["delayed"]
  <2>1. /\ delayed # <<>> => ~ Due(Head(delayed))
        /\ xNextTaskUnblockTime' = UnblockTime(delayed)
        /\ mode' = "tickDone"
        /\ UNCHANGED <<state, stateValue, xTickCount>>
    BY <1>2 DEF UnblockDone, prvResetNextTaskUnblockTime, listVars, timeVars
  <2>2. /\ delayed \in Seq(AllTasks) /\ Sorted(delayed, stateValue)
        /\ stateValue \in [AllTasks -> Int]
    BY TickTypeFacts DEF TypeOK, StateLists, DelayListsInv
  <2>3. \A x \in Items(delayed) : stateValue[x] >= xNextTaskUnblockTime'
    BY <2>1, <2>2, ResetUnblockTime
  <2>4. \A x \in Items(delayed) : stateValue[x] > xTickCount
    <3> SUFFICES ASSUME NEW x \in Items(delayed) PROVE stateValue[x] > xTickCount
      OBVIOUS
    <3>1. delayed # <<>>
      BY <2>2, NonemptyHead
    <3>2. Head(delayed) \in AllTasks /\ stateValue[Head(delayed)] <= stateValue[x]
      BY <2>2, <3>1, NonemptyHead, HeadIsMinimum
    <3>3. ~ (xTickCount >= stateValue[Head(delayed)])
      BY <2>1, <3>1 DEF Due
    <3>4. x \in AllTasks
      BY <2>2, ItemsTyped
    <3>5. xTickCount \in Int
      BY TickTypeFacts DEF TypeOK
    <3> QED BY <2>2, <3>2, <3>3, <3>4, <3>5
  <2>5. StateListsOK' /\ Disjoint' /\ Idle \in Items(state'["ready"])
    BY <1>2, <2>1 DEF StateListsOK, Disjoint, IdleInv, UnblockDone
  <2>6. DelayListsInv'
    BY <2>1, <2>3, <2>4 DEF DelayListsInv
  <2> QED BY <2>5, <2>6 DEF ListsInv
<1>3. ASSUME ResumePendingTask PROVE ListsInv'
  <2> DEFINE t == Head(event["pendingReady"])
  <2>1. t \in AllTasks
    <3>1. event["pendingReady"] \in Seq(AllTasks) /\ event["pendingReady"] # <<>>
      BY <1>3 DEF ResumePendingTask, TypeOK, SuspendInv, EventLists
    <3> QED BY <3>1, NonemptyHead
  <2>2. /\ prvAddTaskToReadyList(t) /\ xTickCount' = xTickCount /\ mode = "resume"
        /\ \/ xNextTaskUnblockTime' = xNextTaskUnblockTime
           \/ xNextTaskUnblockTime' = UnblockTime(DetachedState(t)["delayed"])
    BY <1>3 DEF ResumePendingTask, prvResetNextTaskUnblockTime, timeVars
  <2> HIDE DEF t
  <2>3. Readied(t)
    BY <2>1, <2>2, ReadiedFacts
  <2>4. \/ xNextTaskUnblockTime' = xNextTaskUnblockTime
        \/ \A x \in Items(state'["delayed"]) :
             stateValue'[x] >= xNextTaskUnblockTime'
    <3> SUFFICES ASSUME xNextTaskUnblockTime' = UnblockTime(DetachedState(t)["delayed"])
                 PROVE  \A x \in Items(state'["delayed"]) :
                          stateValue'[x] >= xNextTaskUnblockTime'
      BY <2>2
    <3> DEFINE delayed == DetachedState(t)["delayed"]
    <3>1. /\ delayed \in Seq(AllTasks) /\ Sorted(delayed, stateValue)
          /\ Items(delayed) = Items(state["delayed"]) \ {t}
      BY DetachedFacts DEF StateLists, DelayListsInv
    <3>2. \A x \in Items(delayed) : stateValue[x] >= xNextTaskUnblockTime'
      BY <3>1, ResetUnblockTime
    <3>3. Items(state'["delayed"]) = Items(delayed)
      BY <2>3, <3>1 DEF Readied, Moved, StateLists
    <3>4. \A x \in Items(delayed) : stateValue'[x] = stateValue[x]
      BY <2>3, <3>1, ItemsTyped DEF Readied, StateListsOK
    <3> QED BY <3>2, <3>3, <3>4
  <2> QED BY <2>1, <2>2, <2>3, <2>4, ReadiedLists
<1>4. ASSUME ResumePendedTick PROVE ListsInv'
  BY <1>4, ListsTick DEF ResumePendedTick
<1> QED BY <1>1, <1>2, <1>3, <1>4

(* The current task, which is not the idle task, blocks.                    *)
LEMMA ListsDelay ==
  ASSUME IInv, pxCurrentTCB \in Tasks, mode = "task", mode' = "task",
         xTickCount' = xTickCount,
         NEW ticks \in TickType, ticks > 0, NEW f \in BOOLEAN,
         prvAddCurrentTaskToDelayedList(ticks, f)
  PROVE  ListsInv'
<1> USE DEF IInv
<1>1. /\ pxCurrentTCB \in AllTasks /\ pxCurrentTCB # Idle
      /\ xTickCount \in TickType /\ xNextTaskUnblockTime \in TickType
  BY ConstantsAssumption DEF AllTasks, TypeOK
<1>2. PICK list \in {"delayed", "overflow", "suspended"} : Moved(list, pxCurrentTCB)
  BY <1>1, DelayFacts
<1>3. StateListsOK' /\ list \in StateLists
  BY <1>1, DelayFacts DEF StateLists
<1>4. Disjoint'
  BY <1>2, <1>3, MovedDisjoint
<1>5. DelayListsInv'
  BY <1>1, DelayKeepsOrder
<1>6. Idle \in Items(state'["ready"])
  BY <1>1, <1>2 DEF Moved, IdleInv, StateLists
<1> QED BY <1>3, <1>4, <1>5, <1>6 DEF ListsInv

LEMMA ListsContinue ==
  ASSUME IInv, NEW t \in AllTasks,
         \/ vTaskDelay(t) \/ xTaskDelayUntil(t) \/ vTaskPlaceOnEventList(t)
         \/ vTaskSuspend(t)
  PROVE  ListsInv'
<1> USE DEF IInv
<1>1. ASSUME vTaskDelay(t) PROVE ListsInv'
  <2>1. /\ pxCurrentTCB \in Tasks /\ mode = "task" /\ mode' = "task"
        /\ xTickCount' = xTickCount
        /\ xTicksToWait[t] \in TickType /\ xTicksToWait[t] > 0
        /\ prvAddCurrentTaskToDelayedList(xTicksToWait[t], FALSE)
    BY <1>1 DEF vTaskDelay, At, IdleInv, ArgsInv, AllTasks, TypeOK, frame, timeVars
  <2> QED BY <2>1, ListsDelay
<1>2. ASSUME xTaskDelayUntil(t) PROVE ListsInv'
  <2> DEFINE prev     == pxPreviousWakeTime[t]
             wake     == Wrap(prev + Period[t])
             deadline == Wrap(prev + Period[t] + Period[t])
             ticks    == Wrap(wake - xTickCount)
  <2>1. /\ t = pxCurrentTCB /\ t \in Tasks /\ mode = "task" /\ mode' = "task"
        /\ xTickCount' = xTickCount
    BY <1>2 DEF xTaskDelayUntil, At, IdleInv, AllTasks, timeVars
  <2>2. prev \in TickType /\ Period[t] \in TickType /\ xTickCount \in 0..MaxDelay
    BY <2>1, ConstantsAssumption DEF TypeOK, TickType
  <2>3. wake \in 0..MaxDelay /\ deadline \in TickType
    BY <2>2, WrapProperties, TickTypeFacts DEF TickType
  <2>4. CASE ShouldDelay(prev, wake)
    <3>1. prvAddCurrentTaskToDelayedList(ticks, FALSE)
      BY <1>2, <2>4 DEF xTaskDelayUntil
    <3> HIDE DEF wake
    <3>2. wake # xTickCount
      BY <2>2, <2>3, <2>4, ConstantsAssumption DEF ShouldDelay, TickType
    <3>3. ticks \in TickType /\ ticks > 0
      <4> DEFINE diff == wake - xTickCount
      <4>1. diff \in 1..MaxDelay \/ diff \in (-MaxDelay)..(-1)
        BY <2>2, <2>3, <3>2, ConstantsAssumption
      <4> HIDE DEF diff
      <4>2. Wrap(diff) \in 1..MaxDelay
        BY <4>1, WrapProperties, ConstantsAssumption
      <4> QED BY <4>2, ConstantsAssumption DEF TickType, diff
    <3> HIDE DEF ticks
    <3> QED BY <2>1, <3>1, <3>3, ListsDelay
  <2>5. CASE ~ ShouldDelay(prev, wake)
    <3>1. RefreshReadyItem(t, deadline) /\ UNCHANGED xNextTaskUnblockTime
      BY <1>2, <2>5 DEF xTaskDelayUntil
    <3> HIDE DEF deadline
    <3>2. CASE UNCHANGED <<state, stateValue>>
      BY <2>1, <3>1, <3>2, ListsSame
    <3>3. CASE InsertState("ready", t, deadline)
      <4>1. /\ StateListsOK' /\ Moved("ready", t)
            /\ stateValue' = [stateValue EXCEPT ![t] = deadline]
            /\ \A l \in {"delayed", "overflow"} :
                 Sorted(state[l], stateValue) => Sorted(state'[l], stateValue')
        BY <2>3, <3>3, InsertStateFacts DEF StateLists
      <4>2. \A x \in AllTasks \ {t} : stateValue'[x] = stateValue[x]
        BY <4>1 DEF StateListsOK
      <4>3. "ready" \in StateLists \ {"delayed", "overflow"}
        BY DEF StateLists
      <4> QED BY <2>1, <3>1, <4>1, <4>2, <4>3, MovedLists
    <3> QED BY <3>1, <3>2, <3>3 DEF RefreshReadyItem
  <2> QED BY <2>4, <2>5
<1>3. ASSUME vTaskPlaceOnEventList(t) PROVE ListsInv'
  <2>1. /\ pxCurrentTCB \in Tasks /\ mode = "task" /\ mode' = "task"
        /\ xTickCount' = xTickCount
        /\ xTicksToWait[t] \in TickType /\ xTicksToWait[t] > 0
        /\ prvAddCurrentTaskToDelayedList(xTicksToWait[t], TRUE)
    BY <1>3 DEF vTaskPlaceOnEventList, At, IdleInv, ArgsInv, AllTasks, TypeOK,
                frame, timeVars
  <2> QED BY <2>1, ListsDelay
<1>4. ASSUME vTaskSuspend(t) PROVE ListsInv'
  <2>1. /\ UNCHANGED <<state, stateValue, xTickCount>> /\ mode = "task"
        /\ mode' = mode /\ xNextTaskUnblockTime' = UnblockTime(state["delayed"])
    BY <1>4 DEF vTaskSuspend, At, prvResetNextTaskUnblockTime, listVars, frame,
                timeVars
  <2>2. state["delayed"] \in Seq(AllTasks) /\ Sorted(state["delayed"], stateValue)
    BY DEF TypeOK, StateLists, DelayListsInv
  <2>3. \A x \in Items(state["delayed"]) : stateValue[x] >= xNextTaskUnblockTime'
    BY <2>1, <2>2, ResetUnblockTime
  <2> QED BY <2>1, <2>3, ListsSame
<1> QED BY <1>1, <1>2, <1>3, <1>4

(* A task is taken out of all lists and freed.                              *)
LEMMA ListsDeleted ==
  ASSUME IInv, NEW x \in Tasks, state' = DetachedState(x),
         stateValue' = stateValue, xTickCount' = xTickCount, mode' = mode,
         \/ xNextTaskUnblockTime' = xNextTaskUnblockTime
         \/ xNextTaskUnblockTime' = UnblockTime(DetachedState(x)["delayed"])
  PROVE  ListsInv'
<1> USE DEF IInv
<1>1. x \in AllTasks /\ x # Idle
  BY ConstantsAssumption DEF AllTasks
<1>2. state' = [l \in StateLists |-> state'[l]]
  BY DEF DetachedState
<1>3. \A l \in StateLists :
        /\ state'[l] \in Seq(AllTasks) /\ NoDuplicates(state'[l])
        /\ Items(state'[l]) = Items(state[l]) \ {x}
        /\ Sorted(state[l], stateValue) => Sorted(state'[l], stateValue')
  BY DetachedFacts
<1>4. StateListsOK' /\ Removed(x)
  BY <1>2, <1>3 DEF StateListsOK, Removed
<1>5. \/ xNextTaskUnblockTime' = xNextTaskUnblockTime
      \/ \A y \in Items(state'["delayed"]) : stateValue'[y] >= xNextTaskUnblockTime'
  <2>1. state'["delayed"] \in Seq(AllTasks) /\ Sorted(state'["delayed"], stateValue)
    BY <1>3 DEF DelayListsInv, StateLists
  <2> QED BY <2>1, ResetUnblockTime
<1>6. \A l \in {"delayed", "overflow"} :
        Sorted(state[l], stateValue) => Sorted(state'[l], stateValue')
  BY <1>3 DEF StateLists
<1>7. "ready" \in StateLists \ {"delayed", "overflow"}
  BY DEF StateLists
<1> QED BY <1>1, <1>4, <1>5, <1>6, <1>7, MovedLists

LEMMA ListsCall ==
  ASSUME IInv, NEW t \in Tasks,
         \/ DeleteSelf(t) \/ \E e \in EventObjects : CallSignal(t, e)
         \/ \E x \in Tasks : \/ \E d \in TickType : CallCreate(t, x, d)
                             \/ CallSuspend(t, x) \/ vTaskResume(t, x)
                             \/ DeleteOther(t, x)
  PROVE  ListsInv'
<1> USE DEF IInv
<1>1. ASSUME NEW x \in Tasks, NEW list \in {"suspended", "terminating"},
             AppendState(list, x),
             UNCHANGED <<mode, xTickCount, xNextTaskUnblockTime>>
      PROVE  ListsInv'
  <2>1. /\ x \in AllTasks /\ x # Idle
        /\ list \in StateLists \ {"delayed", "overflow"}
    BY ConstantsAssumption DEF AllTasks, StateLists
  <2>2. /\ StateListsOK' /\ Moved(list, x) /\ stateValue' = stateValue
        /\ \A l \in {"delayed", "overflow"} :
             Sorted(state[l], stateValue) => Sorted(state'[l], stateValue')
    BY <1>1, <2>1, AppendStateFacts DEF StateLists
  <2> QED BY <1>1, <2>1, <2>2, MovedLists
<1>2. ASSUME DeleteSelf(t) PROVE ListsInv'
  BY <1>1, <1>2 DEF DeleteSelf, wakeVars, timeVars
<1>3. ASSUME NEW x \in Tasks, CallSuspend(t, x) PROVE ListsInv'
  BY <1>1, <1>3 DEF CallSuspend, wakeVars, frame, timeVars
<1>4. ASSUME NEW e \in EventObjects, CallSignal(t, e) PROVE ListsInv'
  <2>1. /\ UNCHANGED <<mode, xTickCount, xNextTaskUnblockTime>>
        /\ mode = "task" /\ event[e] # <<>> /\ xTaskRemoveFromEventList(e)
    BY <1>4 DEF CallSignal, Calling, At, frame, timeVars, wakeVars
  <2>2. /\ Head(event[e]) \in AllTasks
        /\ Readied(Head(event[e])) \/ UNCHANGED <<state, stateValue>>
    BY <2>1, SignalFacts
  <2> QED BY <2>1, <2>2, ReadiedLists, ListsSame
<1>5. ASSUME NEW x \in Tasks, NEW d \in TickType, CallCreate(t, x, d)
      PROVE  ListsInv'
  <2>1. /\ InsertState("ready", x, d) /\ x \in AllTasks
        /\ "ready" \in StateLists \ {"delayed", "overflow"}
        /\ UNCHANGED <<mode, xTickCount, xNextTaskUnblockTime>>
    BY <1>5 DEF CallCreate, AddNewTask, AllTasks, StateLists, timeVars, wakeVars
  <2>2. /\ StateListsOK' /\ Moved("ready", x)
        /\ stateValue' = [stateValue EXCEPT ![x] = d]
        /\ \A l \in {"delayed", "overflow"} :
             Sorted(state[l], stateValue) => Sorted(state'[l], stateValue')
    BY <2>1, InsertStateFacts DEF StateLists
  <2>3. \A y \in AllTasks \ {x} : stateValue'[y] = stateValue[y]
    BY <2>2 DEF StateListsOK
  <2> QED BY <2>1, <2>2, <2>3, MovedLists
<1>6. ASSUME NEW x \in Tasks, vTaskResume(t, x) PROVE ListsInv'
  <2>1. /\ prvAddTaskToReadyList(x) /\ x \in AllTasks
        /\ UNCHANGED <<mode, xTickCount, xNextTaskUnblockTime>>
    BY <1>6 DEF vTaskResume, AllTasks, wakeVars, frame, timeVars
  <2> QED BY <2>1, ReadiedFacts, ReadiedLists
<1>7. ASSUME NEW x \in Tasks, DeleteOther(t, x) PROVE ListsInv'
  BY <1>7, ListsDeleted DEF DeleteOther, prvResetNextTaskUnblockTime, timeVars
<1> QED BY <1>2, <1>3, <1>4, <1>5, <1>6, <1>7

LEMMA ListsStep ==
  ASSUME IInv, Next
  PROVE  ListsInv'
<1>1. CASE QuietStep
  BY <1>1, QuietFacts, ListsSame
<1>2. CASE Main
  BY <1>2, ListsMain
<1>3. CASE Interrupt
  BY <1>1, <1>3, ListsInterrupt DEF QuietStep
<1>4. CASE Masked
  BY <1>1, <1>4, ListsMasked DEF Masked, QuietStep
<1>5. CASE IdleLoop
  <2>1. ASSUME prvCheckTasksWaitingTermination PROVE ListsInv'
    BY <2>1, ListsDeleted DEF prvCheckTasksWaitingTermination, wakeVars, timeVars
  <2> QED BY <1>1, <1>5, <2>1 DEF IdleLoop, QuietStep
<1>6. ASSUME NEW t \in AllTasks, Continue(t) PROVE ListsInv'
  BY <1>1, <1>6, ListsContinue DEF Continue, QuietStep
<1>7. ASSUME NEW t \in Tasks, Call(t) PROVE ListsInv'
  BY <1>1, <1>7, ListsCall DEF Call, QuietStep
<1> QED BY <1>2, <1>3, <1>4, <1>5, <1>6, <1>7 DEF Next

-----------------------------------------------------------------------------
(* Where the tasks are in their calls.                                      *)

LEMMA NobodySuspended ==
  ASSUME IInv, mode \notin {"resume", "resumeTicks"}, xPendedCounts = 0,
         uxSchedulerSuspended = 0
  PROVE  \A t \in AllTasks : pc[t] \notin SuspendedLabels
BY DEF IInv, SuspendInv

(* Steps after which no task is inside a call that suspended the scheduler. *)
LEMMA FlowRunning ==
  ASSUME IInv, TypeOK',
         \A t \in AllTasks : pc'[t] \notin SuspendedLabels \union {"suspend"},
         pc'[Idle] \in {"run", "yield"},
         mode' # "main" => pxCurrentTCB' # NULL,
         uxSchedulerSuspended' = 0, xPendedCounts' = 0, mode' # "resume"
  PROVE  FlowInv'
BY DEF FlowInv, SuspendInv, ArgsInv, SuspendedLabels

LEMMA FlowMain ==
  ASSUME IInv, Main
  PROVE  FlowInv'
<1> USE DEF IInv
<1>1. mode = "main" /\ uxSchedulerSuspended = 0 /\ xPendedCounts = 0
      /\ \A t \in AllTasks : pc[t] \in {"run", "entry"}
  BY DEF Main, MainCreate, MainSuspend, vTaskStartScheduler, MainInv, SuspendInv
<1>2. TypeOK'
  BY TypeMain
<1>3. \A t \in AllTasks : pc'[t] \in {"run", "entry"}
  <2>1. ASSUME NEW t \in Tasks, NEW d \in TickType, MainCreate(t, d)
        PROVE  \A x \in AllTasks : pc'[x] \in {"run", "entry"}
    BY <1>1, <2>1 DEF MainCreate, Goto, EntryLabel, TypeOK
  <2>2. ASSUME NEW t \in Tasks, MainSuspend(t) PROVE pc' = pc
    BY <2>2 DEF MainSuspend
  <2>3. ASSUME vTaskStartScheduler PROVE pc' = pc
    BY <2>3 DEF vTaskStartScheduler
  <2> QED BY <1>1, <2>1, <2>2, <2>3 DEF Main
<1>4. pc'[Idle] = pc[Idle]
  <2>1. ASSUME NEW t \in Tasks, NEW d \in TickType, MainCreate(t, d)
        PROVE  pc'[Idle] = pc[Idle]
    BY <2>1, ConstantsAssumption DEF MainCreate, Goto, AllTasks, TypeOK
  <2> QED BY <2>1 DEF Main, MainSuspend, vTaskStartScheduler
<1>5. mode' # "main" => pxCurrentTCB' # NULL
  <2>1. CASE vTaskStartScheduler
    BY <2>1, ConstantsAssumption DEF vTaskStartScheduler, PickFirst, AllTasks
  <2>2. CASE ~ vTaskStartScheduler
    BY <1>1, <2>2 DEF Main, MainCreate, MainSuspend, frame
  <2> QED BY <2>1, <2>2
<1>6. uxSchedulerSuspended' = 0 /\ xPendedCounts' = 0 /\ mode' # "resume"
  BY <1>1 DEF Main, MainCreate, MainSuspend, vTaskStartScheduler, frame, loopVars
<1>7. pc[Idle] = "run"
  BY <1>1 DEF IdleInv, AllTasks
<1> QED BY <1>2, <1>3, <1>4, <1>5, <1>6, <1>7, FlowRunning DEF SuspendedLabels

(* Steps that do not move a task in its call.                               *)
LEMMA FlowKept ==
  ASSUME IInv, UNCHANGED <<pc, xTicksToWait, pxEventList, pxTCB>>,
         mode' # "main", pxCurrentTCB' # NULL,
         mode' # "task" => uxSchedulerSuspended' = 0,
         mode' = "task" => xPendedCounts' = 0,
         mode' = "resume" => event'["pendingReady"] # <<>>,
         \A t \in AllTasks : pc[t] \in SuspendedLabels =>
           /\ t = pxCurrentTCB'
           /\ \/ mode' \in {"resume", "resumeTicks"} \/ xPendedCounts' # 0
              \/ uxSchedulerSuspended' # 0
  PROVE  FlowInv'
<1>1. SuspendInv'
  BY DEF SuspendInv
<1>2. ArgsInv' /\ pc'[Idle] \in {"run", "yield", "free", "resumeAll"}
  BY DEF IInv, ArgsInv, IdleInv
<1> QED BY <1>1, <1>2 DEF FlowInv

(* Steps of the current task.                                               *)
LEMMA FlowCurrent ==
  ASSUME IInv, NEW t \in AllTasks, pxCurrentTCB = t,
         mode = "task", mode' = "task", xPendedCounts' = xPendedCounts,
         pxCurrentTCB' # NULL,
         \A x \in AllTasks \ {t} :
           \/ pc'[x] \in {"run", "entry"}
           \/ /\ pc'[x] = pc[x] /\ xTicksToWait'[x] = xTicksToWait[x]
              /\ pxEventList'[x] = pxEventList[x] /\ pxTCB'[x] = pxTCB[x],
         pc'[t] \in SuspendedLabels =>
           pxCurrentTCB' = t /\ uxSchedulerSuspended' # 0,
         pc'[Idle] \in {"run", "yield", "free", "resumeAll"},
         pc'[t] \in {"delay", "block"} => xTicksToWait'[t] > 0,
         pc'[t] = "block" => pxEventList'[t] \in EventObjects,
         pc'[t] = "suspend" => pxTCB'[t] \in Tasks
  PROVE  FlowInv'
<1>1. SuspendInv'
  <2>1. xPendedCounts' = 0
    BY DEF IInv, SuspendInv
  <2>2. \A x \in AllTasks \ {t} : pc'[x] \notin SuspendedLabels
    BY DEF IInv, SuspendInv, SuspendedLabels
  <2> QED BY <2>1, <2>2 DEF SuspendInv
<1>2. ArgsInv'
  BY DEF IInv, ArgsInv
<1> QED BY <1>1, <1>2 DEF FlowInv

LEMMA FlowTick ==
  ASSUME IInv, xTaskIncrementTick, uxSchedulerSuspended = 0, mode # "main",
         mode = "resumeTicks" => xPendedCounts # 0, mode # "resume"
  PROVE  FlowInv'
<1>1. /\ mode' \in {"tick", "tickDone"}
      /\ UNCHANGED <<pxCurrentTCB, uxSchedulerSuspended, pc, xPendedCounts,
                     xTicksToWait, pxEventList, pxTCB>>
  BY DEF xTaskIncrementTick, schedVars, argVars
<1>2. \A t \in AllTasks : pc[t] \in SuspendedLabels =>
        t = pxCurrentTCB /\ xPendedCounts # 0
  BY DEF IInv, SuspendInv
<1>3. pxCurrentTCB # NULL
  BY DEF IInv, IdleInv
<1> QED BY <1>1, <1>2, <1>3, FlowKept

(* A step of an interrupt or a call that may switch tasks: not while the    *)
(* scheduler is suspended.                                                  *)
LEMMA FlowSwitch ==
  ASSUME IInv, mode = "task", mode' = "task", pxCurrentTCB' # NULL,
         uxSchedulerSuspended # 0 => pxCurrentTCB' = pxCurrentTCB,
         UNCHANGED <<pc, xTicksToWait, pxEventList, pxTCB, xPendedCounts,
                     uxSchedulerSuspended>>
  PROVE  FlowInv'
<1>1. xPendedCounts = 0
  BY DEF IInv, SuspendInv
<1>2. CASE uxSchedulerSuspended # 0
  <2>1. \A t \in AllTasks : pc[t] \in SuspendedLabels => t = pxCurrentTCB
    BY DEF IInv, SuspendInv
  <2> QED BY <1>1, <1>2, <2>1, FlowKept
<1>3. CASE uxSchedulerSuspended = 0
  <2>1. \A t \in AllTasks : pc[t] \notin SuspendedLabels
    BY <1>1, <1>3, NobodySuspended
  <2> QED BY <1>1, <2>1, FlowKept
<1> QED BY <1>2, <1>3

LEMMA FlowInterrupt ==
  ASSUME IInv, Interrupt
  PROVE  FlowInv'
<1>1. ASSUME TickISR PROVE FlowInv'
  BY <1>1, FlowTick DEF TickISR
<1>2. ASSUME ~ TickISR PROVE FlowInv'
  <2>1. /\ mode = "task"
        /\ UNCHANGED <<pc, argVars, pxCurrentTCB, frame, uxSchedulerSuspended>>
    BY <1>2 DEF Interrupt, TickWhileSuspended, xTaskResumeFromISR,
                SignalFromISR, schedVars
  <2>2. pxCurrentTCB # NULL
    BY <2>1 DEF IInv, IdleInv
  <2>3. mode' = "task" /\ UNCHANGED <<xTicksToWait, pxEventList, pxTCB, xPendedCounts>>
    BY <2>1 DEF argVars, frame, loopVars
  <2> QED BY <2>1, <2>2, <2>3, FlowSwitch
<1> QED BY <1>1, <1>2

LEMMA FlowMasked ==
  ASSUME IInv, Masked
  PROVE  FlowInv'
<1>0. mode # "main" /\ mode # "task"
  BY DEF Masked, UnblockTask, UnblockDone, TickReturn, ResumePendingTask,
         ResumePendedTick, ResumeAllReturn, TicksCaughtUp
<1>a. pxCurrentTCB # NULL /\ uxSchedulerSuspended = 0
  BY <1>0 DEF IInv, IdleInv, SuspendInv
<1>b. \A t \in AllTasks : pc[t] \in SuspendedLabels =>
        t = pxCurrentTCB /\ (mode \in {"resume", "resumeTicks"} \/ xPendedCounts # 0)
  BY <1>a DEF IInv, SuspendInv
<1>1. ASSUME UnblockTask PROVE FlowInv'
  <2>1. /\ mode = "tick" /\ mode' = "tick"
        /\ UNCHANGED <<pc, xTicksToWait, pxEventList, pxTCB, xPendedCounts,
                       pxCurrentTCB, uxSchedulerSuspended>>
    BY <1>1 DEF UnblockTask, schedVars, argVars
  <2> QED BY <1>a, <1>b, <2>1, FlowKept
<1>2. ASSUME UnblockDone PROVE FlowInv'
  <2>1. /\ mode = "tick" /\ mode' = "tickDone"
        /\ UNCHANGED <<pc, xTicksToWait, pxEventList, pxTCB, xPendedCounts,
                       pxCurrentTCB, uxSchedulerSuspended>>
    BY <1>2 DEF UnblockDone, schedVars, argVars, loopVars
  <2> QED BY <1>a, <1>b, <2>1, FlowKept
<1>3. ASSUME TickReturn PROVE FlowInv'
  <2>1. /\ mode = "tickDone"
        /\ UNCHANGED <<pc, xTicksToWait, pxEventList, pxTCB, uxSchedulerSuspended>>
    BY <1>3 DEF TickReturn, argVars
  <2>2. CASE xPendedCounts = 0
    <3>1. mode' = "task" /\ xPendedCounts' = 0
      BY <1>3, <2>2 DEF TickReturn
    <3>2. pxCurrentTCB' # NULL
      <4>1. state["ready"] \in Seq(AllTasks) /\ Items(state["ready"]) # {}
        BY <1>0 DEF IInv, StateListsOK, StateLists, IdleInv
      <4>2. vTaskSwitchContext(state["ready"]) \/ UNCHANGED pxCurrentTCB
        BY <1>3, <2>2 DEF TickReturn
      <4>3. pxCurrentTCB' = pxCurrentTCB \/ pxCurrentTCB' \in AllTasks
        BY <4>1, <4>2, SwitchFacts
      <4> QED BY <1>a, <4>3, ConstantsAssumption
    <3>3. \A t \in AllTasks : pc[t] \notin SuspendedLabels
      BY <1>a, <2>1, <2>2, NobodySuspended
    <3> QED BY <2>1, <3>1, <3>2, <3>3, FlowKept
  <2>3. CASE xPendedCounts # 0
    <3>1. mode' = "resumeTicks" /\ pxCurrentTCB' = pxCurrentTCB
      BY <1>3, <2>3 DEF TickReturn
    <3> QED BY <1>a, <1>b, <2>1, <3>1, FlowKept
  <2> QED BY <2>2, <2>3
<1>4. ASSUME ResumePendingTask PROVE FlowInv'
  <2>1. /\ mode = "resume"
        /\ UNCHANGED <<pc, xTicksToWait, pxEventList, pxTCB, xPendedCounts,
                       pxCurrentTCB, uxSchedulerSuspended>>
    BY <1>4 DEF ResumePendingTask, argVars, loopVars
  <2>2. /\ mode' \in {"resume", "resumeTicks"}
        /\ mode' = "resume" => Len(event["pendingReady"]) # 1
        /\ event' = DetachedEvent(Head(event["pendingReady"]))
    BY <1>4, <2>1 DEF ResumePendingTask
  <2>3. mode' = "resume" => event'["pendingReady"] # <<>>
    <3>1. event["pendingReady"] # <<>> /\ "pendingReady" \in EventLists
      BY <2>1 DEF IInv, SuspendInv, EventLists
    <3>2. event["pendingReady"] \in Seq(AllTasks)
      BY <3>1 DEF IInv, TypeOK
    <3>3. Len(event["pendingReady"]) \in Nat /\ Len(event["pendingReady"]) # 0
      BY <3>1, <3>2, EmptySeq, LenProperties
    <3>4. /\ event'["pendingReady"] \in Seq(AllTasks)
          /\ Len(event'["pendingReady"]) >= Len(event["pendingReady"]) - 1
      BY <2>2, <3>1, DetachedEventFacts DEF IInv, TypeOK
    <3>5. mode' = "resume" => Len(event'["pendingReady"]) # 0
      <4> DEFINE n == Len(event["pendingReady"])
                 m == Len(event'["pendingReady"])
      <4>1. n \in Nat /\ n # 0 /\ m \in Nat /\ m >= n - 1
        BY <3>3, <3>4, LenProperties
      <4>2. mode' = "resume" => n # 1
        BY <2>2
      <4> HIDE DEF n, m
      <4>3. mode' = "resume" => m # 0
        BY <4>1, <4>2
      <4> QED BY <4>3 DEF m
    <3> QED BY <3>4, <3>5, EmptySeq
  <2> QED BY <1>a, <1>b, <2>1, <2>2, <2>3, FlowKept
<1>5. ASSUME ResumePendedTick PROVE FlowInv'
  BY <1>5, <1>a, FlowTick DEF ResumePendedTick
<1>6. ASSUME ResumeAllReturn PROVE FlowInv'
  <2>1. /\ mode = "resumeTicks" /\ xPendedCounts = 0 /\ mode' = "task"
        /\ UNCHANGED <<xTicksToWait, pxEventList, pxTCB, uxSchedulerSuspended,
                       xPendedCounts>>
    BY <1>6 DEF ResumeAllReturn, TicksCaughtUp, argVars, loopVars
  <2>2. pxCurrentTCB \in AllTasks
    BY <1>a DEF IInv, TypeOK
  <2>3. PICK label \in {"run", "yield"} :
          pc' = [pc EXCEPT ![pxCurrentTCB] = label]
    BY <1>6 DEF ResumeAllReturn, Goto
  <2>4. /\ pc'[pxCurrentTCB] = label
        /\ \A x \in AllTasks \ {pxCurrentTCB} : pc'[x] = pc[x]
    BY <2>2, <2>3 DEF IInv, TypeOK
  <2>5. pxCurrentTCB' # NULL
    <3>1. state["ready"] \in Seq(AllTasks) /\ Items(state["ready"]) # {}
      BY <1>0 DEF IInv, StateListsOK, StateLists, IdleInv
    <3>2. vTaskSwitchContext(state["ready"]) \/ UNCHANGED pxCurrentTCB
      BY <1>6 DEF ResumeAllReturn
    <3>3. pxCurrentTCB' = pxCurrentTCB \/ pxCurrentTCB' \in AllTasks
      BY <3>1, <3>2, SwitchFacts
    <3> QED BY <1>a, <3>3, ConstantsAssumption
  <2>6. SuspendInv'
    <3>1. \A t \in AllTasks : pc'[t] \notin SuspendedLabels
      BY <1>b, <2>4 DEF SuspendedLabels
    <3> QED BY <2>1, <3>1 DEF SuspendInv
  <2>7. ArgsInv'
    BY <2>1, <2>4 DEF IInv, ArgsInv
  <2>8. pc'[Idle] \in {"run", "yield", "free", "resumeAll"}
    BY <2>4 DEF IInv, IdleInv, AllTasks
  <2> QED BY <2>5, <2>6, <2>7, <2>8 DEF FlowInv
<1> QED BY <1>1, <1>2, <1>3, <1>4, <1>5, <1>6 DEF Masked

LEMMA FlowIdleLoop ==
  ASSUME IInv, IdleLoop
  PROVE  FlowInv'
<1>1. mode = "task" /\ pxCurrentTCB = Idle /\ Idle \in AllTasks /\ Idle # NULL
  BY ConstantsAssumption
     DEF IdleLoop, prvCheckTasksWaitingTermination, IdleShouldYield, At, AllTasks
<1>2. ASSUME IdleShouldYield PROVE FlowInv'
  <2>1. /\ pc' = [pc EXCEPT ![Idle] = "yield"] /\ mode' = mode
        /\ UNCHANGED <<pxCurrentTCB, xPendedCounts, xTicksToWait, pxEventList, pxTCB>>
    BY <1>2 DEF IdleShouldYield, Goto, schedVars, frame, loopVars, argVars
  <2>2. pc'[Idle] = "yield" /\ \A x \in AllTasks \ {Idle} : pc'[x] = pc[x]
    BY <1>1, <2>1 DEF IInv, TypeOK
  <2> QED BY <1>1, <2>1, <2>2, FlowCurrent DEF SuspendedLabels
<1>3. ASSUME prvCheckTasksWaitingTermination PROVE FlowInv'
  <2>1. PICK x \in Tasks :
          /\ Freed(x) /\ pc' = [pc EXCEPT ![Idle] = "free", ![x] = "run"]
    BY <1>3 DEF prvCheckTasksWaitingTermination
  <2>2. mode' = mode /\ UNCHANGED <<pxCurrentTCB, xPendedCounts>>
    BY <1>3 DEF prvCheckTasksWaitingTermination, schedVars, loopVars
  <2>3. x \in AllTasks /\ x # Idle
    BY ConstantsAssumption DEF AllTasks
  <2>4. /\ pc'[Idle] = "free" /\ pc'[x] = "run"
        /\ \A y \in AllTasks \ {Idle, x} : pc'[y] = pc[y]
    BY <1>1, <2>1, <2>3 DEF IInv, TypeOK
  <2>5. \A y \in AllTasks \ {x} :
          /\ xTicksToWait'[y] = xTicksToWait[y]
          /\ pxEventList'[y] = pxEventList[y] /\ pxTCB'[y] = pxTCB[y]
    BY <2>1 DEF Freed, IInv, TypeOK
  <2> QED BY <1>1, <2>2, <2>3, <2>4, <2>5, FlowCurrent DEF SuspendedLabels
<1> QED BY <1>2, <1>3 DEF IdleLoop

LEMMA FlowContinue ==
  ASSUME IInv, NEW t \in AllTasks, Continue(t)
  PROVE  FlowInv'
<1>1. mode = "task" /\ pxCurrentTCB = t /\ t # NULL /\ xPendedCounts = 0
  <2>1. mode = "task" /\ pxCurrentTCB = t
    BY DEF Continue, xTaskResumeAll, xTaskCatchUpTicks, TaskEntry, vTaskDelay,
           xTaskDelayUntil, vTaskPlaceOnEventList, vPortYield,
           prvAddNewTaskToReadyList, vTaskSuspend, prvDeleteTCB, At
  <2> QED BY <2>1, ConstantsAssumption DEF IInv, SuspendInv
<1>2. pc \in [AllTasks -> Labels] /\ pc[Idle] \in {"run", "yield", "free", "resumeAll"}
  BY DEF IInv, TypeOK, IdleInv
<1>3. pc[t] \in SuspendedLabels => uxSchedulerSuspended # 0
  BY <1>1 DEF IInv, SuspendInv
<1>a. /\ xTicksToWait \in [AllTasks -> TickType]
      /\ pxTCB \in [AllTasks -> AllTasks \union {NULL}]
      /\ pxEventList \in [AllTasks -> EventObjects \union {NULL}]
      /\ uxSchedulerSuspended \in Nat
  BY DEF IInv, TypeOK
<1>4. ASSUME NEW label \in Labels, pc' = [pc EXCEPT ![t] = label],
             pc[t] \notin {"run", "yield", "free", "resumeAll"}
             \/ label \in {"run", "yield", "free", "resumeAll"},
             label \notin {"delay", "block", "suspend"},
             mode' = "task", xPendedCounts' = xPendedCounts, pxCurrentTCB' # NULL,
             label \in SuspendedLabels =>
               pxCurrentTCB' = t /\ uxSchedulerSuspended' # 0,
             \A x \in AllTasks \ {t} :
               /\ xTicksToWait'[x] = xTicksToWait[x]
               /\ pxEventList'[x] = pxEventList[x] /\ pxTCB'[x] = pxTCB[x]
      PROVE  FlowInv'
  <2>1. pc'[t] = label /\ \A x \in AllTasks \ {t} : pc'[x] = pc[x]
    BY <1>2, <1>4
  <2>2. pc'[Idle] \in {"run", "yield", "free", "resumeAll"}
    BY <1>2, <1>4, <2>1 DEF AllTasks
  <2> QED BY <1>1, <1>4, <2>1, <2>2, FlowCurrent
<1>5. ASSUME xTaskResumeAll(t) PROVE FlowInv'
  <2>1. /\ pc[t] \in {"resumeAll", "delayResume"}
        /\ UNCHANGED <<pxCurrentTCB, event, xTicksToWait, pxEventList, pxTCB>>
        /\ uxSchedulerSuspended' = uxSchedulerSuspended - 1
    BY <1>5 DEF xTaskResumeAll, At, listVars, argVars
  <2>2. CASE uxSchedulerSuspended = 1
    <3>1. pc' = pc /\ mode' = ResumeMode /\ uxSchedulerSuspended' = 0
      BY <1>5, <2>1, <2>2 DEF xTaskResumeAll
    <3>2. /\ mode' \in {"resume", "resumeTicks"}
          /\ mode' = "resume" => event["pendingReady"] # <<>>
      BY <3>1 DEF ResumeMode
    <3>3. \A x \in AllTasks : pc[x] \in SuspendedLabels => x = t
      BY <1>1 DEF IInv, SuspendInv
    <3> QED BY <1>1, <2>1, <3>1, <3>2, <3>3, FlowKept
  <2>3. CASE uxSchedulerSuspended # 1
    <3>1. PICK label \in {"run", "yield"} : pc' = [pc EXCEPT ![t] = label]
      BY <1>5, <2>3 DEF xTaskResumeAll, Goto
    <3>2. mode' = "task" /\ xPendedCounts' = xPendedCounts
      BY <1>1, <1>5, <2>3 DEF xTaskResumeAll
    <3> QED BY <1>1, <1>4, <2>1, <3>1, <3>2 DEF Labels, SuspendedLabels
  <2> QED BY <2>2, <2>3
<1>6. ASSUME xTaskCatchUpTicks(t) PROVE FlowInv'
  <2>1. /\ pc[t] = "catchUp" /\ pc' = [pc EXCEPT ![t] = "resumeAll"]
        /\ xTicksToWait' = [xTicksToWait EXCEPT ![t] = 0]
        /\ UNCHANGED <<mode, xPendedCounts, pxCurrentTCB, uxSchedulerSuspended,
                       pxEventList, pxTCB>>
    BY <1>6 DEF xTaskCatchUpTicks, At, Goto, schedVars, frame, loopVars
  <2>2. uxSchedulerSuspended' # 0
    BY <1>3, <2>1 DEF SuspendedLabels
  <2> QED BY <1>1, <1>a, <1>4, <2>1, <2>2 DEF Labels
<1>7. ASSUME TaskEntry(t) PROVE FlowInv'
  <2>1. /\ pc[t] = "entry" /\ pc' = [pc EXCEPT ![t] = "run"]
        /\ UNCHANGED <<mode, xPendedCounts, pxCurrentTCB, xTicksToWait,
                       pxEventList, pxTCB>>
    BY <1>7 DEF TaskEntry, At, Goto, schedVars, frame, loopVars
  <2> QED BY <1>1, <1>4, <2>1 DEF Labels, SuspendedLabels
<1>8. ASSUME vTaskDelay(t) \/ xTaskDelayUntil(t) \/ vTaskPlaceOnEventList(t)
      PROVE  FlowInv'
  <2>1. /\ pc[t] \in {"delay", "delayUntil", "block"}
        /\ pc' = [pc EXCEPT ![t] = "delayResume"]
        /\ UNCHANGED <<mode, xPendedCounts, pxCurrentTCB, uxSchedulerSuspended>>
    BY <1>8 DEF vTaskDelay, xTaskDelayUntil, vTaskPlaceOnEventList, At, Goto,
                schedVars, frame, loopVars
  <2>2. \A x \in AllTasks \ {t} :
          /\ xTicksToWait'[x] = xTicksToWait[x]
          /\ pxEventList'[x] = pxEventList[x] /\ pxTCB'[x] = pxTCB[x]
    BY <1>8, <1>a DEF vTaskDelay, xTaskDelayUntil, vTaskPlaceOnEventList
  <2>3. uxSchedulerSuspended' # 0
    BY <1>3, <2>1 DEF SuspendedLabels
  <2> QED BY <1>1, <1>4, <2>1, <2>2, <2>3 DEF Labels
<1>9. ASSUME vPortYield(t) PROVE FlowInv'
  <2>1. /\ pc' = [pc EXCEPT ![t] = "run"]
        /\ UNCHANGED <<mode, xPendedCounts, xTicksToWait, pxEventList, pxTCB>>
    BY <1>9 DEF vPortYield, Goto, frame, loopVars, argVars
  <2>2. pxCurrentTCB' # NULL
    <3>1. state["ready"] \in Seq(AllTasks) /\ Items(state["ready"]) # {}
      BY <1>1 DEF IInv, StateListsOK, StateLists, IdleInv
    <3>2. vTaskSwitchContext(state["ready"])
      BY <1>9 DEF vPortYield
    <3> QED BY <1>1, <3>1, <3>2, SwitchFacts, ConstantsAssumption
  <2> QED BY <1>1, <1>4, <2>1, <2>2 DEF Labels, SuspendedLabels
<1>10. ASSUME prvAddNewTaskToReadyList(t) PROVE FlowInv'
  <2>1. PICK label \in {"run", "yield"} : pc' = [pc EXCEPT ![t] = label]
    BY <1>10 DEF prvAddNewTaskToReadyList, Goto
  <2>2. /\ pxTCB' = [pxTCB EXCEPT ![t] = NULL]
        /\ UNCHANGED <<mode, xPendedCounts, pxCurrentTCB, xTicksToWait,
                       pxEventList>>
    BY <1>10 DEF prvAddNewTaskToReadyList, schedVars, frame, loopVars
  <2> QED BY <1>1, <1>a, <1>4, <2>1, <2>2 DEF Labels, SuspendedLabels
<1>11. ASSUME vTaskSuspend(t) PROVE FlowInv'
  <2>1. PICK label \in {"run", "yield"} : pc' = [pc EXCEPT ![t] = label]
    BY <1>11 DEF vTaskSuspend, Goto
  <2>2. /\ pxTCB' = [pxTCB EXCEPT ![t] = NULL]
        /\ UNCHANGED <<mode, xPendedCounts, pxCurrentTCB, xTicksToWait,
                       pxEventList>>
    BY <1>11 DEF vTaskSuspend, schedVars, frame, loopVars
  <2> QED BY <1>1, <1>a, <1>4, <2>1, <2>2 DEF Labels, SuspendedLabels
<1>12. ASSUME prvDeleteTCB(t) PROVE FlowInv'
  <2>1. /\ pc' = [pc EXCEPT ![t] = "resumeAll"]
        /\ uxSchedulerSuspended' = uxSchedulerSuspended + 1
        /\ UNCHANGED <<mode, xPendedCounts, pxCurrentTCB, xTicksToWait,
                       pxEventList, pxTCB>>
    BY <1>12 DEF prvDeleteTCB, vTaskSuspendAll, Goto, frame, loopVars, argVars
  <2>2. uxSchedulerSuspended' # 0
    BY <1>a, <2>1
  <2> QED BY <1>1, <1>4, <2>1, <2>2 DEF Labels
<1> QED BY <1>5, <1>6, <1>7, <1>8, <1>9, <1>10, <1>11, <1>12 DEF Continue

LEMMA FlowCall ==
  ASSUME IInv, NEW t \in Tasks, Call(t)
  PROVE  FlowInv'
<1>1. mode = "task" /\ pxCurrentTCB = t /\ pc[t] = "run"
  BY DEF Call, CallSuspendAll, CallResumeAll, CallCatchUpTicks, CallDelayUntil,
         DeleteSelf, CallDelay, CallWait, CallSignal, CallCreate, CallSuspend,
         vTaskResume, DeleteOther, Calling, At
<1>2. t \in AllTasks /\ t # Idle /\ t # NULL /\ NULL \notin AllTasks
  BY ConstantsAssumption DEF AllTasks
<1>3. /\ pc \in [AllTasks -> Labels]
      /\ pc[Idle] \in {"run", "yield", "free", "resumeAll"}
      /\ xTicksToWait \in [AllTasks -> TickType]
      /\ pxTCB \in [AllTasks -> AllTasks \union {NULL}]
      /\ pxEventList \in [AllTasks -> EventObjects \union {NULL}]
      /\ uxSchedulerSuspended \in Nat
  BY DEF IInv, TypeOK, IdleInv
<1>4. ASSUME NEW label \in Labels, pc' = [pc EXCEPT ![t] = label],
             label \in {"delay", "block"} => xTicksToWait'[t] > 0,
             label = "block" => pxEventList'[t] \in EventObjects,
             label = "suspend" => pxTCB'[t] \in Tasks,
             UNCHANGED <<mode, xPendedCounts, pxCurrentTCB>>,
             label \in SuspendedLabels => uxSchedulerSuspended' # 0,
             \A x \in AllTasks \ {t} :
               /\ xTicksToWait'[x] = xTicksToWait[x]
               /\ pxEventList'[x] = pxEventList[x] /\ pxTCB'[x] = pxTCB[x]
      PROVE  FlowInv'
  <2>1. pc'[t] = label /\ \A x \in AllTasks \ {t} : pc'[x] = pc[x]
    BY <1>2, <1>3, <1>4
  <2>2. pc'[Idle] \in {"run", "yield", "free", "resumeAll"}
    BY <1>2, <1>3, <2>1 DEF AllTasks
  <2> QED BY <1>1, <1>2, <1>4, <2>1, <2>2, FlowCurrent
<1>5. CASE CallSuspendAll(t)
  <2>1. UNCHANGED <<pc, mode, xPendedCounts, pxCurrentTCB, xTicksToWait,
                    pxEventList, pxTCB>>
    BY <1>5 DEF CallSuspendAll, frame, loopVars, argVars
  <2>2. pc' = [pc EXCEPT ![t] = "run"]
    BY <1>1, <1>2, <1>3, <2>1
  <2> QED BY <1>4, <2>1, <2>2 DEF Labels, SuspendedLabels
<1>6. CASE CallResumeAll(t)
  <2>1. /\ uxSchedulerSuspended' # 0 /\ pc' = [pc EXCEPT ![t] = "resumeAll"]
        /\ UNCHANGED <<mode, xPendedCounts, pxCurrentTCB, xTicksToWait,
                       pxEventList, pxTCB>>
    BY <1>6 DEF CallResumeAll, Goto, schedVars, frame, loopVars, argVars
  <2> QED BY <1>4, <2>1 DEF Labels
<1>7. CASE CallCatchUpTicks(t)
  <2>1. PICK n \in DelayTicks : xTicksToWait' = [xTicksToWait EXCEPT ![t] = n]
    BY <1>7 DEF CallCatchUpTicks
  <2>2. /\ uxSchedulerSuspended' # 0 /\ pc' = [pc EXCEPT ![t] = "catchUp"]
        /\ UNCHANGED <<mode, xPendedCounts, pxCurrentTCB, pxEventList, pxTCB>>
    BY <1>3, <1>7 DEF CallCatchUpTicks, vTaskSuspendAll, Goto, frame, loopVars
  <2> QED BY <1>3, <1>4, <2>1, <2>2 DEF Labels
<1>8. CASE CallDelayUntil(t)
  <2>1. /\ uxSchedulerSuspended' # 0 /\ pc' = [pc EXCEPT ![t] = "delayUntil"]
        /\ UNCHANGED <<mode, xPendedCounts, pxCurrentTCB, xTicksToWait,
                       pxEventList, pxTCB>>
    BY <1>3, <1>8 DEF CallDelayUntil, vTaskSuspendAll, Goto, frame, loopVars, argVars
  <2> QED BY <1>4, <2>1 DEF Labels
<1>9. CASE DeleteSelf(t)
  <2>1. /\ pc' = [pc EXCEPT ![t] = "yield"]
        /\ UNCHANGED <<mode, xPendedCounts, pxCurrentTCB, xTicksToWait,
                       pxEventList, pxTCB>>
    BY <1>9 DEF DeleteSelf, Goto, schedVars, loopVars, argVars
  <2> QED BY <1>4, <2>1 DEF Labels, SuspendedLabels
<1>10. ASSUME NEW n \in TickType, CallDelay(t, n) PROVE FlowInv'
  <2>1. /\ xTicksToWait' = [xTicksToWait EXCEPT ![t] = n]
        /\ UNCHANGED <<mode, xPendedCounts, pxCurrentTCB, pxEventList, pxTCB>>
    BY <1>10 DEF CallDelay, frame, loopVars
  <2>2. PICK label \in {"delay", "yield"} :
          /\ pc' = [pc EXCEPT ![t] = label]
          /\ label = "delay" =>
               n > 0 /\ uxSchedulerSuspended' = uxSchedulerSuspended + 1
    BY <1>10 DEF CallDelay, Goto, vTaskSuspendAll
  <2>3. xTicksToWait'[t] = n
    BY <1>2, <1>3, <2>1
  <2>4. label \in SuspendedLabels => uxSchedulerSuspended' # 0
    BY <1>3, <2>2 DEF SuspendedLabels
  <2> QED BY <1>3, <1>4, <2>1, <2>2, <2>3, <2>4 DEF Labels
<1>11. ASSUME NEW e \in EventObjects, NEW n \in TickType, CallWait(t, e, n)
       PROVE  FlowInv'
  <2>1. /\ xTicksToWait' = [xTicksToWait EXCEPT ![t] = n] /\ n # 0
        /\ pxEventList' = [pxEventList EXCEPT ![t] = e]
        /\ pc' = [pc EXCEPT ![t] = "block"]
        /\ uxSchedulerSuspended' = uxSchedulerSuspended + 1
        /\ UNCHANGED <<mode, xPendedCounts, pxCurrentTCB, pxTCB>>
    BY <1>11 DEF CallWait, vTaskSuspendAll, Goto, frame, loopVars
  <2>2. xTicksToWait'[t] = n /\ pxEventList'[t] = e
    BY <1>2, <1>3, <2>1
  <2>3. n > 0
    BY <2>1, ConstantsAssumption DEF TickType
  <2>4. uxSchedulerSuspended' # 0
    BY <1>3, <2>1
  <2> QED BY <1>3, <1>4, <2>1, <2>2, <2>3, <2>4 DEF Labels
<1>12. ASSUME (\E e \in EventObjects : CallSignal(t, e))
              \/ (\E x \in Tasks : vTaskResume(t, x))
       PROVE  FlowInv'
  <2>1. /\ uxSchedulerSuspended = 0
        /\ UNCHANGED <<pc, mode, xPendedCounts, uxSchedulerSuspended,
                       xTicksToWait, pxEventList, pxTCB>>
    BY <1>12 DEF CallSignal, vTaskResume, Calling, frame, loopVars, argVars
  <2>2. state'["ready"] \in Seq(AllTasks) /\ Items(state'["ready"]) # {}
    BY <1>1, <2>1, ListsStep DEF ListsInv, StateListsOK, StateLists, Next
  <2>3. PICK x : YieldIfEarlier(x, state'["ready"])
    BY <1>12 DEF CallSignal, vTaskResume
  <2>4. pxCurrentTCB' = pxCurrentTCB \/ pxCurrentTCB' \in AllTasks
    BY <2>2, <2>3, SwitchFacts DEF YieldIfEarlier
  <2> QED BY <1>1, <1>2, <2>1, <2>4, FlowSwitch
<1>13. ASSUME NEW x \in Tasks, NEW d \in TickType, CallCreate(t, x, d)
       PROVE  FlowInv'
  <2>1. /\ pc' = [pc EXCEPT ![t] = "create", ![x] = EntryLabel(x)]
        /\ pxTCB' = [pxTCB EXCEPT ![t] = x]
        /\ UNCHANGED <<mode, xPendedCounts, pxCurrentTCB, xTicksToWait,
                       pxEventList>>
    BY <1>13 DEF CallCreate, schedVars, loopVars
  <2>2. x \in AllTasks /\ x # Idle /\ EntryLabel(x) \in {"run", "entry"}
    BY ConstantsAssumption DEF AllTasks, EntryLabel
  <2>3. /\ \A y \in AllTasks \ {t, x} : pc'[y] = pc[y]
        /\ pc'[x] \in {"run", "entry"}
        /\ pc'[t] \in {"create", "run", "entry"}
    BY <1>2, <1>3, <2>1, <2>2
  <2>4. \A y \in AllTasks \ {t} : pxTCB'[y] = pxTCB[y]
    BY <1>3, <2>1
  <2>5. pc'[Idle] = pc[Idle]
    BY <1>2, <2>2, <2>3 DEF AllTasks
  <2> QED BY <1>1, <1>2, <1>3, <2>1, <2>3, <2>4, <2>5, FlowCurrent
          DEF SuspendedLabels
<1>14. ASSUME NEW x \in Tasks, CallSuspend(t, x) PROVE FlowInv'
  <2>1. /\ pc' = [pc EXCEPT ![t] = "suspend"]
        /\ pxTCB' = [pxTCB EXCEPT ![t] = x]
        /\ UNCHANGED <<mode, xPendedCounts, pxCurrentTCB, xTicksToWait,
                       pxEventList>>
    BY <1>14 DEF CallSuspend, Goto, schedVars, frame, loopVars
  <2>2. pxTCB'[t] = x /\ \A y \in AllTasks \ {t} : pxTCB'[y] = pxTCB[y]
    BY <1>2, <1>3, <2>1
  <2> QED BY <1>4, <2>1, <2>2 DEF Labels, SuspendedLabels
<1>15. ASSUME NEW x \in Tasks, DeleteOther(t, x) PROVE FlowInv'
  <2>1. /\ pc' = [pc EXCEPT ![t] = "free", ![x] = "run"] /\ x # t
        /\ Freed(x) /\ UNCHANGED <<mode, xPendedCounts, pxCurrentTCB>>
    BY <1>15 DEF DeleteOther, schedVars, loopVars
  <2>2. x \in AllTasks /\ x # Idle
    BY ConstantsAssumption DEF AllTasks
  <2>3. /\ \A y \in AllTasks \ {t, x} : pc'[y] = pc[y]
        /\ pc'[x] = "run" /\ pc'[t] = "free"
    BY <1>2, <1>3, <2>1, <2>2
  <2>4. \A y \in AllTasks \ {x} :
          /\ xTicksToWait'[y] = xTicksToWait[y]
          /\ pxEventList'[y] = pxEventList[y] /\ pxTCB'[y] = pxTCB[y]
    BY <1>3, <2>1 DEF Freed
  <2>5. pc'[Idle] = pc[Idle]
    BY <1>2, <2>2, <2>3 DEF AllTasks
  <2>6. \A y \in AllTasks \ {t} :
          \/ pc'[y] \in {"run", "entry"}
          \/ /\ pc'[y] = pc[y] /\ xTicksToWait'[y] = xTicksToWait[y]
             /\ pxEventList'[y] = pxEventList[y] /\ pxTCB'[y] = pxTCB[y]
    BY <2>3, <2>4
  <2>7. mode' = "task" /\ pxCurrentTCB' = t
    BY <1>1, <2>1
  <2> QED BY <1>1, <1>2, <1>3, <2>1, <2>3, <2>5, <2>6, <2>7, FlowCurrent
          DEF SuspendedLabels
<1> QED BY <1>5, <1>6, <1>7, <1>8, <1>9, <1>10, <1>11, <1>12, <1>13, <1>14,
           <1>15 DEF Call

LEMMA FlowStep ==
  ASSUME IInv, Next
  PROVE  FlowInv'
<1>1. CASE Main
  BY <1>1, FlowMain
<1>2. CASE Interrupt
  BY <1>2, FlowInterrupt
<1>3. CASE Masked
  BY <1>3, FlowMasked
<1>4. CASE IdleLoop
  BY <1>4, FlowIdleLoop
<1>5. ASSUME NEW t \in AllTasks, Continue(t) PROVE FlowInv'
  BY <1>5, FlowContinue
<1>6. ASSUME NEW t \in Tasks, Call(t) PROVE FlowInv'
  BY <1>6, FlowCall
<1> QED BY <1>1, <1>2, <1>3, <1>4, <1>5, <1>6 DEF Next

LEMMA TypeStep ==
  ASSUME IInv, Next
  PROVE  TypeOK'
<1>1. CASE Main
  BY <1>1, TypeMain
<1>2. CASE Interrupt
  BY <1>2, TypeInterrupt
<1>3. CASE Masked
  BY <1>3, TypeMasked
<1>4. CASE IdleLoop
  BY <1>4, TypeIdleLoop
<1>5. ASSUME NEW t \in AllTasks, Continue(t) PROVE TypeOK'
  BY <1>5, TypeContinue
<1>6. ASSUME NEW t \in Tasks, Call(t) PROVE TypeOK'
  BY <1>6, TypeCall
<1> QED BY <1>1, <1>2, <1>3, <1>4, <1>5, <1>6 DEF Next

-----------------------------------------------------------------------------
(* Before the scheduler starts.                                             *)

LEMMA MainEnds ==
  ASSUME IInv, Next, mode' = "main"
  PROVE  \/ \E t \in Tasks, d \in TickType : MainCreate(t, d)
         \/ \E t \in Tasks : MainSuspend(t)
<1>1. CASE Main
  BY <1>1 DEF Main, vTaskStartScheduler
<1>2. CASE Interrupt
  BY <1>2 DEF Interrupt, TickISR, xTaskIncrementTick, TickWhileSuspended,
              xTaskResumeFromISR, SignalFromISR, frame
<1>3. CASE Masked
  BY <1>3 DEF Masked, UnblockTask, UnblockDone, TickReturn, ResumePendingTask,
              ResumePendedTick, xTaskIncrementTick, ResumeAllReturn
<1>4. CASE IdleLoop
  BY <1>4 DEF IdleLoop, prvCheckTasksWaitingTermination, IdleShouldYield, At, frame
<1>5. ASSUME NEW t \in AllTasks, Continue(t) PROVE FALSE
  <2>1. mode = "task"
    BY <1>5
       DEF Continue, xTaskResumeAll, xTaskCatchUpTicks, TaskEntry, vTaskDelay,
           xTaskDelayUntil, vTaskPlaceOnEventList, vPortYield,
           prvAddNewTaskToReadyList, vTaskSuspend, prvDeleteTCB, At
  <2>2. mode' \in {mode, ResumeMode}
    BY <1>5
       DEF Continue, xTaskResumeAll, xTaskCatchUpTicks, TaskEntry, vTaskDelay,
           xTaskDelayUntil, vTaskPlaceOnEventList, vPortYield,
           prvAddNewTaskToReadyList, vTaskSuspend, prvDeleteTCB, frame
  <2> QED BY <2>1, <2>2 DEF ResumeMode
<1>6. ASSUME NEW t \in Tasks, Call(t) PROVE FALSE
  <2>1. mode = "task"
    BY <1>6
       DEF Call, CallSuspendAll, CallResumeAll, CallCatchUpTicks,
           CallDelayUntil, DeleteSelf, CallDelay, CallWait, CallSignal,
           CallCreate, CallSuspend, vTaskResume, DeleteOther, Calling, At
  <2>2. mode' = mode
    BY <1>6
       DEF Call, CallSuspendAll, CallResumeAll, CallCatchUpTicks,
           CallDelayUntil, DeleteSelf, CallDelay, CallWait, CallSignal,
           CallCreate, CallSuspend, vTaskResume, DeleteOther, frame
  <2> QED BY <2>1, <2>2
<1> QED BY <1>1, <1>2, <1>3, <1>4, <1>5, <1>6 DEF Next

(* The task that is moved is counted once in the lists it may be in.        *)
LEMMA MainStep ==
  ASSUME IInv, Next
  PROVE  MainInv'
<1>1. SUFFICES ASSUME mode' = "main" PROVE MainInv'
  BY DEF MainInv
<1> DEFINE r == Len(state["ready"])    s == Len(state["suspended"])
           r2 == Len(state'["ready"])  s2 == Len(state'["suspended"])
<1>2. StateListsOK /\ r \in Nat /\ s \in Nat
  BY DEF IInv, TypeOK, StateLists
<1>3. ASSUME NEW t \in Tasks, NEW d \in TickType, MainCreate(t, d)
      PROVE  MainInv'
  <2>1. /\ mode = "main" /\ t \in AllTasks /\ InsertState("ready", t, d)
        /\ uxCurrentNumberOfTasks' = uxCurrentNumberOfTasks + 1
        /\ pc' = [pc EXCEPT ![t] = EntryLabel(t)] /\ ~ Exists(t)
        /\ uxSchedulerSuspended' = uxSchedulerSuspended
    BY <1>3 DEF MainCreate, AddNewTask, Goto, AllTasks
  <2>2. MainInv
    BY DEF IInv
  <2>3. \A l \in StateLists : t \notin Items(state[l])
    BY <1>2, <2>1, HoldsItems DEF Exists
  <2>4. /\ Moved("ready", t)
        /\ state'["suspended"] = DetachedState(t)["suspended"]
        /\ r2 = r + 1
    BY <1>2, <2>1, <2>3, InsertStateFacts DEF StateLists
  <2>5. s2 = s
    BY <1>2, <2>3, <2>4, DetachedFacts DEF StateLists
  <2>6. \A l \in {"delayed", "overflow", "terminating"} : Items(state'[l]) = {}
    BY <2>1, <2>2, <2>4 DEF MainInv, Moved, StateLists
  <2>7. uxCurrentNumberOfTasks' = r2 + s2
    <3>1. uxCurrentNumberOfTasks = r + s
      BY <2>1, <2>2 DEF MainInv
    <3> HIDE DEF r, s, r2, s2
    <3> QED BY <1>2, <2>1, <2>4, <2>5, <3>1
  <2>8. \A x \in AllTasks : pc'[x] \in {"run", "entry"}
    BY <2>1, <2>2 DEF MainInv, EntryLabel, IInv, TypeOK
  <2> QED BY <2>1, <2>2, <2>6, <2>7, <2>8 DEF MainInv
<1>4. ASSUME NEW t \in Tasks, MainSuspend(t)
      PROVE  MainInv'
  <2>1. /\ mode = "main" /\ t \in AllTasks /\ AppendState("suspended", t)
        /\ ValidHandle(t)
        /\ UNCHANGED <<uxCurrentNumberOfTasks, uxSchedulerSuspended, pc>>
    BY <1>4 DEF MainSuspend, frame, countVars, AllTasks
  <2>2. MainInv
    BY DEF IInv
  <2>3. /\ Moved("suspended", t)
        /\ state'["ready"] = DetachedState(t)["ready"]
        /\ s2 = IF t \in Items(state["suspended"]) THEN s ELSE s + 1
    BY <1>2, <2>1, AppendStateFacts DEF StateLists
  <2>4. r2 = IF t \in Items(state["ready"]) THEN r - 1 ELSE r
    BY <1>2, <2>3, DetachedFacts DEF StateLists
  <2>5. t \in Items(state["ready"]) \/ t \in Items(state["suspended"])
    <3>1. \E l \in StateLists : t \in Items(state[l])
      BY <1>2, <2>1, HoldsItems DEF ValidHandle, Exists
    <3> QED BY <2>1, <2>2, <3>1 DEF MainInv, StateLists
  <2>6. ~ (t \in Items(state["ready"]) /\ t \in Items(state["suspended"]))
    BY DEF IInv, Disjoint, StateLists
  <2>7. \A l \in {"delayed", "overflow", "terminating"} : Items(state'[l]) = {}
    BY <2>1, <2>2, <2>3 DEF MainInv, Moved, StateLists
  <2>8. uxCurrentNumberOfTasks' = r2 + s2
    <3>1. uxCurrentNumberOfTasks' = r + s
      BY <2>1, <2>2 DEF MainInv
    <3>2. (r2 = r - 1 /\ s2 = s + 1) \/ (r2 = r /\ s2 = s)
      BY <2>3, <2>4, <2>5, <2>6
    <3> HIDE DEF r, s, r2, s2
    <3> QED BY <1>2, <3>1, <3>2
  <2> QED BY <2>1, <2>2, <2>7, <2>8 DEF MainInv
<1> QED BY <1>1, <1>3, <1>4, MainEnds

-----------------------------------------------------------------------------
(* The inductive invariant.                                                 *)

LEMMA InitInv == Init => IInv
<1> SUFFICES ASSUME Init PROVE IInv
  OBVIOUS
<1>1. 0 \in TickType /\ <<>> \in Seq(AllTasks) /\ Items(<<>>) = {}
      /\ NoDuplicates(<<>>) /\ Len(<<>>) = 0
  BY ConstantsAssumption DEF TickType, Items, NoDuplicates
<1>2. \A l \in StateLists : state[l] = <<>>
  BY DEF Init
<1>3. TypeOK
  <2>1. /\ state \in [StateLists -> Seq(AllTasks)]
        /\ event \in [EventLists -> Seq(AllTasks)]
        /\ \A f \in {stateValue, eventValue, xDeadline, xTicksToWait,
                    pxPreviousWakeTime} : f \in [AllTasks -> TickType]
    BY <1>1 DEF Init
  <2>2. /\ pc \in [AllTasks -> Labels]
        /\ pxTCB \in [AllTasks -> AllTasks \union {NULL}]
        /\ pxEventList \in [AllTasks -> EventObjects \union {NULL}]
    BY DEF Init, Labels
  <2>3. xNumOfOverflows \in 0..(NumOverflows - 1)
    BY ConstantsAssumption DEF Init
  <2>4. mode \in Modes /\ xTickCount \in TickType /\ xNextTaskUnblockTime \in TickType
    BY <1>1 DEF Init, Modes
  <2>5. /\ pxCurrentTCB \in AllTasks \union {NULL}
        /\ xPendedTicks \in TickType /\ xPendedCounts \in TickType
        /\ uxSchedulerSuspended \in Nat
        /\ uxCurrentNumberOfTasks \in Int /\ uxDeletedTasksWaitingCleanUp \in Int
    BY <1>1 DEF Init
  <2>6. xYieldPending \in BOOLEAN /\ xSwitchRequired \in BOOLEAN
    BY DEF Init
  <2> QED BY <2>1, <2>2, <2>3, <2>4, <2>5, <2>6 DEF TypeOK
<1>4. StateListsOK
  BY <1>1, <1>2, <1>3 DEF StateListsOK, TypeOK
<1>5. Disjoint
  BY <1>1, <1>2 DEF Disjoint
<1>6. MainInv
  BY <1>1, <1>2 DEF Init, MainInv, StateLists
<1>7. IdleInv
  BY DEF Init, IdleInv, AllTasks
<1>8. SuspendInv
  BY DEF Init, SuspendInv, SuspendedLabels
<1>9. DelayListsInv
  <2>1. Sorted(<<>>, stateValue)
    BY DEF Sorted
  <2> QED BY <1>1, <1>2, <2>1 DEF DelayListsInv, StateLists
<1>10. ArgsInv
  BY DEF Init, ArgsInv
<1> QED BY <1>3, <1>4, <1>5, <1>6, <1>7, <1>8, <1>9, <1>10 DEF IInv

LEMMA NextInv == IInv /\ [Next]_vars => IInv'
<1> SUFFICES ASSUME IInv, [Next]_vars PROVE IInv'
  OBVIOUS
<1>1. CASE Next
  <2>1. TypeOK' /\ FlowInv' /\ ListsInv' /\ MainInv'
    BY <1>1, TypeStep, FlowStep, ListsStep, MainStep
  <2> QED BY <2>1 DEF FlowInv, ListsInv, IInv, IdleInv
<1>2. CASE UNCHANGED vars
  <2>1. UNCHANGED <<mode, pxCurrentTCB, state, stateValue, event, eventValue,
                    xDeadline, xTickCount, xNextTaskUnblockTime, xPendedTicks,
                    xNumOfOverflows, uxSchedulerSuspended, xYieldPending,
                    uxCurrentNumberOfTasks, uxDeletedTasksWaitingCleanUp>>
        /\ UNCHANGED <<pc, xTicksToWait, pxTCB, pxEventList,
                       pxPreviousWakeTime, xSwitchRequired, xPendedCounts>>
    BY <1>2 DEF vars, frame, tcbVars, timeVars, countVars, loopVars, schedVars,
                wakeVars, listVars, argVars
  <2>2. TypeOK'
    BY <2>1 DEF IInv, TypeOK
  <2>3. StateListsOK' /\ Disjoint' /\ MainInv' /\ IdleInv'
    BY <2>1 DEF IInv, StateListsOK, Disjoint, MainInv, IdleInv
  <2>4. SuspendInv' /\ DelayListsInv' /\ ArgsInv'
    BY <2>1 DEF IInv, SuspendInv, DelayListsInv, ArgsInv, Sorted, UnblockTime
  <2> QED BY <2>2, <2>3, <2>4 DEF IInv
<1> QED BY <1>1, <1>2

THEOREM InvariantHolds == Spec => []IInv
BY InitInv, NextInv, PTL DEF Spec

(* Every variable keeps its type: the lists hold tasks, no tick count       *)
(* leaves TickType_t, and in no schedule is vTaskSwitchContext or           *)
(* xTaskRemoveFromEventList left with an empty list to take a head from, or *)
(* uxSchedulerSuspended decremented at zero.                                *)
THEOREM TypeCorrect == Spec => []TypeOK
<1>1. IInv => TypeOK
  BY DEF IInv
<1> QED BY <1>1, InvariantHolds, PTL

(* When the tick count is about to wrap nobody is left in the current list. *)
LEMMA DelayedListIsEmptyAtOverflow ==
  ASSUME IInv, mode # "tick", xTickCount = MaxDelay
  PROVE  state["delayed"] = <<>>
<1>1. state["delayed"] \in Seq(AllTasks)
  BY DEF IInv, TypeOK, StateLists
<1>2. ASSUME NEW t \in Items(state["delayed"]) PROVE FALSE
  <2>1. stateValue[t] > MaxDelay
    BY DEF IInv, DelayListsInv
  <2>2. t \in AllTasks
    BY <1>1, ItemsTyped
  <2>3. stateValue[t] \in 0..MaxDelay
    BY <2>2 DEF IInv, TypeOK, TickType
  <2> QED BY <2>1, <2>3, ConstantsAssumption
<1> QED BY <1>1, <1>2, NonemptyHead

(* The delayed lists are in wake order and on their side of the tick count, *)
(* and xNextTaskUnblockTime is never later than the first wake time         *)
(* (prvAddCurrentTaskToDelayedList, xTaskIncrementTick and all callers that  *)
(* remove a task from a delayed list); configASSERT( listLIST_IS_EMPTY(     *)
(* pxDelayedTaskList ) ) of taskSWITCH_DELAYED_LISTS never fails.           *)
THEOREM DelayedListsAreValid == Spec => []DelayedListsValid
<1>1. IInv => DelayedListsValid
  <2> SUFFICES ASSUME IInv PROVE DelayedListsValid
    OBVIOUS
  <2>1. /\ xTickCount \in Int /\ stateValue \in [AllTasks -> Int]
        /\ Items(state["overflow"]) \subseteq AllTasks
    BY TickTypeFacts, ItemsTyped DEF IInv, TypeOK, StateLists
  <2>2. \A t \in Items(state["overflow"]) : stateValue[t] <= xTickCount
    BY <2>1 DEF IInv, DelayListsInv
  <2>3. \A l \in {"delayed", "overflow"} : Sorted(state[l], stateValue)
    BY DEF IInv, DelayListsInv
  <2>4. \A t \in Items(state["delayed"]) :
          /\ stateValue[t] >= xTickCount
          /\ mode # "tick" => /\ stateValue[t] > xTickCount
                              /\ stateValue[t] >= xNextTaskUnblockTime
    BY DEF IInv, DelayListsInv
  <2>5. mode \in {"task", "resume", "resumeTicks"} /\ xTickCount = MaxDelay =>
          state["delayed"] = <<>>
    BY DelayedListIsEmptyAtOverflow
  <2> QED BY <2>2, <2>3, <2>4, <2>5 DEF DelayedListsValid
<1> QED BY <1>1, InvariantHolds, PTL

-----------------------------------------------------------------------------
(* Where the current task is, and how far it is in the call it makes.       *)

(* The current task is about to yield, or to block and then yield.          *)
SelfSuspending ==
  pc[pxCurrentTCB] = "suspend" /\ pxTCB[pxCurrentTCB] = pxCurrentTCB
Leaving == pc[pxCurrentTCB] \in {"yield", "delayResume"} \/ SelfSuspending

(* It is in the ready list unless it leaves.                                *)
CurrentIn(l) ==
  /\ pxCurrentTCB \in Items(state[l])
  /\ l # "ready" => Leaving
  /\ l = "terminating" => pc[pxCurrentTCB] = "yield"
PlaceInv == mode # "main" => \E l \in StateLists : CurrentIn(l)

FirstInv ==
  mode = "main" =>
    /\ ~ Exists(Idle)
    /\ IF pxCurrentTCB = NULL THEN state["ready"] = <<>>
       ELSE pxCurrentTCB \in Items(state["ready"])

(* The calls that block suspend the scheduler once, no call that yields is  *)
(* made with the scheduler suspended, and the idle task suspends it only to *)
(* free memory.                                                             *)
NestInv ==
  mode = "task" =>
    /\ pc[pxCurrentTCB] \in {"yield", "suspend", "create"} =>
         uxSchedulerSuspended = 0
    /\ pc[pxCurrentTCB] \in SuspendedLabels \ {"resumeAll"} =>
         uxSchedulerSuspended = 1
    /\ pxCurrentTCB = Idle =>
         uxSchedulerSuspended = IF pc[Idle] = "resumeAll" THEN 1 ELSE 0

(* The loops: which of them note a switch, and who runs them.               *)
LoopInv ==
  /\ xSwitchRequired => mode \in {"tick", "tickDone"}
  /\ mode \in {"resume", "resumeTicks"} \/ xPendedCounts # 0 =>
       pc[pxCurrentTCB] \in {"resumeAll", "delayResume"}

UntilInv == \A t \in Tasks : pc[t] = "delayUntil" => "delayUntil" \in Calls[t]

CurrentInv == PlaceInv /\ FirstInv /\ NestInv /\ LoopInv /\ UntilInv

(* What the step leaves of the place of a current task that stays.          *)
LEMMA PlaceKept ==
  ASSUME PlaceInv, mode # "main", UNCHANGED <<pxCurrentTCB, state>>,
         Leaving => Leaving' \/ pxCurrentTCB \in Items(state["ready"]),
         pc[pxCurrentTCB] = "yield" => pc'[pxCurrentTCB] = "yield"
  PROVE  PlaceInv'
<1>1. PICK l \in StateLists : CurrentIn(l)
  BY DEF PlaceInv
<1>2. CASE pxCurrentTCB \in Items(state["ready"])
  BY <1>2 DEF PlaceInv, CurrentIn, StateLists
<1>3. CASE pxCurrentTCB \notin Items(state["ready"])
  BY <1>1, <1>3 DEF PlaceInv, CurrentIn
<1> QED BY <1>2, <1>3

LEMMA PlaceReady ==
  ASSUME pxCurrentTCB' \in Items(state'["ready"])
  PROVE  PlaceInv'
BY DEF PlaceInv, CurrentIn, StateLists

(* Another task is moved, or the current one to the ready list.             *)
LEMMA PlaceMoved ==
  ASSUME PlaceInv, mode # "main", NEW x, UNCHANGED <<pxCurrentTCB, pc, pxTCB>>,
         \/ Moved("ready", x)
         \/ /\ x # pxCurrentTCB
            /\ Removed(x) \/ \E list \in StateLists : Moved(list, x)
  PROVE  PlaceInv'
<1>1. PICK l \in StateLists : CurrentIn(l)
  BY DEF PlaceInv
<1>2. CASE x = pxCurrentTCB
  BY <1>2, PlaceReady DEF Moved
<1>3. CASE x # pxCurrentTCB
  <2>1. pxCurrentTCB \in Items(state'[l])
    BY <1>1, <1>3 DEF CurrentIn, Moved, Removed, StateLists
  <2>2. CurrentIn(l)'
    BY <1>1, <2>1 DEF CurrentIn, Leaving, SelfSuspending
  <2> QED BY <2>2 DEF PlaceInv
<1> QED BY <1>2, <1>3

LEMMA NestRunning ==
  ASSUME IInv', uxSchedulerSuspended' = 0
  PROVE  NestInv'
<1> SUFFICES ASSUME mode' = "task" PROVE NestInv'
  BY DEF NestInv
<1>1. pxCurrentTCB' \in AllTasks
  BY ConstantsAssumption DEF IInv, TypeOK, IdleInv
<1>2. \A t \in AllTasks : pc'[t] \notin SuspendedLabels
  BY DEF IInv, SuspendInv
<1> QED BY <1>1, <1>2 DEF NestInv, SuspendedLabels

(* Steps of tasks and of interrupts other than the tick.                    *)
LEMMA LoopTask ==
  ASSUME IInv', LoopInv, mode = "task", mode' = "task",
         xSwitchRequired' = xSwitchRequired
  PROVE  LoopInv'
BY DEF LoopInv, IInv, SuspendInv

LEMMA UntilKept ==
  ASSUME UntilInv,
         \A t \in Tasks : \/ pc'[t] = pc[t] \/ pc'[t] # "delayUntil"
                          \/ "delayUntil" \in Calls[t]
  PROVE  UntilInv'
BY DEF UntilInv

(* A ready task is taken.                                                   *)
LEMMA SwitchTakesHead ==
  ASSUME IInv', mode' # "main", uxSchedulerSuspended = 0,
         vTaskSwitchContext(state'["ready"])
  PROVE  /\ xYieldPending' = FALSE
         /\ pxCurrentTCB' = Head(state'["ready"])
         /\ pxCurrentTCB' \in Items(state'["ready"])
<1>1. state'["ready"] \in Seq(AllTasks) /\ Items(state'["ready"]) # {}
  BY DEF IInv, TypeOK, IdleInv, StateLists
<1>2. state'["ready"] # <<>>
  BY <1>1, NonemptyHead
<1> QED BY <1>1, <1>2, NonemptyHead DEF vTaskSwitchContext

(* A switch of a step with no task in a loop.                               *)
LEMMA CurrentSwitched ==
  ASSUME IInv, IInv', CurrentInv, mode' = "task", uxSchedulerSuspended = 0,
         uxSchedulerSuspended' = 0, xSwitchRequired' = FALSE,
         vTaskSwitchContext(state'["ready"]),
         \A t \in Tasks : pc'[t] = pc[t] \/ pc'[t] # "delayUntil"
  PROVE  CurrentInv'
<1>1. pxCurrentTCB' \in Items(state'["ready"])
  BY SwitchTakesHead
<1>2. LoopInv'
  BY DEF LoopInv, IInv, SuspendInv
<1> QED BY <1>1, <1>2, PlaceReady, NestRunning, UntilKept
     DEF CurrentInv, FirstInv

LEMMA CurrentMain ==
  ASSUME IInv, IInv', CurrentInv, Main
  PROVE  CurrentInv'
<1>1. /\ mode = "main" /\ uxSchedulerSuspended' = 0 /\ mode' \in {"main", "task"}
      /\ xSwitchRequired' = xSwitchRequired /\ xPendedCounts' = 0
  BY DEF Main, MainCreate, MainSuspend, vTaskStartScheduler, frame, loopVars,
         IInv, SuspendInv, MainInv
<1>2. NestInv' /\ LoopInv'
  BY <1>1, NestRunning DEF CurrentInv, LoopInv
<1>3. UntilInv'
  <2>1. \A t \in AllTasks : pc'[t] # "delayUntil"
    <3>1. ASSUME NEW t \in Tasks, NEW d \in TickType, MainCreate(t, d)
          PROVE  \A x \in AllTasks : pc'[x] # "delayUntil"
      BY <3>1 DEF MainCreate, Goto, EntryLabel, IInv, TypeOK, MainInv
    <3>2. ASSUME pc' = pc PROVE \A x \in AllTasks : pc'[x] # "delayUntil"
      BY <1>1, <3>2 DEF IInv, MainInv
    <3> QED BY <3>1, <3>2 DEF Main, MainSuspend, vTaskStartScheduler
  <2> QED BY <2>1 DEF UntilInv, AllTasks
<1>4. IF pxCurrentTCB = NULL THEN state["ready"] = <<>>
      ELSE pxCurrentTCB \in Items(state["ready"])
  BY <1>1 DEF CurrentInv, FirstInv
<1>5. ASSUME NEW t \in AllTasks, NEW d \in TickType, AddNewTask(t, d),
             PickFirst(t, d), mode' # "main" \/ pxCurrentTCB' # NULL
      PROVE  pxCurrentTCB' \in Items(state'["ready"])
  <2>1. Moved("ready", t)
    BY <1>5, InsertStateFacts DEF AddNewTask, StateLists, IInv
  <2> QED BY <1>4, <1>5, <2>1 DEF Moved, PickFirst
<1>11. ASSUME NEW t \in Tasks, NEW list \in StateLists, Moved(list, t)
       PROVE  ~ Exists(Idle)'
  <2>1. \A l \in StateLists : Idle \notin Items(state[l])
    BY <1>1, HoldsItems DEF CurrentInv, FirstInv, Exists
  <2>2. \A l \in StateLists : Idle \notin Items(state'[l])
    BY <1>11, <2>1, ConstantsAssumption DEF Moved
  <2> QED BY <2>2 DEF Exists, Holds, Contains, Items
<1>6. ASSUME NEW t \in Tasks, NEW d \in TickType, MainCreate(t, d)
      PROVE  FirstInv'
  <2>1. t \in AllTasks /\ t # NULL /\ pxCurrentTCB' \in {t, pxCurrentTCB}
        /\ (pxCurrentTCB = NULL => pxCurrentTCB' = t)
    BY <1>6, ConstantsAssumption DEF MainCreate, PickFirst, AllTasks
  <2>2. Moved("ready", t) /\ "ready" \in StateLists
    BY <1>6, <2>1, InsertStateFacts DEF MainCreate, AddNewTask, StateLists, IInv
  <2>3. ~ Exists(Idle)'
    BY <1>11, <2>2
  <2> QED BY <1>5, <1>6, <2>1, <2>3 DEF MainCreate, FirstInv
<1>7. ASSUME NEW t \in Tasks, MainSuspend(t)
      PROVE  FirstInv' /\ mode' = "main"
  <2>1. /\ AppendState("suspended", t) /\ t \in AllTasks /\ mode' = "main"
        /\ uxCurrentNumberOfTasks' = uxCurrentNumberOfTasks
    BY <1>1, <1>7 DEF MainSuspend, AllTasks, frame, countVars
  <2>2. Moved("suspended", t) /\ state'["ready"] = DetachedState(t)["ready"]
        /\ DetachedState(t)["ready"] = uxListRemove(state["ready"], t)
    BY <2>1, AppendStateFacts DEF IInv, StateLists, DetachedState
  <2>7. ~ Exists(Idle)'
    BY <1>11, <2>2 DEF StateLists
  <2>3. /\ state'["ready"] \in Seq(AllTasks)
        /\ uxCurrentNumberOfTasks' =
             Len(state'["ready"]) + Len(state'["suspended"])
        /\ Len(state'["ready"]) \in Nat /\ Len(state'["suspended"]) \in Nat
    BY <2>1 DEF IInv, TypeOK, MainInv, StateLists
  <2>4. CASE t # pxCurrentTCB
    <3>1. pxCurrentTCB' = pxCurrentTCB
      BY <1>7, <2>4 DEF MainSuspend
    <3>2. CASE pxCurrentTCB = NULL
      <4>1. Items(state["ready"]) = {}
        BY <1>4, <3>2 DEF Items
      <4>2. state'["ready"] = <<>>
        <5>1. Items(state'["ready"]) = {}
          BY <2>2, <4>1 DEF Moved, StateLists
        <5> QED BY <2>3, <5>1, NonemptyHead
      <4> QED BY <2>1, <2>7, <3>1, <3>2, <4>2 DEF FirstInv
    <3>3. CASE pxCurrentTCB # NULL
      BY <1>4, <2>1, <2>2, <2>4, <2>7, <3>1, <3>3 DEF FirstInv, Moved, StateLists
    <3> QED BY <3>2, <3>3
  <2>5. CASE /\ t = pxCurrentTCB
             /\ Len(state'["suspended"]) = uxCurrentNumberOfTasks
    <3>1. pxCurrentTCB' = NULL
      BY <1>7, <2>5 DEF MainSuspend
    <3>2. Len(state'["ready"]) = 0
      BY <2>1, <2>3, <2>5
    <3>3. state'["ready"] = <<>>
      BY <2>3, <3>2, EmptySeq
    <3> QED BY <2>1, <2>7, <3>1, <3>3 DEF FirstInv
  <2>6. CASE /\ t = pxCurrentTCB
             /\ Len(state'["suspended"]) # uxCurrentNumberOfTasks
    <3>1. Len(state'["ready"]) # 0
      <4> DEFINE r2 == Len(state'["ready"])
                 s2 == Len(state'["suspended"])
      <4>1. s2 # r2 + s2 /\ r2 \in Nat /\ s2 \in Nat
        BY <2>1, <2>3, <2>6
      <4> HIDE DEF r2, s2
      <4>2. r2 # 0
        BY <4>1
      <4> QED BY <4>2 DEF r2
    <3>2. state'["ready"] # <<>>
      BY <2>3, <3>1, EmptySeq
    <3>3. vTaskSwitchContext(state'["ready"]) /\ uxSchedulerSuspended = 0
      BY <1>1, <1>7, <2>6 DEF MainSuspend, IInv, MainInv
    <3>4. pxCurrentTCB' = Head(state'["ready"])
      BY <3>3 DEF vTaskSwitchContext
    <3>5. /\ pxCurrentTCB' \in Items(state'["ready"])
          /\ pxCurrentTCB' \in AllTasks
      BY <2>3, <3>2, <3>4, NonemptyHead
    <3>6. pxCurrentTCB' # NULL
      BY <3>5, ConstantsAssumption
    <3> QED BY <2>1, <2>7, <3>5, <3>6 DEF FirstInv
  <2> QED BY <2>1, <2>4, <2>5, <2>6
<1>8. ASSUME vTaskStartScheduler PROVE PlaceInv' /\ FirstInv'
  <2>1. /\ mode' # "main" /\ AddNewTask(Idle, MaxDelay) /\ PickFirst(Idle, MaxDelay)
        /\ Idle \in AllTasks
    BY <1>8 DEF vTaskStartScheduler, AllTasks
  <2>2. pxCurrentTCB' \in Items(state'["ready"])
    BY <1>5, <2>1, TickTypeFacts
  <2> QED BY <2>1, <2>2, PlaceReady DEF FirstInv
<1>9. CASE vTaskStartScheduler
  BY <1>2, <1>3, <1>8, <1>9 DEF CurrentInv
<1>10. CASE ~ vTaskStartScheduler
  <2>1. FirstInv' /\ mode' = "main"
    BY <1>1, <1>6, <1>7, <1>10 DEF Main, MainCreate
  <2> QED BY <1>2, <1>3, <2>1 DEF CurrentInv, PlaceInv
<1> QED BY <1>9, <1>10

(* The tick switches the delayed lists at the wrap.                         *)
LEMMA TickEffect ==
  ASSUME IInv, xTaskIncrementTick
  PROVE  /\ UNCHANGED <<pxCurrentTCB, uxSchedulerSuspended, xYieldPending,
                        stateValue, event, eventValue, xDeadline, pc, pxTCB,
                        xPendedTicks, xPendedCounts>>
         /\ UNCHANGED <<uxCurrentNumberOfTasks, uxDeletedTasksWaitingCleanUp>>
         /\ mode' \in {"tick", "tickDone"} /\ xSwitchRequired' = FALSE
         /\ \A l \in StateLists \ {"delayed", "overflow"} : state'[l] = state[l]
         /\ \/ state' = state
            \/ /\ state'["delayed"] = state["overflow"]
               /\ state'["overflow"] = state["delayed"]
<1>1. state \in [StateLists -> Seq(AllTasks)]
  BY DEF IInv, TypeOK
<1>2. \/ state' = state
      \/ state' = [state EXCEPT !["delayed"] = state["overflow"],
                                !["overflow"] = state["delayed"]]
  BY DEF xTaskIncrementTick
<1>3. /\ \A l \in StateLists \ {"delayed", "overflow"} : state'[l] = state[l]
      /\ \/ state' = state
         \/ /\ state'["delayed"] = state["overflow"]
            /\ state'["overflow"] = state["delayed"]
  BY <1>1, <1>2 DEF StateLists
<1> QED BY <1>3 DEF xTaskIncrementTick, schedVars, tcbVars, countVars, argVars

LEMMA CurrentTick ==
  ASSUME IInv, IInv', CurrentInv, xTaskIncrementTick, mode # "main"
         , mode = "resumeTicks" \/ xPendedCounts = 0
  PROVE  CurrentInv'
<1>1. PICK l \in StateLists : CurrentIn(l)
  BY DEF CurrentInv, PlaceInv
<1>2. PlaceInv'
  <2>1. PICK m \in StateLists :
          /\ Items(state'[m]) = Items(state[l])
          /\ m = l \/ (l \in {"delayed", "overflow"} /\ m \in {"delayed", "overflow"})
    BY TickEffect DEF StateLists
  <2>2. CurrentIn(m)'
    BY <1>1, <2>1, TickEffect DEF CurrentIn, Leaving, SelfSuspending
  <2> QED BY <2>2 DEF PlaceInv
<1>3. LoopInv'
  BY TickEffect DEF LoopInv, CurrentInv
<1>4. NestInv' /\ FirstInv'
  BY TickEffect DEF NestInv, FirstInv
<1>5. UntilInv'
  BY TickEffect DEF CurrentInv, UntilInv
<1> QED BY <1>2, <1>3, <1>4, <1>5 DEF CurrentInv

LEMMA CurrentInterrupt ==
  ASSUME IInv, IInv', CurrentInv, Interrupt
  PROVE  CurrentInv'
<1>1. CASE TickISR
  BY <1>1, CurrentTick DEF TickISR, IInv, SuspendInv
<1>2. CASE ~ TickISR
  <2>1. /\ mode = "task" /\ mode' = "task"
        /\ UNCHANGED <<pc, pxTCB, pxCurrentTCB, uxSchedulerSuspended, xSwitchRequired>>
    BY <1>2 DEF Interrupt, TickWhileSuspended, xTaskResumeFromISR,
                SignalFromISR, schedVars, frame, loopVars, argVars
  <2>2. state' = state \/ \E x \in AllTasks : Moved("ready", x)
    <3>1. CASE TickWhileSuspended
      BY <3>1 DEF TickWhileSuspended, listVars
    <3>2. ASSUME NEW t \in Tasks, xTaskResumeFromISR(t)
          PROVE  state' = state \/ \E x \in AllTasks : Moved("ready", x)
      BY <3>2, ReadiedFacts DEF xTaskResumeFromISR, Readied, AllTasks
    <3>3. ASSUME NEW e \in EventObjects, SignalFromISR(e)
          PROVE  state' = state \/ \E x \in AllTasks : Moved("ready", x)
      BY <3>3, SignalFacts DEF SignalFromISR, Readied
    <3> QED BY <1>2, <3>1, <3>2, <3>3 DEF Interrupt
  <2>3. PlaceInv'
    <3>1. ASSUME state' = state PROVE PlaceInv'
      BY <2>1, <3>1, PlaceKept DEF CurrentInv, Leaving, SelfSuspending
    <3> QED BY <2>1, <2>2, <3>1, PlaceMoved DEF CurrentInv
  <2>4. NestInv' /\ UntilInv' /\ FirstInv'
    BY <2>1 DEF CurrentInv, NestInv, UntilInv, FirstInv
  <2> QED BY <2>1, <2>3, <2>4, LoopTask DEF CurrentInv
<1> QED BY <1>1, <1>2

LEMMA CurrentMasked ==
  ASSUME IInv, IInv', CurrentInv, Masked
  PROVE  CurrentInv'
<1>1. ASSUME UnblockTask \/ ResumePendingTask
      PROVE  CurrentInv'
  <2>1. /\ mode \in {"tick", "resume"} /\ mode' \in {"tick", "resume", "resumeTicks"}
        /\ mode = "tick" => mode' = "tick"
        /\ xSwitchRequired' => mode' = "tick"
        /\ UNCHANGED <<pc, pxTCB, pxCurrentTCB, xPendedCounts>>
        /\ mode = "resume" => mode' \in {"resume", "resumeTicks"}
    BY <1>1 DEF UnblockTask, ResumePendingTask, schedVars, loopVars, argVars,
                CurrentInv, LoopInv
  <2>2. \E x \in AllTasks : Moved("ready", x)
    <3>1. CASE UnblockTask
      <4>1. Head(state["delayed"]) \in AllTasks
        BY <3>1, NonemptyHead DEF UnblockTask, IInv, TypeOK, StateLists
      <4> QED BY <3>1, <4>1, ReadiedFacts DEF UnblockTask, Readied
    <3>2. CASE ResumePendingTask
      <4>1. event["pendingReady"] \in Seq(AllTasks) /\ event["pendingReady"] # <<>>
        BY <3>2 DEF ResumePendingTask, IInv, TypeOK, SuspendInv, EventLists
      <4>2. Head(event["pendingReady"]) \in AllTasks
        BY <4>1, NonemptyHead
      <4> QED BY <3>2, <4>2, ReadiedFacts DEF ResumePendingTask, Readied
    <3> QED BY <1>1, <3>1, <3>2
  <2>3. PlaceInv'
    BY <2>1, <2>2, PlaceMoved DEF CurrentInv
  <2>4. NestInv' /\ UntilInv' /\ FirstInv' /\ LoopInv'
    BY <2>1 DEF CurrentInv, NestInv, UntilInv, FirstInv, LoopInv
  <2> QED BY <2>3, <2>4 DEF CurrentInv
<1>2. ASSUME UnblockDone
      PROVE  CurrentInv'
  <2>1. /\ mode = "tick" /\ mode' = "tickDone"
        /\ UNCHANGED <<pc, pxTCB, pxCurrentTCB, xPendedCounts, state>>
    BY <1>2 DEF UnblockDone, schedVars, loopVars, argVars, listVars
  <2>2. PlaceInv'
    BY <2>1, PlaceKept DEF CurrentInv, Leaving, SelfSuspending
  <2>3. NestInv' /\ UntilInv' /\ FirstInv' /\ LoopInv'
    BY <2>1 DEF CurrentInv, NestInv, UntilInv, FirstInv, LoopInv
  <2> QED BY <2>2, <2>3 DEF CurrentInv
<1>3. ASSUME ResumePendedTick PROVE CurrentInv'
  BY <1>3, CurrentTick DEF ResumePendedTick
<1>4. ASSUME TickReturn
      PROVE  CurrentInv'
  <2>1. /\ mode = "tickDone" /\ state' = state /\ xSwitchRequired' = FALSE
        /\ UNCHANGED <<pc, pxTCB, uxSchedulerSuspended>>
    BY <1>4 DEF TickReturn, listVars, argVars
  <2>2. uxSchedulerSuspended = 0
    BY <2>1 DEF IInv, SuspendInv
  <2>3. CASE xPendedCounts = 0 /\ SwitchDue
    <3>1. mode' = "task" /\ vTaskSwitchContext(state'["ready"])
      BY <1>4, <2>1, <2>3 DEF TickReturn
    <3> QED BY <2>1, <2>2, <3>1, CurrentSwitched
  <2>4. CASE ~ (xPendedCounts = 0 /\ SwitchDue)
    <3>1. /\ mode' \in {"task", "resumeTicks"} /\ pxCurrentTCB' = pxCurrentTCB
          /\ mode' = "resumeTicks" => xPendedCounts # 0
          /\ mode' = "task" => xPendedCounts' = 0
      BY <1>4, <2>4 DEF TickReturn
    <3>2. PlaceInv'
      BY <2>1, <3>1, PlaceKept DEF CurrentInv, Leaving, SelfSuspending
    <3>3. LoopInv'
      BY <2>1, <3>1 DEF CurrentInv, LoopInv
    <3>4. NestInv' /\ FirstInv' /\ UntilInv'
      BY <2>1, <2>2, <3>1, NestRunning DEF CurrentInv, FirstInv, UntilInv
    <3> QED BY <3>2, <3>3, <3>4 DEF CurrentInv
  <2> QED BY <2>3, <2>4
<1>5. ASSUME ResumeAllReturn
      PROVE  CurrentInv'
  <2>1. /\ mode = "resumeTicks" /\ mode' = "task" /\ xPendedCounts' = 0
        /\ UNCHANGED <<pxTCB, uxSchedulerSuspended, state, xSwitchRequired>>
    BY <1>5 DEF ResumeAllReturn, TicksCaughtUp, argVars, loopVars, listVars
  <2>2. /\ uxSchedulerSuspended = 0 /\ pxCurrentTCB \in AllTasks
        /\ pc[pxCurrentTCB] \in {"resumeAll", "delayResume"}
        /\ pc \in [AllTasks -> Labels] /\ xSwitchRequired' = FALSE
    BY <2>1 DEF IInv, SuspendInv, TypeOK, IdleInv, CurrentInv, LoopInv
  <2>3. PICK label \in {"run", "yield"} :
          /\ pc' = [pc EXCEPT ![pxCurrentTCB] = label]
          /\ ~ xYieldPending /\ pc[pxCurrentTCB] = "delayResume" => label = "yield"
    BY <1>5 DEF ResumeAllReturn, Goto
  <2>4. \A t \in Tasks : pc'[t] = pc[t] \/ pc'[t] # "delayUntil"
    BY <2>2, <2>3 DEF AllTasks
  <2>5. CASE xYieldPending
    BY <1>5, <2>1, <2>2, <2>4, <2>5, CurrentSwitched DEF ResumeAllReturn
  <2>6. CASE ~ xYieldPending
    <3>1. pxCurrentTCB' = pxCurrentTCB /\ pc'[pxCurrentTCB] = label
      BY <1>5, <2>2, <2>3, <2>6 DEF ResumeAllReturn
    <3>2. PlaceInv'
      <4>1. Leaving => Leaving'
        BY <2>2, <2>3, <2>6, <3>1 DEF Leaving, SelfSuspending
      <4>2. pc[pxCurrentTCB] # "yield"
        BY <2>2
      <4> QED BY <2>1, <3>1, <4>1, <4>2, PlaceKept DEF CurrentInv
    <3>3. LoopInv'
      BY <2>1, <2>2 DEF LoopInv
    <3>4. NestInv' /\ FirstInv' /\ UntilInv'
      BY <2>1, <2>2, <2>4, NestRunning, UntilKept DEF CurrentInv, FirstInv
    <3> QED BY <3>2, <3>3, <3>4 DEF CurrentInv
  <2> QED BY <2>5, <2>6
<1> QED BY <1>1, <1>2, <1>3, <1>4, <1>5 DEF Masked

(* A step of the current task inside a call.                                *)
LEMMA CurrentContinue ==
  ASSUME IInv, IInv', CurrentInv, NEW t \in AllTasks, Continue(t)
  PROVE  CurrentInv'
<1>1. mode = "task" /\ pxCurrentTCB = t /\ xPendedCounts = 0 /\ xSwitchRequired = FALSE
  <2>1. mode = "task" /\ pxCurrentTCB = t
    BY DEF Continue, xTaskResumeAll, xTaskCatchUpTicks, TaskEntry, vTaskDelay,
           xTaskDelayUntil, vTaskPlaceOnEventList, vPortYield,
           prvAddNewTaskToReadyList, vTaskSuspend, prvDeleteTCB, At
  <2> QED BY <2>1 DEF IInv, SuspendInv, TypeOK, CurrentInv, LoopInv
<1>2. /\ pc \in [AllTasks -> Labels] /\ uxSchedulerSuspended \in Nat
      /\ pxTCB \in [AllTasks -> AllTasks \union {NULL}]
      /\ pc[Idle] \in {"run", "yield", "free", "resumeAll"}
  BY DEF IInv, TypeOK, IdleInv
<1>3. PICK l \in StateLists : CurrentIn(l)
  BY <1>1 DEF CurrentInv, PlaceInv
<1>4. ASSUME NEW label \in Labels, pc' = [pc EXCEPT ![t] = label],
             label # "delayUntil"
      PROVE  /\ pc'[t] = label
             /\ \A x \in AllTasks \ {t} : pc'[x] = pc[x]
             /\ UntilInv'
  <2>1. pc'[t] = label /\ \A x \in AllTasks \ {t} : pc'[x] = pc[x]
    BY <1>2, <1>4
  <2> QED BY <1>4, <2>1, UntilKept DEF CurrentInv, AllTasks
<1>5. ASSUME NEW label \in {"run", "yield", "resumeAll"},
             pc' = [pc EXCEPT ![t] = label], mode' = "task", pxCurrentTCB' = t,
             state' = state, xSwitchRequired' = FALSE,
             Leaving => label = "yield",
             label = "yield" => uxSchedulerSuspended' = 0,
             t = Idle =>
               uxSchedulerSuspended' = IF label = "resumeAll" THEN 1 ELSE 0
      PROVE  CurrentInv'
  <2>1. pc'[t] = label /\ UntilInv'
    BY <1>4, <1>5 DEF Labels
  <2>2. PlaceInv'
    <3>1. Leaving => Leaving'
      BY <1>1, <1>5, <2>1 DEF Leaving
    <3>2. pc[t] = "yield" => label = "yield"
      BY <1>1, <1>5 DEF Leaving
    <3> QED BY <1>1, <1>5, <2>1, <3>1, <3>2, PlaceKept DEF CurrentInv
  <2>3. LoopInv' /\ FirstInv'
    BY <1>1, <1>5, LoopTask DEF CurrentInv, FirstInv
  <2>4. NestInv'
    BY <1>1, <1>5, <2>1 DEF NestInv, SuspendedLabels
  <2> QED BY <2>1, <2>2, <2>3, <2>4 DEF CurrentInv
<1>6. CASE xTaskResumeAll(t)
  <2>1. /\ pc[t] \in {"resumeAll", "delayResume"}
        /\ uxSchedulerSuspended' = uxSchedulerSuspended - 1
        /\ UNCHANGED <<pxCurrentTCB, state, pxTCB, xSwitchRequired>>
    BY <1>6 DEF xTaskResumeAll, At, listVars, argVars
  <2>2. CASE uxSchedulerSuspended = 1
    <3>1. pc' = pc /\ mode' \in {"resume", "resumeTicks"}
      BY <1>6, <2>2 DEF xTaskResumeAll, ResumeMode
    <3>2. PlaceInv'
      BY <1>1, <2>1, <3>1, PlaceKept DEF CurrentInv, Leaving, SelfSuspending
    <3>3. LoopInv' /\ NestInv' /\ FirstInv' /\ UntilInv'
      BY <1>1, <2>1, <3>1 DEF CurrentInv, LoopInv, NestInv, FirstInv, UntilInv
    <3> QED BY <3>2, <3>3 DEF CurrentInv
  <2>3. CASE uxSchedulerSuspended # 1
    <3>1. pc[t] = "resumeAll" /\ t # Idle
      BY <1>1, <2>1, <2>3 DEF CurrentInv, NestInv, SuspendedLabels
    <3>2. pc' = [pc EXCEPT ![t] = "run"] /\ mode' = "task"
      BY <1>1, <1>6, <2>3, <3>1 DEF xTaskResumeAll, Goto
    <3>3. ~ Leaving
      BY <1>1, <3>1 DEF Leaving, SelfSuspending
    <3> QED BY <1>1, <1>5, <2>1, <3>1, <3>2, <3>3
  <2> QED BY <2>2, <2>3
<1>7. CASE xTaskCatchUpTicks(t) \/ TaskEntry(t)
  <2>1. /\ pc[t] \in {"catchUp", "entry"}
        /\ \E label \in {"run", "resumeAll"} : pc' = [pc EXCEPT ![t] = label]
        /\ UNCHANGED <<pxCurrentTCB, state, xSwitchRequired, mode>>
    BY <1>7 DEF xTaskCatchUpTicks, TaskEntry, At, Goto, listVars, schedVars,
                frame, loopVars
  <2>2. t # Idle /\ ~ Leaving
    BY <1>1, <1>2, <2>1 DEF Leaving, SelfSuspending
  <2> QED BY <1>1, <1>5, <2>1, <2>2
<1>8. ASSUME NEW list \in {"delayed", "overflow", "suspended", "ready"},
             Moved(list, t) \/ (list = "ready" /\ state' = state),
             pc' = [pc EXCEPT ![t] = "delayResume"],
             pc[t] \in {"delay", "delayUntil", "block"},
             UNCHANGED <<mode, xSwitchRequired, pxCurrentTCB, uxSchedulerSuspended>>
      PROVE  CurrentInv'
  <2>1. pc'[t] = "delayResume" /\ UntilInv'
    BY <1>4, <1>8 DEF Labels
  <2>2. t \in Items(state'[list])
    <3>1. l = "ready"
      BY <1>1, <1>3, <1>8 DEF CurrentIn, Leaving, SelfSuspending
    <3> QED BY <1>1, <1>3, <1>8, <3>1 DEF CurrentIn, Moved
  <2>3. CurrentIn(list)' /\ list \in StateLists
    BY <1>1, <1>8, <2>1, <2>2 DEF CurrentIn, Leaving, StateLists
  <2>4. LoopInv' /\ FirstInv'
    BY <1>1, <1>8, LoopTask DEF CurrentInv, FirstInv
  <2>5. NestInv'
    BY <1>1, <1>2, <1>8, <2>1 DEF CurrentInv, NestInv, SuspendedLabels
  <2> QED BY <2>1, <2>3, <2>4, <2>5 DEF CurrentInv, PlaceInv
<1>9. ASSUME NEW ticks \in TickType, NEW f \in BOOLEAN,
             prvAddCurrentTaskToDelayedList(ticks, f)
      PROVE  \E list \in {"delayed", "overflow", "suspended"} : Moved(list, t)
  BY <1>1, <1>9, DelayFacts DEF IInv, TypeOK
<1>10. CASE vTaskDelay(t) \/ vTaskPlaceOnEventList(t)
  <2>1. /\ pc' = [pc EXCEPT ![t] = "delayResume"]
        /\ pc[t] \in {"delay", "block"}
        /\ \E f \in BOOLEAN : prvAddCurrentTaskToDelayedList(xTicksToWait[t], f)
        /\ UNCHANGED <<mode, xSwitchRequired, pxCurrentTCB, uxSchedulerSuspended>>
    BY <1>10 DEF vTaskDelay, vTaskPlaceOnEventList, At, Goto, schedVars, frame,
                 loopVars
  <2>2. xTicksToWait[t] \in TickType
    BY DEF IInv, TypeOK
  <2>3. \E list \in {"delayed", "overflow", "suspended"} : Moved(list, t)
    BY <1>9, <2>1, <2>2
  <2> QED BY <1>8, <2>1, <2>3
<1>11. CASE xTaskDelayUntil(t)
  <2>1. /\ pc' = [pc EXCEPT ![t] = "delayResume"]
        /\ pc[t] = "delayUntil"
        /\ UNCHANGED <<mode, xSwitchRequired, pxCurrentTCB, uxSchedulerSuspended>>
    BY <1>11 DEF xTaskDelayUntil, At, Goto, schedVars, loopVars
  <2>2. PICK n, d \in TickType :
          \/ prvAddCurrentTaskToDelayedList(n, FALSE)
          \/ RefreshReadyItem(t, d)
    <3> DEFINE wake == Wrap(pxPreviousWakeTime[t] + Period[t])
    <3>1. t \in Tasks
      BY <1>2, <2>1 DEF AllTasks
    <3>2. /\ pxPreviousWakeTime[t] \in Int /\ Period[t] \in Int
          /\ xTickCount \in Int
      BY <3>1, TickTypeFacts, ConstantsAssumption DEF IInv, TypeOK
    <3>3. wake \in Int
      <4>1. pxPreviousWakeTime[t] + Period[t] \in Int
        BY <3>2
      <4>2. wake \in TickType
        BY <4>1, WrapProperties
      <4> HIDE DEF wake
      <4> QED BY <4>2, TickTypeFacts
    <3>4. /\ Wrap(wake - xTickCount) \in TickType
          /\ Wrap(pxPreviousWakeTime[t] + Period[t] + Period[t]) \in TickType
      BY <3>2, <3>3, WrapProperties
    <3>5. \/ prvAddCurrentTaskToDelayedList(Wrap(wake - xTickCount), FALSE)
          \/ RefreshReadyItem(t, Wrap(pxPreviousWakeTime[t] + Period[t] + Period[t]))
      BY <1>11 DEF xTaskDelayUntil
    <3> QED BY <3>4, <3>5
  <2>3. \/ \E list \in {"delayed", "overflow", "suspended"} : Moved(list, t)
        \/ Moved("ready", t) \/ state' = state
    <3>1. CASE prvAddCurrentTaskToDelayedList(n, FALSE)
      BY <1>9, <3>1
    <3>2. CASE RefreshReadyItem(t, d)
      BY <3>2, InsertStateFacts DEF RefreshReadyItem, IInv, StateLists
    <3> QED BY <2>2, <3>1, <3>2
  <2> QED BY <1>8, <2>1, <2>3
<1>12. CASE vPortYield(t)
  <2>1. /\ pc[t] = "yield" /\ pc' = [pc EXCEPT ![t] = "run"]
        /\ vTaskSwitchContext(state["ready"])
        /\ UNCHANGED <<mode, state, xSwitchRequired, uxSchedulerSuspended>>
    BY <1>12 DEF vPortYield, At, Goto, listVars, frame, loopVars
  <2>2. uxSchedulerSuspended = 0
    BY <1>1, <2>1 DEF CurrentInv, NestInv
  <2>3. \A x \in Tasks : pc'[x] = pc[x] \/ pc'[x] # "delayUntil"
    BY <1>2, <2>1 DEF AllTasks
  <2> QED BY <1>1, <2>1, <2>2, <2>3, CurrentSwitched
<1>13. CASE prvAddNewTaskToReadyList(t) \/ vTaskSuspend(t)
  <2>1. /\ pc[t] \in {"create", "suspend"}
        /\ UNCHANGED <<mode, state, xSwitchRequired, uxSchedulerSuspended, pxCurrentTCB>>
    BY <1>13 DEF prvAddNewTaskToReadyList, vTaskSuspend, At, schedVars,
                 listVars, frame, loopVars
  <2>2. uxSchedulerSuspended = 0 /\ t # Idle
    BY <1>1, <1>2, <2>1 DEF CurrentInv, NestInv
  <2>3. PICK label \in {"run", "yield"} :
          /\ pc' = [pc EXCEPT ![t] = label]
          /\ pc[t] = "suspend" /\ pxTCB[t] = t => label = "yield"
    BY <1>13 DEF prvAddNewTaskToReadyList, vTaskSuspend, Goto, At
  <2>4. Leaving => label = "yield"
    BY <1>1, <2>1, <2>3 DEF Leaving, SelfSuspending
  <2> QED BY <1>1, <1>5, <2>1, <2>2, <2>3, <2>4
<1>14. CASE prvDeleteTCB(t)
  <2>1. /\ pc[t] = "free" /\ pc' = [pc EXCEPT ![t] = "resumeAll"]
        /\ uxSchedulerSuspended' = uxSchedulerSuspended + 1
        /\ UNCHANGED <<mode, state, xSwitchRequired, pxCurrentTCB>>
    BY <1>14 DEF prvDeleteTCB, vTaskSuspendAll, At, Goto, listVars, frame, loopVars
  <2>2. ~ Leaving
    BY <1>1, <2>1 DEF Leaving, SelfSuspending
  <2>3. t = Idle => uxSchedulerSuspended' = 1
    BY <1>1, <1>2, <2>1 DEF CurrentInv, NestInv
  <2> QED BY <1>1, <1>5, <2>1, <2>2, <2>3
<1> QED BY <1>6, <1>7, <1>10, <1>11, <1>12, <1>13, <1>14 DEF Continue

LEMMA CurrentIdle ==
  ASSUME IInv, IInv', CurrentInv, IdleLoop
  PROVE  CurrentInv'
<1>1. /\ mode = "task" /\ pxCurrentTCB = Idle /\ pc[Idle] = "run" /\ Idle \in AllTasks
      /\ mode' = "task" /\ xSwitchRequired' = xSwitchRequired
      /\ UNCHANGED <<pxCurrentTCB, uxSchedulerSuspended>>
  BY DEF IdleLoop, prvCheckTasksWaitingTermination, IdleShouldYield, At,
         AllTasks, schedVars, frame, loopVars
<1>2. pc \in [AllTasks -> Labels] /\ Idle \notin Tasks /\ uxSchedulerSuspended = 0
  BY <1>1, ConstantsAssumption DEF IInv, TypeOK, CurrentInv, NestInv
<1>3. Idle \in Items(state["ready"])
  BY <1>1 DEF IInv, IdleInv
<1>4. Idle \in Items(state'["ready"])
  BY <1>1 DEF IInv, IdleInv
<1>5. \A x \in Tasks : pc'[x] = pc[x] \/ pc'[x] # "delayUntil"
  <2>1. CASE IdleShouldYield
    BY <1>1, <1>2, <2>1 DEF IdleShouldYield, Goto, AllTasks
  <2>2. CASE prvCheckTasksWaitingTermination
    BY <1>1, <1>2, <2>2 DEF prvCheckTasksWaitingTermination, AllTasks
  <2> QED BY <2>1, <2>2 DEF IdleLoop
<1> QED BY <1>1, <1>2, <1>4, <1>5, PlaceReady, NestRunning, LoopTask, UntilKept
     DEF CurrentInv, FirstInv

(* A task makes a call.                                                     *)
LEMMA CurrentCall ==
  ASSUME IInv, IInv', CurrentInv, NEW t \in Tasks, Call(t)
  PROVE  CurrentInv'
<1>1. /\ mode = "task" /\ pxCurrentTCB = t /\ pc[t] = "run" /\ mode' = "task"
      /\ xSwitchRequired' = xSwitchRequired
  BY DEF Call, CallSuspendAll, CallResumeAll, CallCatchUpTicks, CallDelayUntil,
         DeleteSelf, CallDelay, CallWait, CallSignal, CallCreate, CallSuspend,
         vTaskResume, DeleteOther, Calling, At, frame, loopVars
<1>2. /\ pc \in [AllTasks -> Labels] /\ uxSchedulerSuspended \in Nat
      /\ pxTCB \in [AllTasks -> AllTasks \union {NULL}]
      /\ t \in AllTasks /\ t # Idle
  BY ConstantsAssumption DEF IInv, TypeOK, AllTasks
<1>3. t \in Items(state["ready"])
  BY <1>1 DEF CurrentInv, PlaceInv, CurrentIn, Leaving, SelfSuspending
<1>4. LoopInv' /\ FirstInv'
  BY <1>1, LoopTask DEF CurrentInv, FirstInv
<1>5. ASSUME NEW label \in Labels, pc' = [pc EXCEPT ![t] = label],
             label = "delayUntil" => "delayUntil" \in Calls[t],
             t \in Items(state'["ready"]), pxCurrentTCB' = t,
             label \in {"yield", "suspend", "create"} => uxSchedulerSuspended' = 0,
             label \in SuspendedLabels \ {"resumeAll"} => uxSchedulerSuspended' = 1
      PROVE  CurrentInv'
  <2>1. pc'[t] = label /\ \A x \in AllTasks \ {t} : pc'[x] = pc[x]
    BY <1>2, <1>5
  <2>2. UntilInv'
    BY <1>5, <2>1, UntilKept DEF CurrentInv, AllTasks
  <2>3. NestInv'
    BY <1>2, <1>5, <2>1 DEF NestInv
  <2> QED BY <1>4, <1>5, <2>2, <2>3, PlaceReady DEF CurrentInv
<1>6. CASE CallSuspendAll(t) \/ CallResumeAll(t)
  <2>1. /\ UNCHANGED <<state, pxCurrentTCB>>
        /\ \E label \in {"run", "resumeAll"} : pc' = [pc EXCEPT ![t] = label]
    BY <1>1, <1>2, <1>6 DEF CallSuspendAll, CallResumeAll, Goto, listVars, schedVars
  <2> QED BY <1>1, <1>3, <1>5, <2>1 DEF Labels, SuspendedLabels
<1>7. CASE \/ CallCatchUpTicks(t) \/ CallDelayUntil(t)
           \/ \E n \in TickType : \/ CallDelay(t, n)
                                  \/ \E e \in EventObjects : CallWait(t, e, n)
  <2>1. /\ UNCHANGED <<state, pxCurrentTCB>> /\ uxSchedulerSuspended = 0
        /\ CallDelayUntil(t) => "delayUntil" \in Calls[t]
    BY <1>7 DEF CallCatchUpTicks, CallDelayUntil, CallDelay, CallWait, Calling,
                listVars
  <2>2. \/ /\ \E label \in {"catchUp", "delay", "block"} : pc' = [pc EXCEPT ![t] = label]
           /\ uxSchedulerSuspended' = uxSchedulerSuspended + 1
        \/ /\ pc' = [pc EXCEPT ![t] = "delayUntil"] /\ CallDelayUntil(t)
           /\ uxSchedulerSuspended' = uxSchedulerSuspended + 1
        \/ pc' = [pc EXCEPT ![t] = "yield"] /\ uxSchedulerSuspended' = uxSchedulerSuspended
    BY <1>7 DEF CallCatchUpTicks, CallDelayUntil, CallDelay, CallWait, Goto,
                vTaskSuspendAll
  <2> QED BY <1>1, <1>3, <1>5, <2>1, <2>2 DEF Labels, SuspendedLabels
<1>8. CASE DeleteSelf(t)
  <2>1. /\ AppendState("terminating", t) /\ pc' = [pc EXCEPT ![t] = "yield"]
        /\ uxSchedulerSuspended = 0
        /\ UNCHANGED <<pxCurrentTCB, uxSchedulerSuspended>>
    BY <1>8 DEF DeleteSelf, Goto, Calling, schedVars
  <2>2. pc'[t] = "yield" /\ \A x \in AllTasks \ {t} : pc'[x] = pc[x]
    BY <1>2, <2>1
  <2>3. t \in Items(state'["terminating"])
    BY <1>2, <2>1, AppendStateFacts DEF Moved, StateLists, IInv
  <2>4. CurrentIn("terminating")' /\ "terminating" \in StateLists
    BY <1>1, <2>1, <2>2, <2>3 DEF CurrentIn, Leaving, StateLists
  <2>5. NestInv' /\ UntilInv'
    BY <2>1, <2>2, NestRunning, UntilKept DEF CurrentInv, AllTasks
  <2> QED BY <1>4, <2>4, <2>5 DEF CurrentInv, PlaceInv
<1>9. ASSUME NEW x \in AllTasks, vTaskResume(t, x) \/ \E e \in EventObjects :
               x = Head(event[e]) /\ CallSignal(t, e)
      PROVE  CurrentInv'
  <2>1. /\ UNCHANGED <<pc, pxTCB, uxSchedulerSuspended>> /\ uxSchedulerSuspended = 0
        /\ YieldIfEarlier(x, state'["ready"])
    BY <1>9 DEF vTaskResume, CallSignal, Calling, argVars
  <2>2. Moved("ready", x)
    BY <1>9, <2>1, ReadiedFacts
       DEF Readied, vTaskResume, CallSignal, xTaskRemoveFromEventList
  <2>3. CASE vTaskSwitchContext(state'["ready"])
    <3>1. xSwitchRequired' = FALSE
      BY <1>1 DEF CurrentInv, LoopInv, IInv, TypeOK
    <3> QED BY <1>1, <2>1, <2>3, <3>1, CurrentSwitched
  <2>4. CASE UNCHANGED pxCurrentTCB
    <3>1. t \in Items(state'["ready"])
      BY <1>3, <2>2 DEF Moved, StateLists
    <3> QED BY <1>1, <1>4, <2>1, <2>4, <3>1, PlaceReady, NestRunning, UntilKept
         DEF CurrentInv
  <2> QED BY <2>1, <2>3, <2>4 DEF YieldIfEarlier
<1>10. ASSUME NEW x \in Tasks, NEW d \in TickType, CallCreate(t, x, d)
       PROVE  CurrentInv'
  <2>1. /\ x \in AllTasks /\ x # t
    BY <1>3, <1>10, HoldsItems DEF CallCreate, Exists, AllTasks, StateLists
  <2>2. /\ pc' = [pc EXCEPT ![t] = "create", ![x] = EntryLabel(x)]
        /\ uxSchedulerSuspended = 0 /\ InsertState("ready", x, d)
        /\ UNCHANGED <<pxCurrentTCB, uxSchedulerSuspended>>
    BY <1>10 DEF CallCreate, AddNewTask, Calling, schedVars
  <2>3. t \in Items(state'["ready"])
    BY <1>3, <2>1, <2>2, InsertStateFacts DEF Moved, StateLists, IInv
  <2>4. /\ pc'[t] = "create" /\ pc'[x] # "delayUntil"
        /\ \A y \in AllTasks \ {t, x} : pc'[y] = pc[y]
    BY <1>2, <2>1, <2>2 DEF EntryLabel
  <2> QED BY <1>1, <1>4, <2>2, <2>3, <2>4, PlaceReady, NestRunning, UntilKept
       DEF CurrentInv, AllTasks
<1>11. ASSUME NEW x \in Tasks, CallSuspend(t, x)
       PROVE  CurrentInv'
  <2>1. /\ pc' = [pc EXCEPT ![t] = "suspend"] /\ pxTCB' = [pxTCB EXCEPT ![t] = x]
        /\ uxSchedulerSuspended = 0 /\ AppendState("suspended", x) /\ x \in AllTasks
        /\ UNCHANGED <<pxCurrentTCB, uxSchedulerSuspended>>
    BY <1>11 DEF CallSuspend, Goto, Calling, schedVars, AllTasks
  <2>2. /\ pc'[t] = "suspend" /\ pxTCB'[t] = x
        /\ \A y \in AllTasks \ {t} : pc'[y] = pc[y]
    BY <1>2, <2>1
  <2>3. Moved("suspended", x)
    BY <2>1, AppendStateFacts DEF StateLists, IInv
  <2>4. PlaceInv'
    <3>1. CASE x = t
      <4>1. CurrentIn("suspended")' /\ "suspended" \in StateLists
        BY <1>1, <2>1, <2>2, <2>3, <3>1
           DEF CurrentIn, Leaving, SelfSuspending, Moved, StateLists
      <4> QED BY <4>1 DEF PlaceInv
    <3>2. CASE x # t
      BY <1>1, <1>3, <2>1, <2>3, <3>2, PlaceReady DEF Moved, StateLists
    <3> QED BY <3>1, <3>2
  <2> QED BY <1>1, <1>4, <2>1, <2>2, <2>4, NestRunning, UntilKept
       DEF CurrentInv, AllTasks
<1>12. ASSUME NEW x \in Tasks, DeleteOther(t, x)
       PROVE  CurrentInv'
  <2>1. /\ pc' = [pc EXCEPT ![t] = "free", ![x] = "run"] /\ x # t
        /\ uxSchedulerSuspended = 0 /\ state' = DetachedState(x)
        /\ UNCHANGED <<pxCurrentTCB, uxSchedulerSuspended>> /\ x \in AllTasks
    BY <1>12 DEF DeleteOther, Calling, schedVars, AllTasks
  <2>2. /\ pc'[t] = "free" /\ pc'[x] = "run"
        /\ \A y \in AllTasks \ {t, x} : pc'[y] = pc[y]
    BY <1>2, <2>1
  <2>3. t \in Items(state'["ready"])
    BY <1>3, <2>1, DetachedFacts DEF StateLists, IInv
  <2> QED BY <1>1, <1>4, <2>1, <2>2, <2>3, PlaceReady, NestRunning, UntilKept
       DEF CurrentInv, AllTasks
<1>13. ASSUME NEW e \in EventObjects, CallSignal(t, e) PROVE CurrentInv'
  <2>1. Head(event[e]) \in AllTasks
    BY <1>13, SignalFacts DEF CallSignal
  <2> QED BY <1>9, <1>13, <2>1
<1>14. ASSUME NEW x \in Tasks, vTaskResume(t, x) PROVE CurrentInv'
  BY <1>9, <1>14 DEF AllTasks
<1> QED BY <1>6, <1>7, <1>8, <1>10, <1>11, <1>12, <1>13, <1>14 DEF Call

LEMMA CurrentStep ==
  ASSUME IInv, CurrentInv, [Next]_vars
  PROVE  CurrentInv'
<1>1. IInv'
  BY NextInv
<1>2. CASE UNCHANGED vars
  <2>1. UNCHANGED <<mode, pxCurrentTCB, state, pc, pxTCB, uxSchedulerSuspended,
                    xSwitchRequired, xPendedCounts>>
    BY <1>2 DEF vars, frame, loopVars, schedVars, listVars, argVars
  <2> QED BY <2>1 DEF CurrentInv, PlaceInv, CurrentIn, Leaving, SelfSuspending,
                      FirstInv, Exists, Holds, NestInv, LoopInv, UntilInv
<1>3. ASSUME NEW t \in AllTasks, Continue(t) PROVE CurrentInv'
  BY <1>1, <1>3, CurrentContinue
<1>4. ASSUME NEW t \in Tasks, Call(t) PROVE CurrentInv'
  BY <1>1, <1>4, CurrentCall
<1> QED BY <1>1, <1>2, <1>3, <1>4, CurrentMain, CurrentInterrupt, CurrentMasked,
           CurrentIdle DEF Next

LEMMA CurrentHolds == Spec => [](IInv /\ CurrentInv)
<1>1. Init => CurrentInv
  BY ConstantsAssumption
     DEF Init, CurrentInv, PlaceInv, FirstInv, NestInv, LoopInv, UntilInv,
         StateLists, AllTasks, Exists, Holds, Contains
<1> QED BY <1>1, InitInv, NextInv, CurrentStep, PTL DEF Spec

-----------------------------------------------------------------------------
(* The deadline order of the ready list, and the running task at its head.  *)

(* xTaskDelayUntil changes the deadline of a task that may stay ready: the  *)
(* ready list keeps its order when no task makes this call, or when the     *)
(* item is linked anew, as reference/delay.c does.                          *)
OverrunsKeepOrder ==
  RefreshOnOverrun \/ \A t \in Tasks : "delayUntil" \notin Calls[t]

Earliest(t) ==
  /\ t \in Items(state["ready"])
  /\ \A u \in Items(state["ready"]) : xDeadline[t] <= xDeadline[u]

(* The current task has been compared with everything that became ready     *)
(* after it was chosen, but the task it has just created; or a switch is    *)
(* due; or it leaves.                                                       *)
RunInv ==
  mode # "main" =>
    \/ xYieldPending \/ xSwitchRequired \/ Leaving
    \/ \A t \in Items(state["ready"]) :
         \/ pc[pxCurrentTCB] = "create" /\ t = pxTCB[pxCurrentTCB]
         \/ xDeadline[pxCurrentTCB] <= xDeadline[t]

FirstRunInv ==
  mode = "main" /\ pxCurrentTCB # NULL => Earliest(pxCurrentTCB)

EDFInv == ReadyListDeadlineMatches /\ RunInv /\ FirstRunInv

(* What SwitchesToEarliest says of a step.                                  *)
SwitchStep ==
  pxCurrentTCB' # pxCurrentTCB =>
    \/ pxCurrentTCB' = NULL /\ state'["ready"] = <<>>
    \/ Earliest(pxCurrentTCB)'

Scheduled == RunInv' /\ FirstRunInv' /\ SwitchStep

(* A step that changes the deadline and the place of one task at most.      *)
LEMMA MatchesMoved ==
  ASSUME IInv, IInv', ReadyListDeadlineMatches, NEW t \in AllTasks,
         Sorted(state["ready"], stateValue) => Sorted(state'["ready"], stateValue'),
         Items(state'["ready"]) \subseteq Items(state["ready"]) \union {t},
         \A x \in AllTasks \ {t} :
           stateValue'[x] = stateValue[x] /\ xDeadline'[x] = xDeadline[x],
         t \in Items(state'["ready"]) => stateValue'[t] = xDeadline'[t]
  PROVE  ReadyListDeadlineMatches'
<1>1. Items(state'["ready"]) \subseteq AllTasks
  BY ItemsTyped DEF IInv, TypeOK, StateLists
<1> QED BY <1>1 DEF ReadyListDeadlineMatches

LEMMA MatchesReadied ==
  ASSUME IInv, IInv', ReadyListDeadlineMatches, NEW t \in AllTasks, Readied(t),
         xDeadline' = xDeadline
  PROVE  ReadyListDeadlineMatches'
<1>1. /\ Sorted(state["ready"], stateValue) => Sorted(state'["ready"], stateValue')
      /\ Items(state'["ready"]) \subseteq Items(state["ready"]) \union {t}
      /\ stateValue'[t] = xDeadline'[t]
      /\ \A x \in AllTasks \ {t} : stateValue'[x] = stateValue[x]
  BY DEF Readied, Moved, StateLists, IInv, TypeOK
<1> QED BY <1>1, MatchesMoved

LEMMA MatchesKept ==
  ASSUME ReadyListDeadlineMatches, state'["ready"] = state["ready"],
         UNCHANGED <<stateValue, xDeadline>>
  PROVE  ReadyListDeadlineMatches'
BY DEF ReadyListDeadlineMatches

(* A task is taken from the ready list or stays out of it.                  *)
LEMMA MatchesAppended ==
  ASSUME IInv, IInv', ReadyListDeadlineMatches, NEW t \in AllTasks,
         NEW list \in StateLists \ {"ready"},
         AppendState(list, t), xDeadline' = xDeadline
  PROVE  ReadyListDeadlineMatches'
<1>1. /\ Moved(list, t) /\ stateValue' = stateValue
      /\ Sorted(state["ready"], stateValue) => Sorted(state'["ready"], stateValue')
  BY AppendStateFacts DEF IInv, StateLists
<1>2. /\ Items(state'["ready"]) \subseteq Items(state["ready"]) \union {t}
      /\ t \notin Items(state'["ready"])
  BY <1>1 DEF Moved, StateLists
<1> QED BY <1>1, <1>2, MatchesMoved

LEMMA MatchesInserted ==
  ASSUME IInv, IInv', ReadyListDeadlineMatches, NEW t \in AllTasks,
         NEW list \in StateLists, NEW v \in TickType, InsertState(list, t, v),
         \A x \in AllTasks \ {t} : xDeadline'[x] = xDeadline[x],
         list = "ready" => xDeadline'[t] = v
  PROVE  ReadyListDeadlineMatches'
<1>1. /\ Moved(list, t) /\ stateValue' = [stateValue EXCEPT ![t] = v]
      /\ Sorted(state["ready"], stateValue) => Sorted(state'["ready"], stateValue')
  BY InsertStateFacts DEF IInv, StateLists
<1>2. /\ Items(state'["ready"]) \subseteq Items(state["ready"]) \union {t}
      /\ list # "ready" => t \notin Items(state'["ready"])
      /\ stateValue'[t] = v
      /\ \A x \in AllTasks \ {t} : stateValue'[x] = stateValue[x]
  BY <1>1 DEF Moved, StateLists, IInv, TypeOK
<1> QED BY <1>1, <1>2, MatchesMoved

LEMMA MatchesDeleted ==
  ASSUME IInv, IInv', ReadyListDeadlineMatches, NEW t \in AllTasks,
         state' = DetachedState(t), UNCHANGED <<stateValue, xDeadline>>
  PROVE  ReadyListDeadlineMatches'
<1>1. /\ Items(state'["ready"]) = Items(state["ready"]) \ {t}
      /\ Sorted(state["ready"], stateValue) => Sorted(state'["ready"], stateValue')
  BY DetachedFacts DEF IInv, StateLists
<1> QED BY <1>1, MatchesMoved

LEMMA MatchesNewTask ==
  ASSUME IInv, IInv', ReadyListDeadlineMatches, NEW t \in AllTasks,
         NEW d \in TickType, AddNewTask(t, d)
  PROVE  ReadyListDeadlineMatches'
<1>1. /\ InsertState("ready", t, d) /\ xDeadline' = [xDeadline EXCEPT ![t] = d]
      /\ "ready" \in StateLists
  BY DEF AddNewTask, StateLists
<1>2. xDeadline'[t] = d /\ \A x \in AllTasks \ {t} : xDeadline'[x] = xDeadline[x]
  BY <1>1 DEF IInv, TypeOK
<1> QED BY <1>1, <1>2, MatchesInserted

(* The current task blocks, possibly with a new deadline.                   *)
LEMMA MatchesDelayed ==
  ASSUME IInv, IInv', ReadyListDeadlineMatches, pxCurrentTCB \in AllTasks,
         NEW ticks \in TickType, NEW f \in BOOLEAN,
         prvAddCurrentTaskToDelayedList(ticks, f),
         \A x \in AllTasks \ {pxCurrentTCB} : xDeadline'[x] = xDeadline[x]
  PROVE  ReadyListDeadlineMatches'
<1>1. CASE ticks = MaxDelay /\ f
  <2>1. AppendState("suspended", pxCurrentTCB)
    BY <1>1 DEF prvAddCurrentTaskToDelayedList
  <2>2. /\ Moved("suspended", pxCurrentTCB) /\ stateValue' = stateValue
        /\ Sorted(state["ready"], stateValue) => Sorted(state'["ready"], stateValue')
    BY <2>1, AppendStateFacts DEF IInv, StateLists
  <2>3. /\ Items(state'["ready"]) \subseteq Items(state["ready"]) \union {pxCurrentTCB}
        /\ pxCurrentTCB \notin Items(state'["ready"])
    BY <2>2 DEF Moved, StateLists
  <2> QED BY <2>2, <2>3, MatchesMoved
<1>2. CASE ~ (ticks = MaxDelay /\ f)
  <2> DEFINE wake == Wrap(xTickCount + ticks)
  <2>1. InsertState(DelayedListFor(wake), pxCurrentTCB, wake)
    BY <1>2 DEF prvAddCurrentTaskToDelayedList
  <2>2. DelayedListFor(wake) \in StateLists \ {"ready"}
    BY DEF DelayedListFor, StateLists
  <2>3. wake \in TickType
    BY WrapProperties, TickTypeFacts DEF IInv, TypeOK
  <2> HIDE DEF wake
  <2> QED BY <2>1, <2>2, <2>3, MatchesInserted
<1> QED BY <1>1, <1>2

LEMMA MatchesStep ==
  ASSUME IInv, IInv', CurrentInv, OverrunsKeepOrder, ReadyListDeadlineMatches, Next
  PROVE  ReadyListDeadlineMatches'
<1> USE DEF frame, tcbVars, listVars
<1>1. CASE Main
  <2>1. ASSUME NEW t \in Tasks, NEW d \in TickType, MainCreate(t, d)
        PROVE  ReadyListDeadlineMatches'
    BY <2>1, MatchesNewTask DEF MainCreate, AllTasks
  <2>2. ASSUME NEW t \in Tasks, MainSuspend(t) PROVE ReadyListDeadlineMatches'
    BY <2>2, MatchesAppended DEF MainSuspend, AllTasks, StateLists
  <2>3. ASSUME vTaskStartScheduler PROVE ReadyListDeadlineMatches'
    BY <2>3, MatchesNewTask, TickTypeFacts DEF vTaskStartScheduler, AllTasks
  <2> QED BY <1>1, <2>1, <2>2, <2>3 DEF Main
<1>2. CASE Interrupt
  <2>1. ASSUME TickISR PROVE ReadyListDeadlineMatches'
    BY <2>1, TickEffect, MatchesKept DEF TickISR, StateLists
  <2>2. ASSUME TickWhileSuspended PROVE ReadyListDeadlineMatches'
    BY <2>2, MatchesKept DEF TickWhileSuspended
  <2>3. ASSUME NEW t \in Tasks, xTaskResumeFromISR(t)
        PROVE  ReadyListDeadlineMatches'
    BY <2>3, ReadiedFacts, MatchesReadied, MatchesKept
       DEF xTaskResumeFromISR, AllTasks
  <2>4. ASSUME NEW e \in EventObjects, SignalFromISR(e)
        PROVE  ReadyListDeadlineMatches'
    BY <2>4, SignalFacts, MatchesReadied, MatchesKept DEF SignalFromISR
  <2> QED BY <1>2, <2>1, <2>2, <2>3, <2>4 DEF Interrupt
<1>3. CASE Masked
  <2>1. ASSUME UnblockTask PROVE ReadyListDeadlineMatches'
    <3>1. Head(state["delayed"]) \in AllTasks
      BY <2>1, NonemptyHead DEF UnblockTask, IInv, TypeOK, StateLists
    <3> QED BY <2>1, <3>1, ReadiedFacts, MatchesReadied DEF UnblockTask
  <2>2. ASSUME ResumePendingTask PROVE ReadyListDeadlineMatches'
    <3>1. event["pendingReady"] \in Seq(AllTasks) /\ event["pendingReady"] # <<>>
      BY <2>2 DEF ResumePendingTask, IInv, TypeOK, SuspendInv, EventLists
    <3>2. Head(event["pendingReady"]) \in AllTasks
      BY <3>1, NonemptyHead
    <3> QED BY <2>2, <3>2, ReadiedFacts, MatchesReadied DEF ResumePendingTask
  <2>3. ASSUME UnblockDone \/ TickReturn \/ ResumeAllReturn
        PROVE  ReadyListDeadlineMatches'
    BY <2>3, MatchesKept DEF UnblockDone, TickReturn, ResumeAllReturn
  <2>4. ASSUME ResumePendedTick PROVE ReadyListDeadlineMatches'
    BY <2>4, TickEffect, MatchesKept DEF ResumePendedTick, StateLists
  <2> QED BY <1>3, <2>1, <2>2, <2>3, <2>4 DEF Masked
<1>4. CASE IdleLoop
  BY <1>4, MatchesDeleted, MatchesKept
     DEF IdleLoop, prvCheckTasksWaitingTermination, IdleShouldYield, AllTasks
<1>5. ASSUME NEW t \in AllTasks, Continue(t) PROVE ReadyListDeadlineMatches'
  <2>1. CASE \/ xTaskResumeAll(t) \/ xTaskCatchUpTicks(t) \/ TaskEntry(t)
             \/ vPortYield(t) \/ prvAddNewTaskToReadyList(t) \/ vTaskSuspend(t)
             \/ prvDeleteTCB(t)
    BY <2>1, MatchesKept
       DEF xTaskResumeAll, xTaskCatchUpTicks, TaskEntry, vPortYield,
           prvAddNewTaskToReadyList, vTaskSuspend, prvDeleteTCB
  <2>2. CASE vTaskDelay(t) \/ vTaskPlaceOnEventList(t)
    <3>1. /\ \E f \in BOOLEAN : prvAddCurrentTaskToDelayedList(xTicksToWait[t], f)
          /\ xDeadline' = xDeadline /\ pxCurrentTCB \in AllTasks
          /\ xTicksToWait[t] \in TickType
      BY <2>2 DEF vTaskDelay, vTaskPlaceOnEventList, At, IInv, TypeOK
    <3> QED BY <3>1, MatchesDelayed
  <2>3. CASE xTaskDelayUntil(t)
    <3> DEFINE prev     == pxPreviousWakeTime[t]
               wake     == Wrap(prev + Period[t])
               deadline == Wrap(prev + Period[t] + Period[t])
               ticks    == Wrap(wake - xTickCount)
    <3>1. /\ pxCurrentTCB = t /\ xDeadline' = [xDeadline EXCEPT ![t] = deadline]
          /\ t \in Tasks
      BY <2>3 DEF xTaskDelayUntil, At, IInv, IdleInv, AllTasks
    <3>2. deadline \in TickType /\ ticks \in TickType
      <4>1. prev \in Int /\ Period[t] \in Int /\ xTickCount \in Int
        BY <3>1, TickTypeFacts, ConstantsAssumption DEF IInv, TypeOK
      <4>2. prev + Period[t] \in Int /\ prev + Period[t] + Period[t] \in Int
        BY <4>1
      <4>3. wake \in Int
        BY <4>2, WrapProperties, TickTypeFacts
      <4>4. wake - xTickCount \in Int
        BY <4>1, <4>3
      <4> QED BY <4>2, <4>4, WrapProperties
    <3>3. RefreshOnOverrun
      BY <2>3, <3>1 DEF OverrunsKeepOrder, xTaskDelayUntil, At, CurrentInv, UntilInv
    <3>4. \/ prvAddCurrentTaskToDelayedList(ticks, FALSE)
          \/ InsertState("ready", t, deadline)
      BY <2>3, <3>3 DEF xTaskDelayUntil, RefreshReadyItem
    <3> HIDE DEF deadline, ticks
    <3>5. /\ xDeadline'[t] = deadline
          /\ \A x \in AllTasks \ {t} : xDeadline'[x] = xDeadline[x]
      BY <3>1 DEF IInv, TypeOK
    <3> QED BY <3>1, <3>2, <3>4, <3>5, MatchesDelayed, MatchesInserted DEF StateLists
  <2> QED BY <1>5, <2>1, <2>2, <2>3 DEF Continue
<1>6. ASSUME NEW t \in Tasks, Call(t) PROVE ReadyListDeadlineMatches'
  <2>1. CASE \/ CallSuspendAll(t) \/ CallResumeAll(t) \/ CallCatchUpTicks(t)
             \/ CallDelayUntil(t)
             \/ \E n \in TickType : \/ CallDelay(t, n)
                                    \/ \E e \in EventObjects : CallWait(t, e, n)
    BY <2>1, MatchesKept
       DEF CallSuspendAll, CallResumeAll, CallCatchUpTicks, CallDelayUntil,
           CallDelay, CallWait
  <2>2. CASE DeleteSelf(t)
    BY <2>2, MatchesAppended DEF DeleteSelf, AllTasks, StateLists
  <2>3. ASSUME NEW e \in EventObjects, CallSignal(t, e)
        PROVE  ReadyListDeadlineMatches'
    BY <2>3, SignalFacts, MatchesReadied, MatchesKept DEF CallSignal
  <2>4. ASSUME NEW x \in Tasks, NEW d \in TickType, CallCreate(t, x, d)
        PROVE  ReadyListDeadlineMatches'
    BY <2>4, MatchesNewTask DEF CallCreate, AllTasks
  <2>5. ASSUME NEW x \in Tasks, CallSuspend(t, x) PROVE ReadyListDeadlineMatches'
    BY <2>5, MatchesAppended DEF CallSuspend, AllTasks, StateLists
  <2>6. ASSUME NEW x \in Tasks, vTaskResume(t, x) PROVE ReadyListDeadlineMatches'
    BY <2>6, ReadiedFacts, MatchesReadied DEF vTaskResume, AllTasks
  <2>7. ASSUME NEW x \in Tasks, DeleteOther(t, x) PROVE ReadyListDeadlineMatches'
    BY <2>7, MatchesDeleted DEF DeleteOther, AllTasks
  <2> QED BY <1>6, <2>1, <2>2, <2>3, <2>4, <2>5, <2>6, <2>7 DEF Call
<1> QED BY <1>1, <1>2, <1>3, <1>4, <1>5, <1>6 DEF Next

LEMMA DeadlinesAreIntegers ==
  ASSUME IInv
  PROVE  /\ \A t \in AllTasks : xDeadline[t] \in Int
         /\ Items(state["ready"]) \subseteq AllTasks
BY TickTypeFacts, ItemsTyped DEF IInv, TypeOK, StateLists

(* The head of the ready list has the earliest deadline.                    *)
LEMMA SwitchToEarliest ==
  ASSUME IInv', ReadyListDeadlineMatches', mode' # "main",
         uxSchedulerSuspended = 0, vTaskSwitchContext(state'["ready"])
  PROVE  Scheduled
<1>1. state'["ready"] \in Seq(AllTasks) /\ Items(state'["ready"]) # {}
  BY DEF IInv, TypeOK, IdleInv, StateLists
<1>2. stateValue' \in [AllTasks -> Int]
  BY TickTypeFacts DEF IInv, TypeOK
<1>3. state'["ready"] # <<>>
  BY <1>1, NonemptyHead
<1>4. pxCurrentTCB' = Head(state'["ready"]) /\ pxCurrentTCB' \in Items(state'["ready"])
  BY SwitchTakesHead
<1>5. \A u \in Items(state'["ready"]) : stateValue'[pxCurrentTCB'] <= stateValue'[u]
  BY <1>1, <1>2, <1>3, <1>4, HeadIsMinimum DEF ReadyListDeadlineMatches
<1>6. \A u \in Items(state'["ready"]) : xDeadline'[pxCurrentTCB'] <= xDeadline'[u]
  BY <1>4, <1>5 DEF ReadyListDeadlineMatches
<1> QED BY <1>4, <1>6 DEF Scheduled, RunInv, FirstRunInv, SwitchStep, Earliest

LEMMA ScheduledStays ==
  ASSUME RunInv', mode' # "main", pxCurrentTCB' = pxCurrentTCB
  PROVE  Scheduled
BY DEF Scheduled, FirstRunInv, SwitchStep

(* Another task became ready and was compared with the current one.         *)
LEMMA RunCompared ==
  ASSUME IInv, RunInv, mode # "main", mode' # "main",
         UNCHANGED <<pxCurrentTCB, pc, pxTCB, xDeadline>>,
         xYieldPending => xYieldPending',
         xSwitchRequired => xSwitchRequired' \/ xYieldPending',
         NEW x \in AllTasks,
         Items(state'["ready"]) \subseteq Items(state["ready"]) \union {x},
         xYieldPending' \/ xSwitchRequired' \/ ~ Earlier(x, pxCurrentTCB)
  PROVE  Scheduled
<1>1. pxCurrentTCB \in AllTasks
  BY DEF IInv, TypeOK, IdleInv
<1>2. CASE xYieldPending' \/ xSwitchRequired' \/ Leaving
  BY <1>2, ScheduledStays DEF RunInv, Leaving, SelfSuspending
<1>3. CASE ~ (xYieldPending' \/ xSwitchRequired' \/ Leaving)
  <2>1. xDeadline[pxCurrentTCB] <= xDeadline[x]
    BY <1>1, <1>3, DeadlinesAreIntegers DEF Earlier
  <2> QED BY <1>3, <2>1, ScheduledStays DEF RunInv
<1> QED BY <1>2, <1>3

(* Nothing became ready.                                                    *)
LEMMA RunKept ==
  ASSUME IInv, RunInv, mode # "main", mode' # "main",
         UNCHANGED <<pxCurrentTCB, xDeadline>>,
         xYieldPending => xYieldPending',
         xSwitchRequired => xSwitchRequired' \/ xYieldPending',
         Leaving => Leaving' \/ xYieldPending',
         Items(state'["ready"]) \subseteq Items(state["ready"]),
         \/ pc[pxCurrentTCB] # "create" \/ Leaving'
         \/ /\ pc'[pxCurrentTCB] = "create"
            /\ pxTCB'[pxCurrentTCB] = pxTCB[pxCurrentTCB]
         \/ /\ pxTCB[pxCurrentTCB] \in Items(state'["ready"]) =>
                 ~ Earlier(pxTCB[pxCurrentTCB], pxCurrentTCB)
  PROVE  Scheduled
<1>1. pxCurrentTCB \in AllTasks
  BY DEF IInv, TypeOK, IdleInv
<1>2. CASE xYieldPending' \/ xSwitchRequired' \/ Leaving'
  BY <1>2, ScheduledStays DEF RunInv
<1>3. CASE ~ (xYieldPending' \/ xSwitchRequired' \/ Leaving')
  <2>1. \A t \in Items(state["ready"]) :
          \/ pc[pxCurrentTCB] = "create" /\ t = pxTCB[pxCurrentTCB]
          \/ xDeadline[pxCurrentTCB] <= xDeadline[t]
    BY <1>3 DEF RunInv
  <2>2. \A t \in Items(state'["ready"]) :
          ~ Earlier(t, pxCurrentTCB) => xDeadline[pxCurrentTCB] <= xDeadline[t]
    BY <1>1, DeadlinesAreIntegers DEF Earlier
  <2> QED BY <1>3, <2>1, <2>2, ScheduledStays DEF RunInv
<1> QED BY <1>2, <1>3

LEMMA ScheduledMain ==
  ASSUME IInv, IInv', CurrentInv, CurrentInv', EDFInv, ReadyListDeadlineMatches', Main
  PROVE  Scheduled
<1>1. /\ mode = "main" /\ uxSchedulerSuspended = 0
      /\ pxCurrentTCB # NULL => Earliest(pxCurrentTCB)
      /\ pxCurrentTCB = NULL => Items(state["ready"]) = {}
      /\ ~ Exists(Idle)
  <2>1. mode = "main"
    BY DEF Main, MainCreate, MainSuspend, vTaskStartScheduler
  <2>2. uxSchedulerSuspended = 0 /\ ~ Exists(Idle)
        /\ (pxCurrentTCB = NULL => state["ready"] = <<>>)
    BY <2>1 DEF IInv, MainInv, CurrentInv, FirstInv
  <2>3. Items(<<>>) = {}
    BY DEF Items
  <2> QED BY <2>1, <2>2, <2>3 DEF EDFInv, FirstRunInv
<1>2. ASSUME NEW t \in AllTasks, NEW d \in TickType, AddNewTask(t, d), ~ Exists(t),
             PickFirst(t, d)
      PROVE  Earliest(pxCurrentTCB)'
  <2>1. /\ Items(state'["ready"]) = Items(state["ready"]) \union {t}
        /\ xDeadline' = [xDeadline EXCEPT ![t] = d]
    BY <1>2, InsertStateFacts DEF AddNewTask, Moved, StateLists, IInv
  <2>2. t \notin Items(state["ready"])
    BY <1>2, HoldsItems DEF Exists, StateLists
  <2>3. /\ xDeadline'[t] = d /\ d \in Int /\ t # NULL
        /\ \A x \in AllTasks \ {t} : xDeadline'[x] = xDeadline[x]
    BY <2>1, TickTypeFacts, ConstantsAssumption DEF IInv, TypeOK
  <2>4. CASE pxCurrentTCB = NULL
    BY <1>1, <1>2, <2>1, <2>3, <2>4 DEF PickFirst, Earliest
  <2>5. CASE pxCurrentTCB # NULL
    <3>1. /\ pxCurrentTCB \in Items(state["ready"])
          /\ \A u \in Items(state["ready"]) : xDeadline[pxCurrentTCB] <= xDeadline[u]
      BY <1>1, <2>5 DEF Earliest
    <3>2. \A u \in Items(state["ready"]) :
            u \in AllTasks \ {t} /\ xDeadline[u] \in Int
      BY <2>2, DeadlinesAreIntegers
    <3>3. CASE xDeadline[pxCurrentTCB] >= d
      <4>1. pxCurrentTCB' = t
        BY <1>2, <3>3 DEF PickFirst
      <4>2. \A u \in Items(state["ready"]) : d <= xDeadline[u]
        BY <2>3, <3>1, <3>2, <3>3
      <4> QED BY <2>1, <2>3, <3>2, <4>1, <4>2 DEF Earliest
    <3>4. CASE ~ (xDeadline[pxCurrentTCB] >= d)
      <4>1. pxCurrentTCB' = pxCurrentTCB
        BY <1>2, <2>5, <3>4 DEF PickFirst
      <4>2. xDeadline[pxCurrentTCB] <= d
        BY <2>3, <3>1, <3>2, <3>4
      <4> QED BY <2>1, <2>3, <3>1, <3>2, <4>1, <4>2 DEF Earliest
    <3> QED BY <3>3, <3>4
  <2> QED BY <2>4, <2>5
<1>3. ASSUME NEW t \in Tasks, NEW d \in TickType, MainCreate(t, d)
      PROVE  Scheduled
  <2>1. Earliest(pxCurrentTCB)' /\ mode' = "main"
    BY <1>1, <1>2, <1>3 DEF MainCreate, AllTasks
  <2> QED BY <2>1 DEF Scheduled, RunInv, FirstRunInv, SwitchStep
<1>4. ASSUME NEW t \in Tasks, MainSuspend(t)
      PROVE  Scheduled
  <2>1. /\ mode' = "main" /\ xDeadline' = xDeadline
        /\ AppendState("suspended", t) /\ t \in AllTasks
    BY <1>1, <1>4 DEF MainSuspend, frame, tcbVars, AllTasks
  <2>2. Items(state'["ready"]) = Items(state["ready"]) \ {t}
    BY <2>1, AppendStateFacts DEF Moved, StateLists, IInv
  <2>3. CASE pxCurrentTCB' = pxCurrentTCB
    BY <1>1, <2>1, <2>2, <2>3
       DEF Scheduled, RunInv, FirstRunInv, SwitchStep, Earliest, CurrentInv, FirstInv
  <2>4. CASE pxCurrentTCB' = NULL
    BY <2>1, <2>4
       DEF Scheduled, RunInv, FirstRunInv, SwitchStep, CurrentInv, FirstInv
  <2>5. CASE pxCurrentTCB' # pxCurrentTCB /\ pxCurrentTCB' # NULL
    <3>1. pxCurrentTCB' = Head(state'["ready"])
      BY <1>1, <1>4, <2>5 DEF MainSuspend, vTaskSwitchContext
    <3>2. pxCurrentTCB' \in Items(state'["ready"])
      BY <2>1, <2>5 DEF CurrentInv, FirstInv
    <3>3. state'["ready"] \in Seq(AllTasks) /\ stateValue' \in [AllTasks -> Int]
      BY TickTypeFacts DEF IInv, TypeOK, StateLists
    <3>4. state'["ready"] # <<>>
      BY <3>2, <3>3, NonemptyHead
    <3>5. \A u \in Items(state'["ready"]) : stateValue'[pxCurrentTCB'] <= stateValue'[u]
      BY <3>1, <3>3, <3>4, HeadIsMinimum DEF ReadyListDeadlineMatches
    <3>6. Earliest(pxCurrentTCB)'
      BY <3>2, <3>5 DEF Earliest, ReadyListDeadlineMatches
    <3> QED BY <2>1, <3>6 DEF Scheduled, RunInv, FirstRunInv, SwitchStep
  <2> QED BY <2>3, <2>4, <2>5
<1>5. ASSUME vTaskStartScheduler
      PROVE  Scheduled
  <2>1. /\ AddNewTask(Idle, MaxDelay) /\ PickFirst(Idle, MaxDelay) /\ mode' = "task"
        /\ Idle \in AllTasks
    BY <1>5 DEF vTaskStartScheduler, AllTasks
  <2>2. Earliest(pxCurrentTCB)'
    BY <1>1, <1>2, <2>1, TickTypeFacts
  <2> QED BY <2>1, <2>2 DEF Scheduled, RunInv, FirstRunInv, SwitchStep, Earliest
<1> QED BY <1>3, <1>4, <1>5 DEF Main

LEMMA ScheduledTick ==
  ASSUME IInv, CurrentInv, EDFInv, xTaskIncrementTick, mode # "main",
         mode \notin {"tick", "tickDone"}
  PROVE  Scheduled
<1>1. mode' # "main" /\ state'["ready"] = state["ready"] /\ ~ xSwitchRequired
  BY TickEffect DEF StateLists, CurrentInv, LoopInv
<1>2. Leaving' = Leaving
  BY TickEffect DEF Leaving, SelfSuspending
<1> QED BY <1>1, <1>2, TickEffect, RunKept DEF EDFInv

LEMMA ScheduledInterrupt ==
  ASSUME IInv, CurrentInv, EDFInv, Interrupt
  PROVE  Scheduled
<1> USE DEF frame, tcbVars, loopVars, schedVars, argVars
<1>1. CASE TickISR
  BY <1>1, ScheduledTick DEF TickISR
<1>2. CASE TickWhileSuspended
  <2>1. /\ mode = "task" /\ mode' = "task"
        /\ UNCHANGED <<pc, pxTCB, pxCurrentTCB, xDeadline, state, xYieldPending,
                       xSwitchRequired>>
    BY <1>2 DEF TickWhileSuspended, listVars
  <2>2. Leaving' = Leaving
    BY <2>1 DEF Leaving, SelfSuspending
  <2> QED BY <2>1, <2>2, RunKept DEF EDFInv
<1>3. ASSUME NEW t \in Tasks, xTaskResumeFromISR(t) PROVE Scheduled
  <2>1. /\ mode = "task" /\ mode' = "task" /\ t \in AllTasks
        /\ UNCHANGED <<pc, pxTCB, pxCurrentTCB, xDeadline, xSwitchRequired>>
    BY <1>3 DEF xTaskResumeFromISR, AllTasks
  <2>2. CASE uxSchedulerSuspended = 0
    <3>1. /\ Items(state'["ready"]) \subseteq Items(state["ready"]) \union {t}
          /\ xYieldPending' = (xYieldPending \/ Earlier(t, pxCurrentTCB))
      BY <1>3, <2>1, <2>2, ReadiedFacts DEF xTaskResumeFromISR, Readied, Moved
    <3> QED BY <2>1, <3>1, RunCompared DEF EDFInv
  <2>3. CASE uxSchedulerSuspended # 0
    <3>1. UNCHANGED <<state, xYieldPending>>
      BY <1>3, <2>3 DEF xTaskResumeFromISR
    <3>2. Leaving' = Leaving
      BY <2>1 DEF Leaving, SelfSuspending
    <3> QED BY <2>1, <3>1, <3>2, RunKept DEF EDFInv
  <2> QED BY <2>2, <2>3
<1>4. ASSUME NEW e \in EventObjects, SignalFromISR(e) PROVE Scheduled
  <2> DEFINE t == Head(event[e])
  <2>1. /\ mode = "task" /\ mode' = "task" /\ t \in AllTasks
        /\ UNCHANGED <<pc, pxTCB, pxCurrentTCB, xDeadline, xSwitchRequired>>
        /\ xYieldPending' = (xYieldPending \/ Earlier(t, pxCurrentTCB))
    BY <1>4, SignalFacts DEF SignalFromISR
  <2>2. Items(state'["ready"]) \subseteq Items(state["ready"]) \union {t}
    BY <1>4, SignalFacts DEF SignalFromISR, Readied, Moved
  <2> HIDE DEF t
  <2> QED BY <2>1, <2>2, RunCompared DEF EDFInv
<1> QED BY <1>1, <1>2, <1>3, <1>4 DEF Interrupt

LEMMA ScheduledMasked ==
  ASSUME IInv, IInv', CurrentInv, EDFInv, ReadyListDeadlineMatches', Masked
  PROVE  Scheduled
<1> USE DEF frame, tcbVars, loopVars, schedVars, argVars
<1>1. ASSUME UnblockTask PROVE Scheduled
  <2> DEFINE t == Head(state["delayed"])
  <2>1. t \in AllTasks
    BY <1>1, NonemptyHead DEF UnblockTask, IInv, TypeOK, StateLists
  <2>2. /\ prvAddTaskToReadyList(t) /\ mode = "tick" /\ mode' = mode
        /\ xSwitchRequired' = (xSwitchRequired \/ Earlier(t, pxCurrentTCB))
        /\ UNCHANGED <<pc, pxTCB, pxCurrentTCB, xDeadline, xYieldPending>>
    BY <1>1 DEF UnblockTask
  <2> HIDE DEF t
  <2>3. Items(state'["ready"]) \subseteq Items(state["ready"]) \union {t}
    BY <2>1, <2>2, ReadiedFacts DEF Readied, Moved
  <2> QED BY <2>1, <2>2, <2>3, RunCompared DEF EDFInv
<1>2. ASSUME UnblockDone PROVE Scheduled
  <2>1. /\ mode = "tick" /\ mode' = "tickDone"
        /\ UNCHANGED <<pc, pxTCB, pxCurrentTCB, xDeadline, state, xYieldPending,
                       xSwitchRequired>>
    BY <1>2 DEF UnblockDone, listVars
  <2>2. Leaving' = Leaving
    BY <2>1 DEF Leaving, SelfSuspending
  <2> QED BY <2>1, <2>2, RunKept DEF EDFInv
<1>3. ASSUME TickReturn PROVE Scheduled
  <2>1. /\ mode = "tickDone" /\ mode' # "main" /\ uxSchedulerSuspended = 0
        /\ UNCHANGED <<pc, pxTCB, xDeadline, state>>
    BY <1>3 DEF TickReturn, listVars, IInv, SuspendInv
  <2>2. CASE xPendedCounts = 0 /\ SwitchDue
    BY <1>3, <2>1, <2>2, SwitchToEarliest DEF TickReturn
  <2>3. CASE ~ (xPendedCounts = 0 /\ SwitchDue)
    <3>1. /\ pxCurrentTCB' = pxCurrentTCB
          /\ (xYieldPending => xYieldPending') /\ (xSwitchRequired => xYieldPending')
      BY <1>3, <2>3 DEF TickReturn, SwitchDue
    <3>2. Leaving' = Leaving
      BY <2>1, <3>1 DEF Leaving, SelfSuspending
    <3> QED BY <2>1, <3>1, <3>2, RunKept DEF EDFInv
  <2> QED BY <2>2, <2>3
<1>4. ASSUME ResumePendingTask PROVE Scheduled
  <2> DEFINE t == Head(event["pendingReady"])
  <2>1. t \in AllTasks
    <3>1. event["pendingReady"] \in Seq(AllTasks) /\ event["pendingReady"] # <<>>
      BY <1>4 DEF ResumePendingTask, IInv, TypeOK, SuspendInv, EventLists
    <3> QED BY <3>1, NonemptyHead
  <2>2. /\ prvAddTaskToReadyList(t) /\ mode = "resume" /\ mode' # "main"
        /\ xYieldPending' = (xYieldPending \/ Earlier(t, pxCurrentTCB))
        /\ UNCHANGED <<pc, pxTCB, pxCurrentTCB, xDeadline, xSwitchRequired>>
    BY <1>4 DEF ResumePendingTask
  <2> HIDE DEF t
  <2>3. Items(state'["ready"]) \subseteq Items(state["ready"]) \union {t}
    BY <2>1, <2>2, ReadiedFacts DEF Readied, Moved
  <2> QED BY <2>1, <2>2, <2>3, RunCompared DEF EDFInv
<1>5. ASSUME ResumePendedTick PROVE Scheduled
  BY <1>5, ScheduledTick DEF ResumePendedTick
<1>6. ASSUME ResumeAllReturn PROVE Scheduled
  <2>1. /\ mode = "resumeTicks" /\ mode' = "task" /\ uxSchedulerSuspended = 0
        /\ UNCHANGED <<xDeadline, state, xSwitchRequired>>
    BY <1>6 DEF ResumeAllReturn, TicksCaughtUp, listVars, IInv, SuspendInv
  <2>2. CASE xYieldPending
    BY <1>6, <2>1, <2>2, SwitchToEarliest DEF ResumeAllReturn
  <2>3. CASE ~ xYieldPending
    <3>1. /\ pxCurrentTCB' = pxCurrentTCB /\ pxCurrentTCB \in AllTasks
          /\ pc[pxCurrentTCB] = "delayResume" => pc'[pxCurrentTCB] = "yield"
          /\ pc[pxCurrentTCB] \in {"resumeAll", "delayResume"}
      BY <1>6, <2>1, <2>3
         DEF ResumeAllReturn, Goto, IInv, TypeOK, IdleInv, CurrentInv, LoopInv
    <3>2. Leaving => Leaving'
      BY <3>1 DEF Leaving, SelfSuspending
    <3> QED BY <2>1, <2>3, <3>1, <3>2, RunKept DEF EDFInv
  <2> QED BY <2>2, <2>3
<1> QED BY <1>1, <1>2, <1>3, <1>4, <1>5, <1>6 DEF Masked

LEMMA ScheduledContinue ==
  ASSUME IInv, IInv', CurrentInv, CurrentInv', EDFInv, ReadyListDeadlineMatches',
         NEW t \in AllTasks, Continue(t)
  PROVE  Scheduled
<1> USE DEF frame, tcbVars, loopVars, schedVars
<1>1. mode = "task" /\ pxCurrentTCB = t /\ mode' # "main" /\ ~ xSwitchRequired
  <2>1. mode = "task" /\ pxCurrentTCB = t
    BY DEF Continue, xTaskResumeAll, xTaskCatchUpTicks, TaskEntry, vTaskDelay,
           xTaskDelayUntil, vTaskPlaceOnEventList, vPortYield,
           prvAddNewTaskToReadyList, vTaskSuspend, prvDeleteTCB, At
  <2>2. mode' \in {mode, ResumeMode}
    BY DEF Continue, xTaskResumeAll, xTaskCatchUpTicks, TaskEntry, vTaskDelay,
           xTaskDelayUntil, vTaskPlaceOnEventList, vPortYield,
           prvAddNewTaskToReadyList, vTaskSuspend, prvDeleteTCB
  <2> QED BY <2>1, <2>2 DEF CurrentInv, LoopInv, ResumeMode
<1>2. pc \in [AllTasks -> Labels]
  BY DEF IInv, TypeOK
<1>3. CASE xTaskResumeAll(t)
  <2>1. /\ UNCHANGED <<pxCurrentTCB, xDeadline, state, pxTCB, xYieldPending>>
        /\ pc[t] \in {"resumeAll", "delayResume"}
        /\ pc[t] = "delayResume" => pc'[t] \in {"delayResume", "yield"}
    BY <1>2, <1>3 DEF xTaskResumeAll, At, Goto, listVars, argVars
  <2>2. Leaving => Leaving'
    BY <1>1, <2>1 DEF Leaving, SelfSuspending
  <2> QED BY <1>1, <2>1, <2>2, RunKept DEF EDFInv
<1>4. CASE xTaskCatchUpTicks(t) \/ TaskEntry(t) \/ prvDeleteTCB(t)
  <2>1. /\ UNCHANGED <<pxCurrentTCB, xDeadline, state, xYieldPending>>
        /\ pc[t] \in {"catchUp", "entry", "free"}
    BY <1>4 DEF xTaskCatchUpTicks, TaskEntry, prvDeleteTCB, At, listVars
  <2>2. ~ Leaving
    BY <1>1, <2>1 DEF Leaving, SelfSuspending
  <2> QED BY <1>1, <2>1, <2>2, RunKept DEF EDFInv
<1>5. CASE vTaskDelay(t) \/ xTaskDelayUntil(t) \/ vTaskPlaceOnEventList(t)
  <2>1. pc'[t] = "delayResume" /\ pxCurrentTCB' = pxCurrentTCB
    BY <1>2, <1>5 DEF vTaskDelay, xTaskDelayUntil, vTaskPlaceOnEventList, Goto
  <2> QED BY <1>1, <2>1, ScheduledStays DEF RunInv, Leaving
<1>6. CASE vPortYield(t)
  <2>1. vTaskSwitchContext(state'["ready"]) /\ uxSchedulerSuspended = 0
    BY <1>1, <1>6 DEF vPortYield, At, listVars, CurrentInv, NestInv
  <2> QED BY <1>1, <2>1, SwitchToEarliest
<1>7. CASE prvAddNewTaskToReadyList(t)
  <2>1. /\ UNCHANGED <<pxCurrentTCB, xDeadline, state, xYieldPending>>
        /\ pc[t] = "create"
    BY <1>7 DEF prvAddNewTaskToReadyList, At, listVars
  <2>2. PICK earlier \in BOOLEAN :
          /\ Exists(pxTCB[t]) => earlier = Earlier(pxTCB[t], t)
          /\ pc' = [pc EXCEPT ![t] = IF earlier THEN "yield" ELSE "run"]
    BY <1>7 DEF prvAddNewTaskToReadyList, Goto
  <2>3. ~ Leaving
    BY <1>1, <2>1 DEF Leaving, SelfSuspending
  <2>4. CASE earlier
    <3>1. Leaving'
      BY <1>1, <1>2, <2>1, <2>2, <2>4 DEF Leaving
    <3> QED BY <1>1, <2>1, <3>1, ScheduledStays DEF RunInv
  <2>5. CASE ~ earlier
    <3>1. pxTCB[t] \in Items(state'["ready"]) => ~ Earlier(pxTCB[t], t)
      BY <2>1, <2>2, <2>5, HoldsItems DEF Exists, StateLists
    <3> QED BY <1>1, <2>1, <2>3, <3>1, RunKept DEF EDFInv
  <2> QED BY <2>4, <2>5
<1>8. CASE vTaskSuspend(t)
  <2>1. /\ UNCHANGED <<pxCurrentTCB, xDeadline, state, xYieldPending>>
        /\ pc[t] = "suspend" /\ (pxTCB[t] = t => pc'[t] = "yield")
    BY <1>2, <1>8 DEF vTaskSuspend, At, Goto, listVars
  <2>2. Leaving => Leaving'
    BY <1>1, <2>1 DEF Leaving, SelfSuspending
  <2> QED BY <1>1, <2>1, <2>2, RunKept DEF EDFInv
<1> QED BY <1>3, <1>4, <1>5, <1>6, <1>7, <1>8 DEF Continue

LEMMA ScheduledIdle ==
  ASSUME IInv, CurrentInv, EDFInv, IdleLoop
  PROVE  Scheduled
<1> USE DEF frame, tcbVars, loopVars, schedVars
<1>1. /\ mode = "task" /\ mode' = "task" /\ pxCurrentTCB = Idle /\ pc[Idle] = "run"
      /\ UNCHANGED <<pxCurrentTCB, xDeadline, xYieldPending, xSwitchRequired>>
  BY DEF IdleLoop, prvCheckTasksWaitingTermination, IdleShouldYield, At
<1>2. Items(state'["ready"]) \subseteq Items(state["ready"])
  <2>1. state' = state \/ \E x \in Tasks : state' = DetachedState(x)
    BY DEF IdleLoop, prvCheckTasksWaitingTermination, IdleShouldYield, listVars
  <2> QED BY <2>1, DetachedFacts DEF IInv, StateLists
<1>3. ~ Leaving
  BY <1>1 DEF Leaving, SelfSuspending
<1> QED BY <1>1, <1>2, <1>3, RunKept DEF EDFInv

LEMMA ScheduledCall ==
  ASSUME IInv, IInv', CurrentInv, EDFInv, ReadyListDeadlineMatches',
         NEW t \in Tasks, Call(t)
  PROVE  Scheduled
<1> USE DEF frame, tcbVars, loopVars, schedVars
<1>1. /\ mode = "task" /\ pxCurrentTCB = t /\ pc[t] = "run" /\ mode' = "task"
      /\ xSwitchRequired' = xSwitchRequired
  BY DEF Call, CallSuspendAll, CallResumeAll, CallCatchUpTicks, CallDelayUntil,
         DeleteSelf, CallDelay, CallWait, CallSignal, CallCreate, CallSuspend,
         vTaskResume, DeleteOther, Calling, At
<1>2. /\ pc \in [AllTasks -> Labels] /\ t \in AllTasks /\ t # NULL
      /\ pxTCB \in [AllTasks -> AllTasks \union {NULL}]
      /\ xDeadline \in [AllTasks -> TickType]
  BY ConstantsAssumption DEF IInv, TypeOK, AllTasks
<1>3. ~ Leaving /\ ~ xSwitchRequired
  BY <1>1 DEF Leaving, SelfSuspending, CurrentInv, LoopInv
<1>4. ASSUME Items(state'["ready"]) \subseteq Items(state["ready"]),
             UNCHANGED <<pxCurrentTCB, xDeadline, xYieldPending>>
      PROVE  Scheduled
  BY <1>1, <1>3, <1>4, RunKept DEF EDFInv
<1>5. CASE \/ CallSuspendAll(t) \/ CallResumeAll(t) \/ CallCatchUpTicks(t)
           \/ CallDelayUntil(t)
           \/ \E n \in TickType : \/ CallDelay(t, n)
                                  \/ \E e \in EventObjects : CallWait(t, e, n)
  BY <1>4, <1>5 DEF CallSuspendAll, CallResumeAll, CallCatchUpTicks,
                    CallDelayUntil, CallDelay, CallWait, listVars
<1>6. ASSUME NEW x \in AllTasks, NEW list \in {"suspended", "terminating"},
             AppendState(list, x)
      PROVE  Items(state'["ready"]) \subseteq Items(state["ready"])
  <2>1. list \in StateLists /\ list # "ready" /\ "ready" \in StateLists
    BY DEF StateLists
  <2>2. Moved(list, x)
    BY <1>6, <2>1, AppendStateFacts DEF IInv
  <2> QED BY <2>1, <2>2 DEF Moved
<1>7. CASE DeleteSelf(t)
  BY <1>2, <1>4, <1>6, <1>7 DEF DeleteSelf
<1>8. ASSUME NEW x \in Tasks, CallSuspend(t, x) PROVE Scheduled
  BY <1>4, <1>6, <1>8 DEF CallSuspend, AllTasks
<1>9. ASSUME NEW x \in Tasks, DeleteOther(t, x) PROVE Scheduled
  <2>1. Items(state'["ready"]) = Items(state["ready"]) \ {x}
    BY <1>9, DetachedFacts DEF DeleteOther, IInv, StateLists
  <2> QED BY <1>4, <1>9, <2>1 DEF DeleteOther
<1>10. ASSUME NEW x \in AllTasks, prvAddTaskToReadyList(x),
              YieldIfEarlier(x, state'["ready"]), uxSchedulerSuspended = 0,
              UNCHANGED <<pc, pxTCB, xDeadline>>
       PROVE  Scheduled
  <2>1. CASE Earlier(x, pxCurrentTCB)
    BY <1>1, <1>10, <2>1, SwitchToEarliest DEF YieldIfEarlier
  <2>2. CASE ~ Earlier(x, pxCurrentTCB)
    <3>1. UNCHANGED <<pxCurrentTCB, xYieldPending>>
      BY <1>10, <2>2 DEF YieldIfEarlier
    <3>2. Items(state'["ready"]) \subseteq Items(state["ready"]) \union {x}
      BY <1>10, ReadiedFacts DEF Readied, Moved
    <3> QED BY <1>1, <1>10, <2>2, <3>1, <3>2, RunCompared DEF EDFInv
  <2> QED BY <2>1, <2>2
<1>11. ASSUME NEW e \in EventObjects, CallSignal(t, e) PROVE Scheduled
  <2>1. Head(event[e]) \in AllTasks
    BY <1>11, SignalFacts DEF CallSignal
  <2>2. uxSchedulerSuspended = 0 /\ UNCHANGED <<pc, pxTCB, xDeadline>>
    BY <1>11 DEF CallSignal, Calling, argVars
  <2> QED BY <1>10, <1>11, <2>1, <2>2 DEF CallSignal, xTaskRemoveFromEventList
<1>12. ASSUME NEW x \in Tasks, vTaskResume(t, x) PROVE Scheduled
  BY <1>10, <1>12 DEF vTaskResume, Calling, argVars, AllTasks
<1>13. ASSUME NEW x \in Tasks, NEW d \in TickType, CallCreate(t, x, d)
       PROVE  Scheduled
  <2>1. /\ InsertState("ready", x, d) /\ xDeadline' = [xDeadline EXCEPT ![x] = d]
        /\ ~ Exists(x) /\ x \in AllTasks
        /\ UNCHANGED <<pxCurrentTCB, xYieldPending>>
        /\ pxTCB' = [pxTCB EXCEPT ![t] = x]
        /\ pc' = [pc EXCEPT ![t] = "create", ![x] = EntryLabel(x)]
    BY <1>13 DEF CallCreate, AddNewTask, AllTasks
  <2>2. Items(state'["ready"]) = Items(state["ready"]) \union {x}
    BY <2>1, InsertStateFacts DEF Moved, StateLists, IInv
  <2>3. x \notin Items(state["ready"]) /\ t \in Items(state["ready"])
    BY <1>1, <1>3, <2>1, HoldsItems
       DEF Exists, StateLists, CurrentInv, PlaceInv, CurrentIn
  <2>4. /\ pc'[t] = "create" /\ pxTCB'[t] = x
        /\ \A u \in Items(state["ready"]) : xDeadline'[u] = xDeadline[u]
    BY <1>2, <2>1, <2>3, DeadlinesAreIntegers
  <2>5. xYieldPending \/ \A u \in Items(state["ready"]) : xDeadline[t] <= xDeadline[u]
    BY <1>1, <1>3 DEF EDFInv, RunInv
  <2>6. RunInv'
    BY <1>1, <2>1, <2>2, <2>3, <2>4, <2>5 DEF RunInv
  <2> QED BY <1>1, <2>1, <2>6, ScheduledStays
<1> QED BY <1>5, <1>7, <1>8, <1>9, <1>11, <1>12, <1>13 DEF Call

LEMMA EDFStep ==
  ASSUME IInv, CurrentInv, OverrunsKeepOrder, EDFInv, [Next]_vars
  PROVE  EDFInv' /\ SwitchStep
<1>1. IInv' /\ CurrentInv'
  BY NextInv, CurrentStep
<1>2. CASE UNCHANGED vars
  <2>1. UNCHANGED <<mode, pxCurrentTCB, state, stateValue, xDeadline, pc, pxTCB,
                    xYieldPending, xSwitchRequired>>
    BY <1>2 DEF vars, frame, tcbVars, loopVars, schedVars, listVars, argVars
  <2> QED BY <2>1 DEF EDFInv, ReadyListDeadlineMatches, Sorted, RunInv, Leaving,
                      SelfSuspending, FirstRunInv, Earliest, SwitchStep
<1>3. CASE Next
  <2>1. ReadyListDeadlineMatches'
    BY <1>1, <1>3, MatchesStep DEF EDFInv
  <2>2. ASSUME NEW t \in AllTasks, Continue(t) PROVE Scheduled
    BY <1>1, <2>1, <2>2, ScheduledContinue
  <2>3. ASSUME NEW t \in Tasks, Call(t) PROVE Scheduled
    BY <1>1, <2>1, <2>3, ScheduledCall
  <2>4. Scheduled
    BY <1>1, <1>3, <2>1, <2>2, <2>3, ScheduledMain, ScheduledInterrupt,
       ScheduledMasked, ScheduledIdle DEF Next
  <2> QED BY <2>1, <2>4 DEF Scheduled, EDFInv
<1> QED BY <1>2, <1>3

LEMMA EDFHolds ==
  ASSUME OverrunsKeepOrder
  PROVE  Spec => [](IInv /\ CurrentInv /\ EDFInv) /\ [][SwitchStep]_vars
<1>1. Init => EDFInv
  <2> SUFFICES ASSUME Init PROVE EDFInv
    OBVIOUS
  <2>1. mode = "main" /\ pxCurrentTCB = NULL /\ state["ready"] = <<>>
    BY DEF Init, StateLists
  <2> QED BY <2>1 DEF EDFInv, ReadyListDeadlineMatches, Sorted, Items, RunInv,
                      FirstRunInv
<1>2. IInv /\ CurrentInv /\ EDFInv /\ [Next]_vars => EDFInv' /\ SwitchStep
  BY EDFStep
<1>3. IInv /\ CurrentInv /\ EDFInv /\ [Next]_vars
        => IInv' /\ CurrentInv' /\ EDFInv' /\ [SwitchStep]_vars
  BY <1>2, NextInv, CurrentStep
<1> QED BY <1>1, <1>3, CurrentHolds, PTL DEF Spec

(* P1 of the verification model, for every number of tasks, every width of  *)
(* TickType_t and every period: while no overrun leaves a ready task's item *)
(* behind (OverrunsKeepOrder), the ready list is ordered by the deadlines   *)
(* the tasks have now.                                                      *)
THEOREM ReadyListIsInDeadlineOrder ==
  ASSUME OverrunsKeepOrder
  PROVE  Spec => []ReadyListDeadlineMatches
<1>1. EDFInv => ReadyListDeadlineMatches
  BY DEF EDFInv
<1> QED BY <1>1, EDFHolds, PTL

(* P3 of the verification model: under the same condition the running task  *)
(* is ready and no ready task has an earlier deadline, wherever interrupts, *)
(* pended ticks, suspensions of the scheduler, deletions and wake-ups fall. *)
THEOREM RunningTaskIsEarliest ==
  ASSUME OverrunsKeepOrder
  PROVE  Spec => []EDFProperty
<1>1. IInv /\ CurrentInv /\ EDFInv => EDFProperty
  <2> SUFFICES ASSUME IInv, CurrentInv, EDFInv,
                      mode = "task", uxSchedulerSuspended = 0, ~ xYieldPending,
                      pc[pxCurrentTCB] # "yield", ~ SelfSuspending
               PROVE  /\ Holds("ready", pxCurrentTCB)
                      /\ \A t \in Items(state["ready"]) :
                           \/ pc[pxCurrentTCB] = "create" /\ t = pxTCB[pxCurrentTCB]
                           \/ xDeadline[pxCurrentTCB] <= xDeadline[t]
    BY DEF EDFProperty, SelfSuspending
  <2>1. ~ xSwitchRequired /\ pc[pxCurrentTCB] # "delayResume"
    BY DEF CurrentInv, LoopInv, NestInv, SuspendedLabels
  <2>2. ~ Leaving
    BY <2>1 DEF Leaving
  <2>3. Holds("ready", pxCurrentTCB)
    BY <2>2, HoldsItems DEF CurrentInv, PlaceInv, CurrentIn
  <2> QED BY <2>1, <2>2, <2>3 DEF EDFInv, RunInv
<1> QED BY <1>1, EDFHolds, PTL

(* Every context switch goes to a ready task with the earliest deadline,    *)
(* and so does the choice of the first task to run.                         *)
THEOREM EverySwitchIsToTheEarliest ==
  ASSUME OverrunsKeepOrder
  PROVE  Spec => SwitchesToEarliest
<1>1. SwitchStep =>
        (pxCurrentTCB' # pxCurrentTCB =>
           \/ pxCurrentTCB' = NULL /\ state'["ready"] = <<>>
           \/ /\ Holds("ready", pxCurrentTCB)'
              /\ \A t \in Items(state'["ready"]) :
                   xDeadline'[pxCurrentTCB'] <= xDeadline'[t])
  BY DEF SwitchStep, Earliest, Holds, Contains, Items
<1> QED BY <1>1, EDFHolds, PTL DEF SwitchesToEarliest

-----------------------------------------------------------------------------
(* The event lists, the counters, and who becomes ready when.               *)

Blocked == Items(state["delayed"]) \union Items(state["overflow"])
             \union Items(state["suspended"])
Waits(t) == \E l \in EventLists : t \in Items(event[l])
Existing == {t \in AllTasks : Exists(t)}

(* An event item is in one list at most, and its task is blocked.           *)
EventsOK ==
  /\ event \in [EventLists -> Seq(AllTasks)]
  /\ \A l \in EventLists : NoDuplicates(event[l])
  /\ \A l, m \in EventLists :
       l # m => Items(event[l]) \intersect Items(event[m]) = {}
  /\ \A t \in AllTasks : Waits(t) => t \in Blocked

(* Tasks are kept in xPendingReadyList only while the scheduler is          *)
(* suspended, and until xTaskResumeAll has emptied it.                      *)
PendingInv ==
  \/ event["pendingReady"] = <<>>
  \/ mode = "task" /\ uxSchedulerSuspended # 0
  \/ mode = "resume"

CountInv ==
  /\ uxDeletedTasksWaitingCleanUp = Len(state["terminating"])
  /\ IsFiniteSet(Existing)
  /\ uxCurrentNumberOfTasks = Cardinality(Existing)

(* What WakesExactlyOnTime says of a step.                                  *)
OnTime ==
  \A t \in AllTasks :
    /\ t \in Items(state["delayed"]) \union Items(state["overflow"])
    /\ ~ Waits(t)
    /\ t \in Items(state'["ready"])
    => xTickCount = stateValue[t]

Settled == EventsOK' /\ CountInv' /\ OnTime

LEMMA ExistingItems ==
  /\ \A t : Exists(t) <=> \E l \in StateLists : t \in Items(state[l])
  /\ \A t : HasEventContainer(t) <=> Waits(t)
BY DEF Exists, Holds, HasEventContainer, Waits, Contains, Items

LEMMA EventRemoval ==
  ASSUME EventsOK, NEW t, NEW l \in EventLists
  PROVE  /\ DetachedEvent(t)[l] \in Seq(AllTasks)
         /\ NoDuplicates(DetachedEvent(t)[l])
         /\ Items(DetachedEvent(t)[l]) = Items(event[l]) \ {t}
<1> DEFINE zero == [x \in AllTasks |-> 0]
<1>1. event[l] \in Seq(AllTasks) /\ NoDuplicates(event[l])
  BY DEF EventsOK
<1>2. zero \in [AllTasks -> Int]
  OBVIOUS
<1> HIDE DEF zero
<1>3. DetachedEvent(t)[l] = uxListRemove(event[l], t)
  BY DEF DetachedEvent
<1> QED BY <1>1, <1>2, <1>3, ListRemoveProperties

LEMMA EventRemovalTyped ==
  ASSUME EventsOK, NEW t
  PROVE  DetachedEvent(t) \in [EventLists -> Seq(AllTasks)]
<1>1. \A l \in EventLists : uxListRemove(event[l], t) \in Seq(AllTasks)
  BY EventRemoval DEF DetachedEvent
<1> QED BY <1>1 DEF DetachedEvent

LEMMA EventsKept ==
  ASSUME EventsOK, event' = event, NEW t \in AllTasks,
         Waits(t) => t \in Blocked', Blocked \ {t} \subseteq Blocked'
  PROVE  EventsOK'
BY DEF EventsOK, Waits

LEMMA EventsLeft ==
  ASSUME EventsOK, NEW t \in AllTasks, event' = DetachedEvent(t),
         Blocked \ {t} \subseteq Blocked'
  PROVE  EventsOK'
<1>1. /\ event' \in [EventLists -> Seq(AllTasks)]
      /\ \A l \in EventLists : NoDuplicates(event'[l])
      /\ \A l \in EventLists : Items(event'[l]) = Items(event[l]) \ {t}
  BY EventRemoval, EventRemovalTyped
<1>2. \A l, m \in EventLists :
        l # m => Items(event'[l]) \intersect Items(event'[m]) = {}
  BY <1>1 DEF EventsOK
<1>3. \A x \in AllTasks : Waits(x)' => x # t /\ Waits(x)
  BY <1>1 DEF Waits
<1>4. \A x \in AllTasks : Waits(x)' => x \in Blocked'
  BY <1>3 DEF EventsOK
<1> QED BY <1>1, <1>2, <1>4 DEF EventsOK

(* The task joins an event list that it and all other lists are free of.    *)
LEMMA EventsJoined ==
  ASSUME EventsOK, NEW t \in AllTasks, NEW l \in EventLists,
         NEW old \in [EventLists -> Seq(AllTasks)], NEW new \in Seq(AllTasks),
         \A m \in EventLists : NoDuplicates(old[m]) /\ Items(old[m]) = Items(event[m]) \ {t},
         event' = [old EXCEPT ![l] = new],
         NoDuplicates(new), Items(new) = Items(old[l]) \union {t},
         t \in Blocked', Blocked \ {t} \subseteq Blocked'
  PROVE  EventsOK'
<1>1. /\ event' \in [EventLists -> Seq(AllTasks)]
      /\ event'[l] = new
      /\ \A m \in EventLists \ {l} : event'[m] = old[m]
  OBVIOUS
<1>2. \A m \in EventLists : NoDuplicates(event'[m])
  BY <1>1
<1>3. \A m \in EventLists \ {l} : Items(event'[m]) = Items(event[m]) \ {t}
  BY <1>1
<1>4. Items(event'[l]) = (Items(event[l]) \ {t}) \union {t}
  BY <1>1
<1>5. \A k, m \in EventLists :
        k # m => Items(event'[k]) \intersect Items(event'[m]) = {}
  BY <1>3, <1>4 DEF EventsOK
<1>6. \A x \in AllTasks : Waits(x)' => x = t \/ Waits(x)
  BY <1>3, <1>4 DEF Waits
<1>7. \A x \in AllTasks : Waits(x)' => x \in Blocked'
  BY <1>6 DEF EventsOK
<1> QED BY <1>1, <1>2, <1>5, <1>7 DEF EventsOK

LEMMA ExistingMoved ==
  ASSUME NEW t \in AllTasks, NEW list \in StateLists, Moved(list, t)
  PROVE  Existing' = Existing \union {t}
<1>1. \A x \in AllTasks :
        Exists(x)' <=> \E l \in StateLists : x \in Items(state'[l])
  BY DEF Exists, Holds, Contains, Items
<1>2. \A x \in AllTasks :
        (\E l \in StateLists : x \in Items(state'[l]))
          <=> x = t \/ \E l \in StateLists : x \in Items(state[l])
  BY DEF Moved
<1> QED BY <1>1, <1>2, ExistingItems DEF Existing

LEMMA ExistingRemoved ==
  ASSUME NEW t \in AllTasks, Removed(t)
  PROVE  Existing' = Existing \ {t}
<1>1. \A x \in AllTasks :
        Exists(x)' <=> \E l \in StateLists : x \in Items(state'[l])
  BY DEF Exists, Holds, Contains, Items
<1> QED BY <1>1, ExistingItems DEF Existing, Removed

LEMMA BlockedMoved ==
  ASSUME NEW t \in AllTasks, NEW list \in StateLists,
         Moved(list, t) \/ Removed(t)
  PROVE  /\ Blocked \ {t} \subseteq Blocked'
         /\ list \in {"delayed", "overflow", "suspended"} /\ Moved(list, t)
              => t \in Blocked'
BY DEF Moved, Removed, Blocked, StateLists

(* A task moves to another list.                                            *)
LEMMA TaskCounted ==
  ASSUME IInv, CountInv, NEW t \in AllTasks, Exists(t),
         NEW list \in StateLists \ {"terminating"}, Moved(list, t),
         t \notin Items(state["terminating"]),
         state'["terminating"] = DetachedState(t)["terminating"],
         UNCHANGED countVars,
         \/ list # "ready" \/ t \notin Items(state["delayed"]) \union Items(state["overflow"])
         \/ Waits(t) \/ xTickCount = stateValue[t]
  PROVE  CountInv' /\ OnTime
<1>1. CountInv'
  <2>1. Existing' = Existing
    BY ExistingMoved DEF Existing
  <2>2. Len(state'["terminating"]) = Len(state["terminating"])
    BY DetachedFacts DEF IInv, StateLists
  <2> QED BY <2>1, <2>2 DEF CountInv, countVars
<1>2. OnTime
  <2> SUFFICES ASSUME NEW x \in AllTasks,
                      x \in Items(state["delayed"]) \union Items(state["overflow"]),
                      ~ Waits(x), x \in Items(state'["ready"])
               PROVE  xTickCount = stateValue[x]
    BY DEF OnTime
  <2>1. x \notin Items(state["ready"])
    BY DEF IInv, Disjoint, StateLists
  <2>2. x = t /\ list = "ready"
    BY <2>1 DEF Moved, StateLists
  <2> QED BY <2>2
<1> QED BY <1>1, <1>2

(* It leaves its event list, if any, unless it stays blocked.               *)
LEMMA TaskMoved ==
  ASSUME IInv, EventsOK, CountInv, NEW t \in AllTasks, Exists(t),
         NEW list \in StateLists \ {"terminating"}, Moved(list, t),
         t \notin Items(state["terminating"]),
         state'["terminating"] = DetachedState(t)["terminating"],
         UNCHANGED countVars,
         \/ event' = DetachedEvent(t)
         \/ event' = event /\ (Waits(t) => list \in {"delayed", "overflow", "suspended"}),
         \/ list # "ready" \/ t \notin Items(state["delayed"]) \union Items(state["overflow"])
         \/ Waits(t) \/ xTickCount = stateValue[t]
  PROVE  Settled
<1>1. Blocked \ {t} \subseteq Blocked'
  BY BlockedMoved
<1>2. CASE event' = DetachedEvent(t)
  BY <1>1, <1>2, EventsLeft, TaskCounted DEF Settled
<1>3. CASE event' # DetachedEvent(t)
  <2>1. event' = event /\ (Waits(t) => t \in Blocked')
    BY <1>3, BlockedMoved
  <2> QED BY <1>1, <2>1, EventsKept, TaskCounted DEF Settled
<1> QED BY <1>2, <1>3

LEMMA ListPlaces ==
  ASSUME IInv, NEW t
  PROVE  /\ t \in Items(state["ready"]) =>
              t \notin Blocked /\ t \notin Items(state["terminating"])
         /\ t \in Blocked => t \notin Items(state["terminating"])
         /\ t \in Items(state["suspended"]) =>
              t \notin Items(state["delayed"]) \union Items(state["overflow"])
         /\ (\E l \in StateLists : t \in Items(state[l])) => Exists(t)
BY ExistingItems DEF IInv, Disjoint, StateLists, Blocked

LEMMA SettledQuiet ==
  ASSUME IInv, EventsOK, CountInv, UNCHANGED <<state, event, countVars>>
  PROVE  Settled
<1>1. EventsOK'
  BY DEF EventsOK, Waits, Blocked
<1>2. CountInv'
  BY DEF CountInv, countVars, Existing, Exists, Holds
<1>3. OnTime
  BY DEF OnTime, IInv, Disjoint, StateLists
<1> QED BY <1>1, <1>2, <1>3 DEF Settled

LEMMA InsertedPlaces ==
  ASSUME IInv, NEW list \in StateLists, NEW t \in AllTasks, NEW v \in TickType,
         InsertState(list, t, v)
  PROVE  /\ Moved(list, t)
         /\ list # "terminating" =>
              state'["terminating"] = DetachedState(t)["terminating"]
BY InsertStateFacts DEF IInv, StateLists

LEMMA AppendedPlaces ==
  ASSUME IInv, NEW list \in StateLists, NEW t \in AllTasks, AppendState(list, t)
  PROVE  /\ Moved(list, t)
         /\ list # "terminating" =>
              state'["terminating"] = DetachedState(t)["terminating"]
BY AppendStateFacts DEF IInv, StateLists

LEMMA ReadiedPlaces ==
  ASSUME IInv, NEW t \in AllTasks, prvAddTaskToReadyList(t)
  PROVE  /\ Moved("ready", t)
         /\ state'["terminating"] = DetachedState(t)["terminating"]
<1>1. xDeadline[t] \in TickType /\ "ready" \in StateLists
  BY DEF IInv, TypeOK, StateLists
<1> QED BY <1>1, InsertedPlaces DEF prvAddTaskToReadyList

(* The caller blocks.                                                       *)
LEMMA BlockedPlaces ==
  ASSUME IInv, pxCurrentTCB \in AllTasks, NEW ticks \in TickType, NEW f,
         prvAddCurrentTaskToDelayedList(ticks, f)
  PROVE  \E list \in {"delayed", "overflow", "suspended"} :
           /\ Moved(list, pxCurrentTCB)
           /\ state'["terminating"] = DetachedState(pxCurrentTCB)["terminating"]
<1>1. CASE ticks = MaxDelay /\ f
  <2>1. AppendState("suspended", pxCurrentTCB) /\ "suspended" \in StateLists
    BY <1>1 DEF prvAddCurrentTaskToDelayedList, StateLists
  <2> QED BY <2>1, AppendedPlaces
<1>2. CASE ~ (ticks = MaxDelay /\ f)
  <2> DEFINE wake == Wrap(xTickCount + ticks)
             list == DelayedListFor(wake)
  <2>1. InsertState(list, pxCurrentTCB, wake)
    BY <1>2 DEF prvAddCurrentTaskToDelayedList
  <2>2. wake \in TickType
    <3>1. xTickCount + ticks \in Int
      BY TickTypeFacts DEF IInv, TypeOK
    <3> QED BY <3>1, WrapProperties
  <2>3. list \in {"delayed", "overflow"} /\ list \in StateLists
    BY DEF DelayedListFor, StateLists
  <2> HIDE DEF wake, list
  <2> QED BY <2>1, <2>2, <2>3, InsertedPlaces
<1> QED BY <1>1, <1>2

LEMMA SettledNewTask ==
  ASSUME IInv, EventsOK, CountInv, NEW t \in AllTasks, NEW d \in TickType,
         ~ Exists(t), AddNewTask(t, d)
  PROVE  Settled
<1>1. /\ Moved("ready", t) /\ event' = event
      /\ state'["terminating"] = DetachedState(t)["terminating"]
      /\ uxCurrentNumberOfTasks' = uxCurrentNumberOfTasks + 1
      /\ uxDeletedTasksWaitingCleanUp' = uxDeletedTasksWaitingCleanUp
  BY InsertedPlaces DEF AddNewTask, StateLists
<1>2. \A l \in StateLists : t \notin Items(state[l])
  BY ExistingItems
<1>3. EventsOK'
  <2>1. ~ Waits(t)
    BY <1>2 DEF EventsOK, Blocked, StateLists
  <2> QED BY <1>1, <2>1, BlockedMoved, EventsKept DEF StateLists
<1>4. CountInv'
  <2>1. Existing' = Existing \union {t} /\ t \notin Existing
    BY <1>1, ExistingMoved DEF StateLists, Existing
  <2>2. IsFiniteSet(Existing') /\ Cardinality(Existing') = Cardinality(Existing) + 1
    BY <2>1, FS_AddElement DEF CountInv
  <2>3. Len(state'["terminating"]) = Len(state["terminating"])
    BY <1>1, <1>2, DetachedFacts DEF IInv, StateLists
  <2> QED BY <1>1, <2>2, <2>3 DEF CountInv
<1>5. OnTime
  BY <1>1, <1>2 DEF OnTime, Moved, IInv, Disjoint, StateLists
<1> QED BY <1>3, <1>4, <1>5 DEF Settled

LEMMA SettledDeleted ==
  ASSUME IInv, EventsOK, CountInv, NEW t \in AllTasks, Exists(t),
         state' = DetachedState(t),
         \/ event' = DetachedEvent(t)
         \/ event' = event /\ ~ Waits(t),
         uxCurrentNumberOfTasks' = uxCurrentNumberOfTasks - 1,
         uxDeletedTasksWaitingCleanUp' =
           IF t \in Items(state["terminating"])
           THEN uxDeletedTasksWaitingCleanUp - 1 ELSE uxDeletedTasksWaitingCleanUp
  PROVE  Settled
<1>1. Removed(t)
  BY DetachedFacts DEF Removed, IInv
<1>2. EventsOK'
  <2>1. Blocked \ {t} \subseteq Blocked'
    BY <1>1, BlockedMoved DEF StateLists
  <2> QED BY <2>1, EventsKept, EventsLeft
<1>3. CountInv'
  <2>1. Existing' = Existing \ {t} /\ t \in Existing
    BY <1>1, ExistingRemoved DEF Existing
  <2>2. IsFiniteSet(Existing') /\ Cardinality(Existing') = Cardinality(Existing) - 1
    BY <2>1, FS_RemoveElement DEF CountInv
  <2>3. Len(state'["terminating"]) =
          IF t \in Items(state["terminating"])
          THEN Len(state["terminating"]) - 1 ELSE Len(state["terminating"])
    BY DetachedFacts DEF IInv, StateLists
  <2> QED BY <2>2, <2>3 DEF CountInv
<1>4. OnTime
  BY <1>1 DEF OnTime, Removed, IInv, Disjoint, StateLists
<1> QED BY <1>2, <1>3, <1>4 DEF Settled

(* The head of an event list is readied, now or when the scheduler is       *)
(* resumed.                                                                 *)
LEMMA SettledSignal ==
  ASSUME IInv, EventsOK, CountInv, NEW e \in EventObjects, event[e] # <<>>,
         xTaskRemoveFromEventList(e), UNCHANGED countVars
  PROVE  Settled
<1> DEFINE t == Head(event[e])
<1>1. /\ t \in AllTasks /\ t \in Items(event[e]) /\ e \in EventLists
      /\ "pendingReady" \in EventLists /\ e # "pendingReady"
  <2>1. event[e] \in Seq(AllTasks) /\ e \in EventLists
    BY DEF EventsOK, EventLists
  <2> QED BY <2>1, NonemptyHead, ConstantsAssumption DEF EventLists
<1>2. Waits(t)
  BY <1>1 DEF Waits
<1>3. /\ t \in Blocked /\ Exists(t) /\ t \notin Items(state["terminating"])
  <2>1. t \in Blocked
    BY <1>1, <1>2 DEF EventsOK
  <2>2. \E l \in StateLists : t \in Items(state[l])
    BY <2>1 DEF Blocked, StateLists
  <2> QED BY <2>1, <2>2, ListPlaces
<1>4. CASE uxSchedulerSuspended = 0
  <2>1. event' = DetachedEvent(t) /\ prvAddTaskToReadyList(t)
    BY <1>4 DEF xTaskRemoveFromEventList
  <2> HIDE DEF t
  <2>2. "ready" \in StateLists \ {"terminating"}
    BY DEF StateLists
  <2> QED BY <1>1, <1>2, <1>3, <2>1, <2>2, ReadiedPlaces, TaskMoved
<1>5. CASE uxSchedulerSuspended # 0
  <2> DEFINE old == DetachedEvent(t)
             new == vListInsertEnd(old["pendingReady"], t)
  <2>1. /\ event' = [old EXCEPT !["pendingReady"] = new]
        /\ UNCHANGED <<state, stateValue>>
    BY <1>5 DEF xTaskRemoveFromEventList
  <2>2. /\ old \in [EventLists -> Seq(AllTasks)]
        /\ \A m \in EventLists : /\ NoDuplicates(old[m])
                                 /\ Items(old[m]) = Items(event[m]) \ {t}
    BY EventRemoval, EventRemovalTyped
  <2>3. /\ new \in Seq(AllTasks) /\ NoDuplicates(new)
        /\ Items(new) = Items(old["pendingReady"]) \union {t}
    <3> HIDE DEF old, t
    <3>1. t \notin Items(old["pendingReady"])
      BY <1>1, <2>2
    <3> QED BY <1>1, <2>2, <3>1, ListInsertEndProperties
  <2>4. t \in Blocked' /\ Blocked \ {t} \subseteq Blocked'
    BY <1>3, <2>1 DEF Blocked
  <2> HIDE DEF old, new, t
  <2>5. EventsOK'
    BY <1>1, <2>1, <2>2, <2>3, <2>4, EventsJoined
  <2>6. CountInv'
    BY <2>1 DEF CountInv, countVars, Existing, Exists, Holds
  <2>7. OnTime
    BY <2>1 DEF OnTime, IInv, Disjoint, StateLists
  <2> QED BY <2>5, <2>6, <2>7 DEF Settled
<1> QED BY <1>4, <1>5

LEMMA SettledMain ==
  ASSUME IInv, CurrentInv, EventsOK, CountInv, Main
  PROVE  Settled
<1>1. ASSUME NEW t \in Tasks, NEW d \in TickType, MainCreate(t, d) PROVE Settled
  BY <1>1, SettledNewTask DEF MainCreate, AllTasks
<1>2. ASSUME NEW t \in Tasks, MainSuspend(t) PROVE Settled
  <2>1. /\ AppendState("suspended", t) /\ event' = event /\ UNCHANGED countVars
        /\ Exists(t) /\ t \notin Items(state["terminating"]) /\ t \in AllTasks
        /\ "suspended" \in StateLists \ {"terminating"}
    BY <1>2, HoldsItems DEF MainSuspend, ValidHandle, frame, AllTasks, StateLists
  <2> QED BY <2>1, AppendedPlaces, TaskMoved
<1>3. ASSUME vTaskStartScheduler PROVE Settled
  <2>1. mode = "main" /\ AddNewTask(Idle, MaxDelay) /\ Idle \in AllTasks
    BY <1>3 DEF vTaskStartScheduler, AllTasks
  <2>2. ~ Exists(Idle)
    BY <2>1 DEF CurrentInv, FirstInv
  <2> QED BY <2>1, <2>2, SettledNewTask, TickTypeFacts
<1> QED BY <1>1, <1>2, <1>3 DEF Main

LEMMA SettledTick ==
  ASSUME IInv, EventsOK, CountInv, xTaskIncrementTick
  PROVE  Settled
<1>1. /\ UNCHANGED <<event, countVars>>
      /\ \A l \in StateLists \ {"delayed", "overflow"} : state'[l] = state[l]
      /\ \/ state' = state
         \/ /\ state'["delayed"] = state["overflow"]
            /\ state'["overflow"] = state["delayed"]
  BY TickEffect DEF countVars
<1>2. CASE state' = state
  BY <1>1, <1>2, SettledQuiet
<1>3. CASE /\ state'["delayed"] = state["overflow"]
           /\ state'["overflow"] = state["delayed"]
  <2>1. Blocked' = Blocked
    BY <1>1, <1>3 DEF Blocked, StateLists
  <2>2. EventsOK'
    BY <1>1, <2>1 DEF EventsOK, Waits
  <2>3. CountInv'
    <3>1. \A t \in AllTasks : Exists(t)' <=>
            \E l \in StateLists : t \in Items(state'[l])
      BY DEF Exists, Holds, Contains, Items
    <3>2. \A t \in AllTasks : (\E l \in StateLists : t \in Items(state'[l]))
                               <=> \E l \in StateLists : t \in Items(state[l])
      BY <1>1, <1>3 DEF StateLists
    <3>3. Existing' = Existing
      BY <3>1, <3>2, ExistingItems DEF Existing
    <3> QED BY <1>1, <3>3 DEF CountInv, countVars, StateLists
  <2>4. OnTime
    BY <1>1 DEF OnTime, IInv, Disjoint, StateLists
  <2> QED BY <2>2, <2>3, <2>4 DEF Settled
<1> QED BY <1>1, <1>2, <1>3

LEMMA SettledInterrupt ==
  ASSUME IInv, EventsOK, CountInv, Interrupt
  PROVE  Settled
<1> USE DEF frame
<1>1. CASE TickISR
  BY <1>1, SettledTick DEF TickISR
<1>2. CASE TickWhileSuspended
  BY <1>2, SettledQuiet DEF TickWhileSuspended, listVars
<1>3. ASSUME NEW t \in Tasks, xTaskResumeFromISR(t) PROVE Settled
  <2>1. /\ Exists(t) /\ t \notin Items(state["terminating"]) /\ t \in AllTasks
        /\ t \in Items(state["suspended"]) /\ ~ Waits(t) /\ t \in Blocked
        /\ "ready" \in StateLists \ {"terminating"} /\ UNCHANGED countVars
    BY <1>3, HoldsItems, ExistingItems
       DEF xTaskResumeFromISR, ValidHandle, prvTaskIsTaskSuspended, AllTasks,
           Blocked, StateLists
  <2>2. CASE uxSchedulerSuspended = 0
    <3>1. prvAddTaskToReadyList(t) /\ event' = event
      BY <1>3, <2>2 DEF xTaskResumeFromISR
    <3> QED BY <2>1, <3>1, ReadiedPlaces, ListPlaces, TaskMoved
  <2>3. CASE uxSchedulerSuspended # 0
    <3> DEFINE new == vListInsertEnd(event["pendingReady"], t)
    <3>1. /\ event' = [event EXCEPT !["pendingReady"] = new]
          /\ UNCHANGED <<state, stateValue>>
      BY <1>3, <2>3 DEF xTaskResumeFromISR
    <3>2. /\ event \in [EventLists -> Seq(AllTasks)]
          /\ "pendingReady" \in EventLists
          /\ \A m \in EventLists : /\ NoDuplicates(event[m])
                                   /\ t \notin Items(event[m])
                                   /\ Items(event[m]) = Items(event[m]) \ {t}
      BY <2>1 DEF EventsOK, Waits, EventLists
    <3>3. /\ new \in Seq(AllTasks) /\ NoDuplicates(new)
          /\ Items(new) = Items(event["pendingReady"]) \union {t}
      BY <2>1, <3>2, ListInsertEndProperties
    <3>4. t \in Blocked' /\ Blocked \ {t} \subseteq Blocked'
      BY <2>1, <3>1 DEF Blocked
    <3> HIDE DEF new
    <3>5. EventsOK'
      BY <2>1, <3>1, <3>2, <3>3, <3>4, EventsJoined
    <3>6. CountInv'
      BY <2>1, <3>1 DEF CountInv, countVars, Existing, Exists, Holds
    <3>7. OnTime
      BY <3>1 DEF OnTime, IInv, Disjoint, StateLists
    <3> QED BY <3>5, <3>6, <3>7 DEF Settled
  <2> QED BY <2>2, <2>3
<1>4. ASSUME NEW e \in EventObjects, SignalFromISR(e) PROVE Settled
  BY <1>4, SettledSignal DEF SignalFromISR
<1> QED BY <1>1, <1>2, <1>3, <1>4 DEF Interrupt

LEMMA SettledMasked ==
  ASSUME IInv, EventsOK, CountInv, Masked
  PROVE  Settled
<1>1. CASE UnblockTask
  <2> DEFINE t == Head(state["delayed"])
  <2>1. /\ t \in AllTasks /\ t \in Items(state["delayed"])
        /\ "ready" \in StateLists \ {"terminating"}
    <3>1. state["delayed"] \in Seq(AllTasks) /\ state["delayed"] # <<>>
      BY <1>1 DEF UnblockTask, IInv, TypeOK, StateLists
    <3> QED BY <3>1, NonemptyHead DEF StateLists
  <2>2. /\ event' = DetachedEvent(t) /\ prvAddTaskToReadyList(t) /\ Due(t)
        /\ UNCHANGED countVars
    BY <1>1 DEF UnblockTask
  <2> HIDE DEF t
  <2>3. xTickCount = stateValue[t]
    <3>1. stateValue[t] >= xTickCount /\ xTickCount >= stateValue[t]
      BY <2>1, <2>2 DEF Due, IInv, DelayListsInv
    <3>2. stateValue[t] \in Int /\ xTickCount \in Int
      BY <2>1, TickTypeFacts DEF IInv, TypeOK
    <3> QED BY <3>1, <3>2
  <2>4. Exists(t) /\ t \notin Items(state["terminating"])
    BY <2>1, ListPlaces DEF Blocked, StateLists
  <2> QED BY <2>1, <2>2, <2>3, <2>4, ReadiedPlaces, TaskMoved
<1>2. CASE UnblockDone
  BY <1>2, SettledQuiet DEF UnblockDone, listVars
<1>3. CASE TickReturn
  BY <1>3, SettledQuiet DEF TickReturn, listVars
<1>4. CASE ResumePendingTask
  <2> DEFINE t == Head(event["pendingReady"])
  <2>1. t \in AllTasks /\ Waits(t)
    <3>1. event["pendingReady"] \in Seq(AllTasks) /\ event["pendingReady"] # <<>>
          /\ "pendingReady" \in EventLists
      BY <1>4 DEF ResumePendingTask, IInv, TypeOK, SuspendInv, EventLists
    <3> QED BY <3>1, NonemptyHead DEF Waits
  <2>2. /\ event' = DetachedEvent(t) /\ prvAddTaskToReadyList(t)
        /\ UNCHANGED countVars /\ "ready" \in StateLists \ {"terminating"}
    BY <1>4 DEF ResumePendingTask, StateLists
  <2> HIDE DEF t
  <2>3. t \in Blocked
    BY <2>1 DEF EventsOK
  <2>4. Exists(t) /\ t \notin Items(state["terminating"])
    BY <2>3, ListPlaces DEF Blocked, StateLists
  <2> QED BY <2>1, <2>2, <2>4, ReadiedPlaces, TaskMoved
<1>5. CASE ResumePendedTick
  BY <1>5, SettledTick DEF ResumePendedTick
<1>6. CASE ResumeAllReturn
  BY <1>6, SettledQuiet DEF ResumeAllReturn, listVars
<1> QED BY <1>1, <1>2, <1>3, <1>4, <1>5, <1>6 DEF Masked

(* The current task is ready where a call can block or refresh it.          *)
LEMMA CurrentReady ==
  ASSUME IInv, CurrentInv, EventsOK, mode = "task", ~ Leaving
  PROVE  /\ pxCurrentTCB \in AllTasks /\ pxCurrentTCB \in Items(state["ready"])
         /\ Exists(pxCurrentTCB) /\ ~ Waits(pxCurrentTCB)
         /\ pxCurrentTCB \notin Items(state["terminating"])
         /\ pxCurrentTCB \notin Items(state["delayed"]) \union Items(state["overflow"])
<1>1. pxCurrentTCB \in AllTasks
  BY DEF IInv, TypeOK, IdleInv
<1>2. pxCurrentTCB \in Items(state["ready"]) /\ "ready" \in StateLists
  BY DEF CurrentInv, PlaceInv, CurrentIn, StateLists
<1> QED BY <1>1, <1>2, ListPlaces DEF EventsOK, Blocked

LEMMA SettledBlocking ==
  ASSUME IInv, CurrentInv, EventsOK, CountInv, mode = "task", ~ Leaving,
         NEW ticks \in TickType, NEW f,
         prvAddCurrentTaskToDelayedList(ticks, f), UNCHANGED <<event, countVars>>
  PROVE  Settled
<1>1. PICK list \in {"delayed", "overflow", "suspended"} :
        /\ Moved(list, pxCurrentTCB)
        /\ state'["terminating"] = DetachedState(pxCurrentTCB)["terminating"]
  BY CurrentReady, BlockedPlaces
<1>2. list \in StateLists \ {"terminating"}
  BY DEF StateLists
<1> QED BY <1>1, <1>2, CurrentReady, TaskMoved

LEMMA SettledContinue ==
  ASSUME IInv, CurrentInv, EventsOK, CountInv, NEW t \in AllTasks, Continue(t)
  PROVE  Settled
<1> USE DEF frame
<1>1. CASE \/ xTaskResumeAll(t) \/ xTaskCatchUpTicks(t) \/ TaskEntry(t)
           \/ vPortYield(t) \/ prvAddNewTaskToReadyList(t) \/ vTaskSuspend(t)
           \/ prvDeleteTCB(t)
  BY <1>1, SettledQuiet
     DEF xTaskResumeAll, xTaskCatchUpTicks, TaskEntry, vPortYield,
         prvAddNewTaskToReadyList, vTaskSuspend, prvDeleteTCB, listVars
<1>2. CASE vTaskDelay(t)
  <2>1. /\ mode = "task" /\ pxCurrentTCB = t /\ pc[t] = "delay"
        /\ prvAddCurrentTaskToDelayedList(xTicksToWait[t], FALSE)
        /\ UNCHANGED <<event, countVars>> /\ xTicksToWait[t] \in TickType
    BY <1>2 DEF vTaskDelay, At, IInv, TypeOK
  <2>2. ~ Leaving
    BY <2>1 DEF Leaving, SelfSuspending
  <2> QED BY <2>1, <2>2, SettledBlocking
<1>3. CASE xTaskDelayUntil(t)
  <2> DEFINE prev     == pxPreviousWakeTime[t]
             wake     == Wrap(prev + Period[t])
             deadline == Wrap(prev + Period[t] + Period[t])
             ticks    == Wrap(wake - xTickCount)
  <2>1. /\ mode = "task" /\ pxCurrentTCB = t /\ pc[t] = "delayUntil"
        /\ t \in Tasks /\ UNCHANGED <<event, countVars>>
    BY <1>3 DEF xTaskDelayUntil, At, IInv, IdleInv, AllTasks
  <2>2. ~ Leaving
    BY <2>1 DEF Leaving, SelfSuspending
  <2>3. deadline \in TickType /\ ticks \in TickType
    <3>1. prev \in Int /\ Period[t] \in Int /\ xTickCount \in Int
      BY <2>1, TickTypeFacts, ConstantsAssumption DEF IInv, TypeOK, AllTasks
    <3>2. prev + Period[t] \in Int /\ prev + Period[t] + Period[t] \in Int
      BY <3>1
    <3>3. wake \in Int
      BY <3>2, WrapProperties, TickTypeFacts
    <3>4. wake - xTickCount \in Int
      BY <3>1, <3>3
    <3> QED BY <3>2, <3>4, WrapProperties
  <2>4. \/ prvAddCurrentTaskToDelayedList(ticks, FALSE)
        \/ InsertState("ready", t, deadline)
        \/ UNCHANGED <<state, stateValue>>
    BY <1>3 DEF xTaskDelayUntil, RefreshReadyItem
  <2> HIDE DEF deadline, ticks
  <2>5. CASE prvAddCurrentTaskToDelayedList(ticks, FALSE)
    BY <2>1, <2>2, <2>3, <2>5, SettledBlocking
  <2>6. CASE InsertState("ready", t, deadline)
    <3>1. "ready" \in StateLists \ {"terminating"}
      BY DEF StateLists
    <3> QED BY <2>1, <2>2, <2>3, <2>6, <3>1, CurrentReady, InsertedPlaces, TaskMoved
  <2>7. CASE UNCHANGED <<state, stateValue>>
    BY <2>1, <2>7, SettledQuiet
  <2> QED BY <2>4, <2>5, <2>6, <2>7
<1>4. CASE vTaskPlaceOnEventList(t)
  <2> DEFINE e   == pxEventList[t]
             new == vListInsert(event[e], eventValue, t)
  <2>1. /\ mode = "task" /\ pxCurrentTCB = t /\ pc[t] = "block"
        /\ prvAddCurrentTaskToDelayedList(xTicksToWait[t], TRUE)
        /\ event' = [event EXCEPT ![e] = new] /\ UNCHANGED countVars
        /\ xTicksToWait[t] \in TickType /\ e \in EventLists
    BY <1>4 DEF vTaskPlaceOnEventList, At, IInv, TypeOK, ArgsInv, EventLists
  <2>2. ~ Leaving
    BY <2>1 DEF Leaving, SelfSuspending
  <2>3. /\ t \in Items(state["ready"]) /\ Exists(t) /\ ~ Waits(t)
        /\ t \notin Items(state["terminating"])
        /\ t \notin Items(state["delayed"]) \union Items(state["overflow"])
    BY <2>1, <2>2, CurrentReady
  <2>4. PICK list \in {"delayed", "overflow", "suspended"} :
          Moved(list, t) /\ state'["terminating"] = DetachedState(t)["terminating"]
    BY <2>1, BlockedPlaces
  <2>5. list \in StateLists \ {"terminating"}
    BY DEF StateLists
  <2>6. CountInv' /\ OnTime
    BY <2>1, <2>3, <2>4, <2>5, TaskCounted
  <2>7. /\ event \in [EventLists -> Seq(AllTasks)]
        /\ \A m \in EventLists : /\ NoDuplicates(event[m])
                                 /\ t \notin Items(event[m])
                                 /\ Items(event[m]) = Items(event[m]) \ {t}
    BY <2>3 DEF EventsOK, Waits
  <2>8. /\ new \in Seq(AllTasks) /\ NoDuplicates(new)
        /\ Items(new) = Items(event[e]) \union {t}
    <3> HIDE DEF e
    <3>1. eventValue \in [AllTasks -> Int]
      BY TickTypeFacts DEF IInv, TypeOK
    <3> QED BY <2>1, <2>7, <3>1, ListInsertProperties
  <2>9. t \in Blocked' /\ Blocked \ {t} \subseteq Blocked'
    BY <2>4, <2>5, BlockedMoved
  <2> HIDE DEF new, e
  <2>10. EventsOK'
    BY <2>1, <2>7, <2>8, <2>9, EventsJoined
  <2> QED BY <2>6, <2>10 DEF Settled
<1> QED BY <1>1, <1>2, <1>3, <1>4 DEF Continue

LEMMA SettledIdle ==
  ASSUME IInv, EventsOK, CountInv, IdleLoop
  PROVE  Settled
<1> USE DEF frame
<1>1. CASE prvCheckTasksWaitingTermination
  <2>1. PICK x \in Tasks : /\ x = Head(state["terminating"])
                           /\ state' = DetachedState(x)
    BY <1>1 DEF prvCheckTasksWaitingTermination
  <2>2. /\ event' = event
        /\ uxDeletedTasksWaitingCleanUp > 0
        /\ uxCurrentNumberOfTasks' = uxCurrentNumberOfTasks - 1
        /\ uxDeletedTasksWaitingCleanUp' = uxDeletedTasksWaitingCleanUp - 1
    BY <1>1 DEF prvCheckTasksWaitingTermination
  <2>3. x \in Items(state["terminating"]) /\ x \in AllTasks
    <3>1. state["terminating"] \in Seq(AllTasks) /\ state["terminating"] # <<>>
      BY <2>2 DEF CountInv, IInv, TypeOK, StateLists
    <3> QED BY <2>1, <3>1, NonemptyHead
  <2>4. Exists(x) /\ ~ Waits(x)
    BY <2>3, ListPlaces DEF StateLists, EventsOK
  <2> QED BY <2>1, <2>2, <2>3, <2>4, SettledDeleted
<1>2. CASE IdleShouldYield
  BY <1>2, SettledQuiet DEF IdleShouldYield, listVars
<1> QED BY <1>1, <1>2 DEF IdleLoop

LEMMA SettledCall ==
  ASSUME IInv, CurrentInv, EventsOK, CountInv, NEW t \in Tasks, Call(t)
  PROVE  Settled
<1> USE DEF frame
<1>1. CASE \/ CallSuspendAll(t) \/ CallResumeAll(t) \/ CallCatchUpTicks(t)
           \/ CallDelayUntil(t)
           \/ \E n \in TickType : \/ CallDelay(t, n)
                                  \/ \E e \in EventObjects : CallWait(t, e, n)
  BY <1>1, SettledQuiet
     DEF CallSuspendAll, CallResumeAll, CallCatchUpTicks, CallDelayUntil,
         CallDelay, CallWait, listVars
<1>2. ASSUME NEW e \in EventObjects, CallSignal(t, e) PROVE Settled
  BY <1>2, SettledSignal DEF CallSignal
<1>3. CASE DeleteSelf(t)
  <2>1. /\ AppendState("terminating", t) /\ event' = DetachedEvent(t)
        /\ t \in AllTasks /\ Exists(t) /\ t \notin Items(state["terminating"])
        /\ uxDeletedTasksWaitingCleanUp' = uxDeletedTasksWaitingCleanUp + 1
        /\ uxCurrentNumberOfTasks' = uxCurrentNumberOfTasks
        /\ "terminating" \in StateLists
    BY <1>3, HoldsItems DEF DeleteSelf, ValidHandle, AllTasks, StateLists
  <2>2. Moved("terminating", t)
    BY <2>1, AppendedPlaces
  <2>3. EventsOK'
    BY <2>1, <2>2, BlockedMoved, EventsLeft
  <2>4. CountInv'
    <3>1. Existing' = Existing
      BY <2>1, <2>2, ExistingMoved DEF Existing
    <3>2. Len(state'["terminating"]) = Len(state["terminating"]) + 1
      BY <2>1, AppendStateFacts DEF IInv
    <3> QED BY <2>1, <3>1, <3>2 DEF CountInv
  <2>5. OnTime
    BY <2>2 DEF OnTime, Moved, IInv, Disjoint, StateLists
  <2> QED BY <2>3, <2>4, <2>5 DEF Settled
<1>4. ASSUME NEW x \in Tasks, NEW d \in TickType, CallCreate(t, x, d)
      PROVE  Settled
  BY <1>4, SettledNewTask DEF CallCreate, AllTasks
<1>5. ASSUME NEW x \in Tasks, CallSuspend(t, x) PROVE Settled
  <2>1. /\ AppendState("suspended", x) /\ event' = DetachedEvent(x)
        /\ x \in AllTasks /\ Exists(x) /\ x \notin Items(state["terminating"])
        /\ UNCHANGED countVars /\ "suspended" \in StateLists \ {"terminating"}
    BY <1>5, HoldsItems DEF CallSuspend, ValidHandle, AllTasks, StateLists
  <2> QED BY <2>1, AppendedPlaces, TaskMoved
<1>6. ASSUME NEW x \in Tasks, vTaskResume(t, x) PROVE Settled
  <2>1. /\ Exists(x) /\ x \notin Items(state["terminating"]) /\ x \in AllTasks
        /\ x \in Items(state["suspended"]) /\ ~ Waits(x) /\ event' = event
        /\ "ready" \in StateLists \ {"terminating"} /\ UNCHANGED countVars
        /\ prvAddTaskToReadyList(x)
    BY <1>6, HoldsItems, ExistingItems
       DEF vTaskResume, ValidHandle, prvTaskIsTaskSuspended, AllTasks, StateLists
  <2> QED BY <2>1, ReadiedPlaces, ListPlaces, TaskMoved
<1>7. ASSUME NEW x \in Tasks, DeleteOther(t, x) PROVE Settled
  <2>1. /\ Exists(x) /\ x \notin Items(state["terminating"]) /\ x \in AllTasks
        /\ state' = DetachedState(x) /\ event' = DetachedEvent(x)
        /\ uxCurrentNumberOfTasks' = uxCurrentNumberOfTasks - 1
        /\ uxDeletedTasksWaitingCleanUp' = uxDeletedTasksWaitingCleanUp
    BY <1>7, HoldsItems DEF DeleteOther, ValidHandle, AllTasks
  <2> QED BY <2>1, SettledDeleted
<1> QED BY <1>1, <1>2, <1>3, <1>4, <1>5, <1>6, <1>7 DEF Call

LEMMA SettledStep ==
  ASSUME IInv, CurrentInv, EventsOK, CountInv, Next
  PROVE  Settled
BY SettledMain, SettledInterrupt, SettledMasked, SettledContinue, SettledIdle,
   SettledCall DEF Next

(* xPendingReadyList is filled only with the scheduler suspended, and       *)
(* xTaskResumeAll empties it.                                               *)
LEMMA DetachedFromEmpty ==
  ASSUME event["pendingReady"] = <<>>, NEW t
  PROVE  DetachedEvent(t)["pendingReady"] = <<>>
<1>1. "pendingReady" \in EventLists
  BY DEF EventLists
<1> QED BY <1>1 DEF DetachedEvent, uxListRemove, Without, Contains

LEMMA PendingSignal ==
  ASSUME IInv, PendingInv, mode = "task", NEW e \in EventObjects,
         xTaskRemoveFromEventList(e), UNCHANGED <<mode, uxSchedulerSuspended>>
  PROVE  PendingInv'
<1>1. CASE uxSchedulerSuspended = 0
  BY <1>1, DetachedFromEmpty DEF PendingInv, xTaskRemoveFromEventList
<1>2. CASE uxSchedulerSuspended # 0
  BY <1>2 DEF PendingInv
<1> QED BY <1>1, <1>2

LEMMA PendingContinue ==
  ASSUME IInv, PendingInv, NEW t \in AllTasks, Continue(t)
  PROVE  PendingInv'
<1> USE DEF frame, schedVars
<1>1. uxSchedulerSuspended \in Nat
  BY DEF IInv, TypeOK
<1>2. CASE \/ xTaskCatchUpTicks(t) \/ TaskEntry(t)
           \/ prvAddNewTaskToReadyList(t) \/ vTaskSuspend(t)
           \/ vTaskDelay(t) \/ xTaskDelayUntil(t)
  BY <1>2 DEF xTaskCatchUpTicks, TaskEntry, prvAddNewTaskToReadyList,
              vTaskSuspend, vTaskDelay, xTaskDelayUntil, listVars, PendingInv
<1>3. CASE vPortYield(t)
  BY <1>3 DEF vPortYield, listVars, PendingInv
<1>4. CASE prvDeleteTCB(t)
  <2>1. /\ mode = "task" /\ mode' = "task" /\ event' = event
        /\ uxSchedulerSuspended' = uxSchedulerSuspended + 1
    BY <1>4 DEF prvDeleteTCB, vTaskSuspendAll, At, listVars
  <2> QED BY <1>1, <2>1 DEF PendingInv
<1>5. CASE xTaskResumeAll(t)
  <2>1. /\ mode = "task" /\ event' = event
        /\ uxSchedulerSuspended' = uxSchedulerSuspended - 1
        /\ IF uxSchedulerSuspended = 1
           THEN mode' = ResumeMode ELSE mode' = "task"
    BY <1>5 DEF xTaskResumeAll, At, listVars
  <2>2. CASE event["pendingReady"] = <<>>
    BY <2>1, <2>2 DEF PendingInv
  <2>3. CASE event["pendingReady"] # <<>>
    BY <1>1, <2>1, <2>3 DEF PendingInv, ResumeMode
  <2> QED BY <2>2, <2>3
<1>6. CASE vTaskPlaceOnEventList(t)
  <2>1. /\ event' = [event EXCEPT ![pxEventList[t]] =
                       vListInsert(event[pxEventList[t]], eventValue, t)]
        /\ pxEventList[t] \in EventObjects
        /\ UNCHANGED <<mode, uxSchedulerSuspended>>
    BY <1>6 DEF vTaskPlaceOnEventList, At, IInv, ArgsInv
  <2>2. event'["pendingReady"] = event["pendingReady"]
    BY <2>1, ConstantsAssumption DEF IInv, TypeOK, EventLists
  <2> QED BY <2>1, <2>2 DEF PendingInv
<1> QED BY <1>2, <1>3, <1>4, <1>5, <1>6 DEF Continue

LEMMA PendingCall ==
  ASSUME IInv, PendingInv, NEW t \in Tasks, Call(t)
  PROVE  PendingInv'
<1> USE DEF frame, schedVars
<1>1. uxSchedulerSuspended \in Nat /\ mode = "task" /\ mode' = "task"
  BY DEF IInv, TypeOK, Call, CallSuspendAll, CallResumeAll, CallCatchUpTicks,
         CallDelayUntil, DeleteSelf, CallDelay, CallWait, CallSignal, CallCreate,
         CallSuspend, vTaskResume, DeleteOther, Calling, At
<1>2. ASSUME event' = event,
             \/ uxSchedulerSuspended' = uxSchedulerSuspended
             \/ uxSchedulerSuspended' = uxSchedulerSuspended + 1
      PROVE  PendingInv'
  BY <1>1, <1>2 DEF PendingInv
<1>3. ASSUME NEW x, event' = DetachedEvent(x),
             uxSchedulerSuspended' = uxSchedulerSuspended
      PROVE  PendingInv'
  BY <1>1, <1>3, DetachedFromEmpty DEF PendingInv
<1>4. ASSUME NEW n \in TickType, CallDelay(t, n) PROVE PendingInv'
  BY <1>2, <1>4 DEF CallDelay, vTaskSuspendAll, listVars
<1>5. ASSUME NEW n \in TickType, NEW e \in EventObjects, CallWait(t, e, n)
      PROVE  PendingInv'
  BY <1>2, <1>5 DEF CallWait, vTaskSuspendAll, listVars
<1>6. CASE \/ CallSuspendAll(t) \/ CallResumeAll(t) \/ CallCatchUpTicks(t)
           \/ CallDelayUntil(t)
  BY <1>2, <1>6 DEF CallSuspendAll, CallResumeAll, CallCatchUpTicks,
                    CallDelayUntil, vTaskSuspendAll, listVars
<1>7. ASSUME NEW e \in EventObjects, CallSignal(t, e) PROVE PendingInv'
  BY <1>1, <1>7, PendingSignal DEF CallSignal
<1>8. CASE DeleteSelf(t)
  BY <1>3, <1>8 DEF DeleteSelf
<1>9. ASSUME NEW x \in Tasks, NEW d \in TickType, CallCreate(t, x, d)
      PROVE  PendingInv'
  BY <1>2, <1>9 DEF CallCreate, AddNewTask
<1>10. ASSUME NEW x \in Tasks, CallSuspend(t, x) PROVE PendingInv'
  BY <1>3, <1>10 DEF CallSuspend
<1>11. ASSUME NEW x \in Tasks, vTaskResume(t, x) PROVE PendingInv'
  BY <1>2, <1>11 DEF vTaskResume
<1>12. ASSUME NEW x \in Tasks, DeleteOther(t, x) PROVE PendingInv'
  BY <1>3, <1>12 DEF DeleteOther
<1> QED BY <1>4, <1>5, <1>6, <1>7, <1>8, <1>9, <1>10, <1>11, <1>12 DEF Call

LEMMA PendingMasked ==
  ASSUME IInv, EventsOK, PendingInv, Masked
  PROVE  PendingInv'
<1>1. CASE UnblockTask
  BY <1>1, DetachedFromEmpty DEF UnblockTask, PendingInv
<1>2. CASE UnblockDone \/ TickReturn \/ ResumePendedTick \/ ResumeAllReturn
  <2>1. event' = event /\ mode \notin {"task", "resume"}
    BY <1>2 DEF UnblockDone, TickReturn, ResumePendedTick, xTaskIncrementTick,
                ResumeAllReturn, TicksCaughtUp, listVars
  <2> QED BY <2>1 DEF PendingInv
<1>3. CASE ResumePendingTask
  <2> DEFINE pending == event["pendingReady"]
  <2>1. /\ event' = DetachedEvent(Head(pending)) /\ mode = "resume"
        /\ Len(pending) # 1 => mode' = mode
    BY <1>3 DEF ResumePendingTask
  <2>2. pending \in Seq(AllTasks) /\ "pendingReady" \in EventLists
    BY DEF EventsOK, EventLists
  <2>3. CASE Len(pending) = 1
    <3>1. pending # <<>> /\ event'["pendingReady"] = uxListRemove(pending, Head(pending))
      BY <2>1, <2>2, <2>3 DEF DetachedEvent
    <3>2. Head(pending) \in Items(pending)
      BY <2>2, <3>1, NonemptyHead
    <3> HIDE DEF pending
    <3>3. /\ event'["pendingReady"] \in Seq(AllTasks)
          /\ Len(event'["pendingReady"]) = 0
      BY <2>2, <2>3, <3>1, <3>2, ListRemoveLength
    <3> QED BY <3>3, EmptySeq DEF PendingInv
  <2>4. CASE Len(pending) # 1
    BY <2>1, <2>4 DEF PendingInv
  <2> QED BY <2>3, <2>4
<1> QED BY <1>1, <1>2, <1>3 DEF Masked

LEMMA PendingStep ==
  ASSUME IInv, EventsOK, PendingInv, Next
  PROVE  PendingInv'
<1> USE DEF frame, schedVars
<1>1. CASE Main
  <2>1. mode = "main" /\ event' = event
    BY <1>1 DEF Main, MainCreate, MainSuspend, vTaskStartScheduler, AddNewTask
  <2> QED BY <2>1 DEF PendingInv, IInv, MainInv
<1>2. CASE TickISR \/ TickWhileSuspended
  BY <1>2 DEF TickISR, xTaskIncrementTick, TickWhileSuspended, listVars, PendingInv
<1>3. ASSUME NEW t \in Tasks, xTaskResumeFromISR(t) PROVE PendingInv'
  BY <1>3 DEF xTaskResumeFromISR, PendingInv
<1>4. ASSUME NEW e \in EventObjects, SignalFromISR(e) PROVE PendingInv'
  BY <1>4, PendingSignal DEF SignalFromISR
<1>5. CASE IdleLoop
  BY <1>5 DEF IdleLoop, prvCheckTasksWaitingTermination, IdleShouldYield,
              listVars, PendingInv
<1> QED BY <1>1, <1>2, <1>3, <1>4, <1>5, PendingMasked, PendingContinue,
           PendingCall DEF Next, Interrupt

LEMMA SettledHolds ==
  Spec => /\ [](IInv /\ CurrentInv /\ EventsOK /\ PendingInv /\ CountInv)
          /\ [][OnTime]_vars
<1> DEFINE Inv == EventsOK /\ PendingInv /\ CountInv
<1>1. Init => Inv
  <2> SUFFICES ASSUME Init PROVE Inv
    OBVIOUS
  <2>1. /\ \A l \in EventLists : event[l] = <<>>
        /\ event \in [EventLists -> Seq(AllTasks)]
        /\ \A l \in StateLists : state[l] = <<>>
        /\ "terminating" \in StateLists /\ "pendingReady" \in EventLists
        /\ uxDeletedTasksWaitingCleanUp = 0 /\ uxCurrentNumberOfTasks = 0
    BY DEF Init, StateLists, EventLists
  <2>2. EventsOK
    BY <2>1 DEF EventsOK, NoDuplicates, Waits, Items
  <2>3. Existing = {}
    BY <2>1 DEF Existing, Exists, Holds, Contains
  <2> QED BY <2>1, <2>2, <2>3, FS_EmptySet DEF PendingInv, CountInv
<1>2. IInv /\ CurrentInv /\ Inv /\ [Next]_vars => Inv' /\ [OnTime]_vars
  <2> SUFFICES ASSUME IInv, CurrentInv, Inv, [Next]_vars
               PROVE  Inv' /\ [OnTime]_vars
    OBVIOUS
  <2>1. CASE UNCHANGED vars
    <3>1. UNCHANGED <<mode, state, event, uxSchedulerSuspended, countVars>>
      BY <2>1 DEF vars, frame, schedVars, listVars
    <3> QED BY <2>1, <3>1, SettledQuiet DEF Settled, PendingInv
  <2>2. CASE Next
    BY <2>2, SettledStep, PendingStep DEF Settled
  <2> QED BY <2>1, <2>2
<1> HIDE DEF Inv
<1>3. Spec => []Inv /\ [][OnTime]_vars
  BY <1>1, <1>2, CurrentHolds, PTL DEF Spec
<1> QED BY <1>3, CurrentHolds, PTL DEF Inv

(* Every list item is in one list at most: uxListRemove never unlinks an    *)
(* item from a ring other than the one pxContainer names.  (All callers of  *)
(* vListInsert, vListInsertEnd and uxListRemove in tasks.c)                 *)
THEOREM ListItemsAreLinkedOnce == Spec => []ListDiscipline
<1>1. IInv /\ EventsOK => ListDiscipline
  BY DEF IInv, StateListsOK, Disjoint, EventsOK, ListDiscipline
<1> QED BY <1>1, SettledHolds, PTL

(* A task in an event list is blocked: no timeout, suspension or deletion   *)
(* leaves an event item behind, and xTaskResumeAll strands nobody in        *)
(* xPendingReadyList.                                                       *)
THEOREM OnlyBlockedTasksWait == Spec => []WaitersAreBlocked
<1>1. EventsOK /\ PendingInv => WaitersAreBlocked
  BY ExistingItems, HoldsItems DEF EventsOK, PendingInv, WaitersAreBlocked, Blocked
<1> QED BY <1>1, SettledHolds, PTL

(* A task that deleted itself runs only until its own yield, a freed task   *)
(* is never current, and the counters agree with the lists.  (vTaskDelete,  *)
(* prvCheckTasksWaitingTermination, prvAddNewTaskToReadyList)               *)
THEOREM DeletedTasksDoNotRun == Spec => []DeletedTasksAreFreed
<1>1. IInv /\ CurrentInv /\ CountInv => DeletedTasksAreFreed
  <2> SUFFICES ASSUME IInv, CurrentInv, CountInv PROVE DeletedTasksAreFreed
    OBVIOUS
  <2>1. ASSUME mode # "main"
        PROVE  /\ Exists(pxCurrentTCB)
               /\ Holds("terminating", pxCurrentTCB) => pc[pxCurrentTCB] = "yield"
    <3>1. PICK l \in StateLists : CurrentIn(l)
      BY <2>1 DEF CurrentInv, PlaceInv
    <3>2. Holds("terminating", pxCurrentTCB) => l = "terminating"
      BY <3>1, HoldsItems DEF CurrentIn, IInv, Disjoint, StateLists
    <3> QED BY <3>1, <3>2, ExistingItems DEF CurrentIn
  <2> QED BY <2>1 DEF DeletedTasksAreFreed, CountInv, Existing
<1> QED BY <1>1, SettledHolds, PTL

(* A task that only waits for time is readied at exactly its wake time.     *)
(* (xTaskIncrementTick; nobody else takes a task without an event item out  *)
(* of a delayed list but to suspend or delete it)                           *)
THEOREM TasksWakeOnTime == Spec => WakesExactlyOnTime
<1>1. OnTime =>
        \A t \in AllTasks :
          /\ Holds("delayed", t) \/ Holds("overflow", t)
          /\ ~ HasEventContainer(t)
          /\ Holds("ready", t)'
          => xTickCount = stateValue[t]
  BY ExistingItems, HoldsItems DEF OnTime, Holds, Contains, Items
<1> QED BY <1>1, SettledHolds, PTL DEF WakesExactlyOnTime

-----------------------------------------------------------------------------
(* Ticks are counted once.                                                  *)

LEMMA NextTick ==
  ASSUME NEW n \in TickType
  PROVE  Wrap(n + 1) # n /\ Wrap(Wrap(n + 1) - n) = 1
<1>1. MaxDelay \in Nat \ {0} /\ n \in 0..MaxDelay
  BY ConstantsAssumption DEF TickType
<1>2. CASE n < MaxDelay
  <2>1. Wrap(n + 1) = n + 1 /\ Wrap(1) = 1 /\ (n + 1) - n = 1
    BY <1>1, <1>2, WrapProperties
  <2> QED BY <1>1, <2>1
<1>3. CASE n = MaxDelay
  <2>1. n + 1 = MaxDelay + 1 /\ MaxDelay + 1 \in (MaxDelay + 1)..(2 * MaxDelay + 1)
    BY <1>1, <1>3
  <2>2. Wrap(n + 1) = 0
    BY <1>1, <2>1, WrapProperties
  <2>3. 0 - n \in (-MaxDelay)..(-1) /\ (0 - n) + (MaxDelay + 1) = 1
    BY <1>1, <1>3
  <2> QED BY <1>1, <1>3, <2>2, <2>3, WrapProperties
<1> QED BY <1>1, <1>2, <1>3

LEMMA NoTicks ==
  ASSUME NEW n \in TickType
  PROVE  Wrap(n - n) = 0
<1>1. n - n = 0 /\ 0 \in 0..MaxDelay
  BY ConstantsAssumption DEF TickType
<1> QED BY <1>1, WrapProperties

LEMMA MoreTicks ==
  ASSUME NEW n \in TickType, NEW k \in TickType
  PROVE  /\ n + k <= MaxDelay => Wrap(n + k) = n + k
         /\ Wrap(n + k) = n => k = 0
<1>1. MaxDelay \in Nat \ {0} /\ n \in 0..MaxDelay /\ k \in 0..MaxDelay
  BY ConstantsAssumption DEF TickType
<1>2. CASE n + k <= MaxDelay
  <2>1. n + k \in 0..MaxDelay
    BY <1>1, <1>2
  <2> QED BY <1>1, <2>1, WrapProperties
<1>3. CASE n + k > MaxDelay
  <2>1. n + k \in (MaxDelay + 1)..(2 * MaxDelay + 1)
    BY <1>1, <1>3
  <2>2. Wrap(n + k) = (n + k) - (MaxDelay + 1)
    BY <2>1, WrapProperties
  <2> QED BY <1>1, <1>3, <2>2
<1> QED BY <1>1, <1>2, <1>3

(* Outside xTaskResumeAll ticks are pended only while the scheduler is      *)
(* suspended, and xTaskResumeAll takes as many as there are.                *)
PendedInv ==
  /\ mode \notin {"resume", "resumeTicks"} /\ uxSchedulerSuspended = 0
       /\ xPendedCounts = 0 => xPendedTicks = 0
  /\ mode = "resume" => xPendedCounts = xPendedTicks

TickStep ==
  \/ vTaskStartScheduler
  \/ xPendedTicks + TicksCome <= MaxDelay => TicksGained = TicksCome

(* A step that changes neither count is none with which a tick comes.       *)
LEMMA NoTickComes ==
  ASSUME IInv, mode # "task" \/ UNCHANGED <<xTickCount, xPendedTicks>>
  PROVE  TicksCome = 0
<1>1. xTickCount \in TickType /\ xPendedTicks \in TickType /\ 1 \in TickType
  BY ConstantsAssumption DEF IInv, TypeOK, TickType
<1>2. ~ TickISR
  BY <1>1, NextTick DEF TickISR, xTaskIncrementTick
<1>3. ~ TickWhileSuspended
  BY <1>1, MoreTicks DEF TickWhileSuspended
<1>4. ASSUME NEW t \in Tasks, xTaskCatchUpTicks(t)
      PROVE  xTicksToWait[pxCurrentTCB] = 0
  <2>1. /\ t = pxCurrentTCB /\ mode = "task"
        /\ xPendedTicks' = Wrap(xPendedTicks + xTicksToWait[t])
    BY <1>4 DEF xTaskCatchUpTicks, At
  <2>2. xTicksToWait[t] \in TickType
    BY DEF IInv, TypeOK, AllTasks
  <2> QED BY <1>1, <2>1, <2>2, MoreTicks
<1> QED BY <1>2, <1>3, <1>4 DEF TicksCome

(* What a step with which no tick comes gains, if it takes none.            *)
LEMMA NoTickGained ==
  ASSUME IInv, UNCHANGED xTickCount, TicksPending' = TicksPending,
         mode # "task" \/ UNCHANGED xPendedTicks
  PROVE  TickStep
<1>1. TicksCome = 0
  BY NoTickComes
<1>2. TicksPending \in Int
  BY DEF IInv, TypeOK, TickType, TicksPending
<1>3. Wrap(xTickCount' - xTickCount) = 0
  BY NoTicks DEF IInv, TypeOK
<1>4. TicksGained = 0
  BY <1>2, <1>3 DEF TicksGained
<1> QED BY <1>1, <1>4 DEF TickStep

LEMMA TicksSame ==
  ASSUME IInv, PendedInv, mode \notin {"resume", "resumeTicks"}, mode' = mode,
         UNCHANGED <<xTickCount, xPendedTicks, xPendedCounts>>,
         uxSchedulerSuspended' # 0 \/ uxSchedulerSuspended = 0
  PROVE  PendedInv' /\ TickStep
<1>1. TicksPending' = TicksPending
  BY DEF TicksPending
<1> QED BY <1>1, NoTickGained DEF PendedInv

LEMMA TicksMain ==
  ASSUME IInv, PendedInv, Main
  PROVE  PendedInv' /\ TickStep
<1>1. ASSUME NEW t \in Tasks, NEW d \in TickType, MainCreate(t, d)
      PROVE  PendedInv' /\ TickStep
  BY <1>1, TicksSame DEF MainCreate, wakeVars, timeVars, loopVars, IInv, SuspendInv
<1>2. ASSUME NEW t \in Tasks, MainSuspend(t) PROVE PendedInv' /\ TickStep
  BY <1>2, TicksSame DEF MainSuspend, wakeVars, frame, timeVars, loopVars, IInv, SuspendInv
<1>3. CASE vTaskStartScheduler
  BY <1>3 DEF vTaskStartScheduler, loopVars, PendedInv, TickStep
<1> QED BY <1>1, <1>2, <1>3 DEF Main

LEMMA TicksInterrupt ==
  ASSUME IInv, PendedInv, Interrupt
  PROVE  PendedInv' /\ TickStep
<1>1. xTickCount \in TickType /\ xPendedTicks \in TickType /\ xPendedCounts \in TickType
  BY DEF IInv, TypeOK
<1>2. CASE TickISR
  <2>1. /\ mode = "task" /\ uxSchedulerSuspended = 0 /\ xPendedCounts = 0
        /\ xPendedTicks = 0 /\ xTickCount' = Wrap(xTickCount + 1)
        /\ mode' \in {"tick", "tickDone"}
        /\ UNCHANGED <<xPendedTicks, xPendedCounts, uxSchedulerSuspended>>
    BY <1>2 DEF TickISR, xTaskIncrementTick, schedVars, IInv, SuspendInv, PendedInv
  <2>2. TicksCome = 1
    BY <1>2 DEF TicksCome
  <2>3. TicksPending = 0 /\ TicksPending' = 0
    BY <2>1 DEF TicksPending
  <2>4. Wrap(xTickCount' - xTickCount) = 1
    BY <1>1, <2>1, NextTick
  <2>5. TicksGained = 1
    BY <2>3, <2>4 DEF TicksGained
  <2> QED BY <2>1, <2>2, <2>5 DEF PendedInv, TickStep
<1>3. CASE TickWhileSuspended
  <2>1. /\ mode = "task" /\ mode' = "task" /\ uxSchedulerSuspended' # 0
        /\ xPendedTicks' = Wrap(xPendedTicks + 1) /\ xTickCount' = xTickCount
    BY <1>3 DEF TickWhileSuspended, frame, schedVars, timeVars
  <2>2. TicksCome = 1
    BY <1>3 DEF TicksCome
  <2>3. ASSUME xPendedTicks + 1 <= MaxDelay PROVE TicksGained = 1
    <3>1. 1 \in TickType
      BY ConstantsAssumption DEF TickType
    <3>2. xPendedTicks' = xPendedTicks + 1
      BY <1>1, <2>1, <2>3, <3>1, MoreTicks
    <3>3. TicksPending = xPendedTicks /\ TicksPending' = xPendedTicks + 1
      BY <2>1, <3>2 DEF TicksPending
    <3>4. Wrap(xTickCount' - xTickCount) = 0
      BY <1>1, <2>1, NoTicks
    <3> QED BY <1>1, <3>3, <3>4 DEF TicksGained, TickType
  <2> QED BY <2>1, <2>2, <2>3 DEF PendedInv, TickStep
<1>4. ASSUME NEW t \in Tasks, xTaskResumeFromISR(t) PROVE PendedInv' /\ TickStep
  BY <1>4, TicksSame
     DEF xTaskResumeFromISR, wakeVars, frame, timeVars, loopVars
<1>5. ASSUME NEW e \in EventObjects, SignalFromISR(e) PROVE PendedInv' /\ TickStep
  BY <1>5, TicksSame DEF SignalFromISR, wakeVars, frame, timeVars, loopVars
<1> QED BY <1>2, <1>3, <1>4, <1>5 DEF Interrupt

LEMMA TicksMasked ==
  ASSUME IInv, PendedInv, Masked
  PROVE  PendedInv' /\ TickStep
<1>1. xTickCount \in TickType /\ xPendedTicks \in Nat /\ xPendedCounts \in Nat
  BY DEF IInv, TypeOK, TickType
<1>2. CASE UnblockTask \/ UnblockDone
  <2>1. /\ mode = "tick" /\ mode' \in {"tick", "tickDone"}
        /\ UNCHANGED <<xTickCount, xPendedTicks, xPendedCounts, uxSchedulerSuspended>>
    BY <1>2 DEF UnblockTask, UnblockDone, wakeVars, timeVars, loopVars, schedVars
  <2>2. TicksPending' = TicksPending
    BY <2>1 DEF TicksPending
  <2> QED BY <2>1, <2>2, NoTickGained DEF PendedInv
<1>3. CASE TickReturn
  <2>1. /\ mode = "tickDone" /\ uxSchedulerSuspended = 0
        /\ UNCHANGED <<xTickCount, xPendedTicks, uxSchedulerSuspended>>
        /\ IF xPendedCounts = 0
           THEN mode' = "task" /\ xPendedCounts' = 0
           ELSE mode' = "resumeTicks" /\ xPendedCounts' = xPendedCounts - 1
    BY <1>3 DEF TickReturn, wakeVars, timeVars, IInv, SuspendInv
  <2>2. TicksPending' = TicksPending
    BY <1>1, <2>1 DEF TicksPending, PendedInv
  <2> QED BY <2>1, <2>2, NoTickGained DEF PendedInv
<1>4. CASE ResumePendingTask
  <2>1. /\ mode = "resume" /\ mode' \in {"resume", "resumeTicks"}
        /\ UNCHANGED <<xTickCount, xPendedTicks, xPendedCounts>>
    BY <1>4 DEF ResumePendingTask, timeVars, loopVars
  <2>2. TicksPending' = TicksPending
    BY <2>1 DEF TicksPending, PendedInv
  <2> QED BY <2>1, <2>2, NoTickGained DEF PendedInv
<1>5. CASE ResumePendedTick
  <2>1. /\ mode = "resumeTicks" /\ xPendedCounts # 0
        /\ xTickCount' = Wrap(xTickCount + 1) /\ mode' \in {"tick", "tickDone"}
        /\ UNCHANGED <<xPendedTicks, xPendedCounts>>
    BY <1>5 DEF ResumePendedTick, xTaskIncrementTick
  <2>2. TicksPending = xPendedCounts /\ TicksPending' = xPendedCounts - 1
    BY <1>1, <2>1 DEF TicksPending
  <2>3. Wrap(xTickCount' - xTickCount) = 1
    BY <1>1, <2>1, NextTick
  <2>4. TicksGained = 0
    BY <1>1, <2>2, <2>3 DEF TicksGained
  <2>5. TicksCome = 0
    BY <2>1, NoTickComes
  <2> QED BY <2>1, <2>4, <2>5 DEF PendedInv, TickStep
<1>6. CASE ResumeAllReturn
  <2>1. /\ mode = "resumeTicks" /\ xPendedCounts = 0 /\ mode' = "task"
        /\ xPendedTicks' = 0 /\ UNCHANGED <<xTickCount, xPendedCounts>>
    BY <1>6 DEF ResumeAllReturn, TicksCaughtUp, timeVars, loopVars
  <2>2. TicksPending' = TicksPending
    BY <2>1 DEF TicksPending
  <2> QED BY <2>1, <2>2, NoTickGained DEF PendedInv
<1> QED BY <1>2, <1>3, <1>4, <1>5, <1>6 DEF Masked

LEMMA TicksContinue ==
  ASSUME IInv, PendedInv, NEW t \in AllTasks, Continue(t)
  PROVE  PendedInv' /\ TickStep
<1> USE DEF frame, schedVars, wakeVars, timeVars, loopVars
<1>1. /\ xTickCount \in TickType /\ xPendedTicks \in TickType
      /\ uxSchedulerSuspended \in Nat
  BY DEF IInv, TypeOK
<1>2. CASE TaskEntry(t) \/ prvAddNewTaskToReadyList(t) \/ vTaskSuspend(t)
           \/ vTaskDelay(t) \/ xTaskDelayUntil(t) \/ vTaskPlaceOnEventList(t)
  BY <1>2, TicksSame
     DEF TaskEntry, prvAddNewTaskToReadyList, vTaskSuspend, vTaskDelay,
         xTaskDelayUntil, vTaskPlaceOnEventList, At
<1>3. CASE vPortYield(t)
  BY <1>3, TicksSame DEF vPortYield, At
<1>4. CASE prvDeleteTCB(t)
  <2>1. uxSchedulerSuspended' # 0
    BY <1>1, <1>4 DEF prvDeleteTCB, vTaskSuspendAll
  <2> QED BY <1>4, <2>1, TicksSame DEF prvDeleteTCB, At
<1>5. CASE xTaskCatchUpTicks(t)
  <2> DEFINE n == xTicksToWait[t]
  <2>1. /\ mode = "task" /\ mode' = "task" /\ pc[t] = "catchUp" /\ pxCurrentTCB = t
        /\ xPendedTicks' = Wrap(xPendedTicks + n)
        /\ UNCHANGED <<xTickCount, xPendedCounts, uxSchedulerSuspended>>
        /\ n \in TickType
    BY <1>5 DEF xTaskCatchUpTicks, At, IInv, TypeOK
  <2>2. uxSchedulerSuspended # 0 /\ t \in Tasks
    BY <2>1 DEF IInv, SuspendInv, IdleInv, SuspendedLabels, AllTasks
  <2> HIDE DEF n
  <2>3. TicksCome = n
    <3>1. ~ TickISR
      BY <2>2 DEF TickISR
    <3>2. ~ TickWhileSuspended
      <4>1. pc' # pc
        BY <1>5, <2>1 DEF xTaskCatchUpTicks, Goto, IInv, TypeOK
      <4> QED BY <4>1 DEF TickWhileSuspended
    <3> QED BY <1>5, <2>1, <2>2, <3>1, <3>2 DEF TicksCome, n
  <2>4. ASSUME xPendedTicks + n <= MaxDelay PROVE TicksGained = n
    <3>1. xPendedTicks' = xPendedTicks + n
      BY <1>1, <2>1, <2>4, MoreTicks
    <3>2. TicksPending = xPendedTicks /\ TicksPending' = xPendedTicks + n
      BY <2>1, <3>1 DEF TicksPending
    <3>3. Wrap(xTickCount' - xTickCount) = 0
      BY <1>1, <2>1, NoTicks
    <3> QED BY <1>1, <2>1, <3>2, <3>3 DEF TicksGained, TickType
  <2> QED BY <2>1, <2>2, <2>3, <2>4 DEF PendedInv, TickStep
<1>6. CASE xTaskResumeAll(t)
  <2>1. /\ mode = "task" /\ uxSchedulerSuspended # 0
        /\ UNCHANGED <<xTickCount, xPendedTicks>>
        /\ uxSchedulerSuspended' = uxSchedulerSuspended - 1
        /\ IF uxSchedulerSuspended = 1
           THEN mode' \in {"resume", "resumeTicks"} /\ xPendedCounts' = xPendedTicks
           ELSE mode' = "task" /\ xPendedCounts' = xPendedCounts
    BY <1>6 DEF xTaskResumeAll, ResumeMode, At, IInv, SuspendInv, SuspendedLabels
  <2>2. TicksPending' = TicksPending
    BY <2>1 DEF TicksPending
  <2> QED BY <1>1, <2>1, <2>2, NoTickGained DEF PendedInv
<1> QED BY <1>2, <1>3, <1>4, <1>5, <1>6 DEF Continue

LEMMA TicksCall ==
  ASSUME IInv, PendedInv, NEW t \in Tasks, Call(t)
  PROVE  PendedInv' /\ TickStep
<1> USE DEF frame, schedVars, wakeVars, timeVars, loopVars
<1>1. uxSchedulerSuspended \in Nat
  BY DEF IInv, TypeOK
<1>2. mode = "task" /\ mode' = "task"
  BY DEF Call, CallSuspendAll, CallResumeAll, CallCatchUpTicks, CallDelayUntil,
         DeleteSelf, CallDelay, CallWait, CallSignal, CallCreate, CallSuspend,
         vTaskResume, DeleteOther, Calling, At
<1>3. UNCHANGED <<xTickCount, xPendedTicks, xPendedCounts>>
  BY DEF Call, CallSuspendAll, CallResumeAll, CallCatchUpTicks, CallDelayUntil,
         DeleteSelf, CallDelay, CallWait, CallSignal, CallCreate, CallSuspend,
         vTaskResume, DeleteOther
<1>4. \/ uxSchedulerSuspended' = uxSchedulerSuspended
      \/ uxSchedulerSuspended' = uxSchedulerSuspended + 1
  BY DEF Call, CallSuspendAll, CallResumeAll, CallCatchUpTicks, CallDelayUntil,
         DeleteSelf, CallDelay, CallWait, CallSignal, CallCreate, CallSuspend,
         vTaskResume, DeleteOther, vTaskSuspendAll
<1>5. uxSchedulerSuspended' # 0 \/ uxSchedulerSuspended = 0
  BY <1>1, <1>4
<1>6. CASE uxSchedulerSuspended' # 0 \/ uxSchedulerSuspended' = 0
  BY <1>2, <1>3, <1>5, TicksSame
<1> QED BY <1>6

LEMMA TicksIdle ==
  ASSUME IInv, PendedInv, IdleLoop
  PROVE  PendedInv' /\ TickStep
BY TicksSame
   DEF IdleLoop, prvCheckTasksWaitingTermination, IdleShouldYield, At, frame,
       schedVars, wakeVars, timeVars, loopVars

(* No tick is lost or counted twice, over any number of wraps and nested    *)
(* suspensions, by a step that finds room for its ticks in xPendedTicks;    *)
(* whole turns of the tick count are told apart.  (xTaskIncrementTick,      *)
(* xTaskResumeAll, xTaskCatchUpTicks)                                       *)
THEOREM TicksAreCountedOnce == Spec => NoTickLost
<1>1. Init => PendedInv
  BY DEF Init, PendedInv
<1>2. IInv /\ PendedInv /\ [Next]_vars => PendedInv' /\ [TickStep]_vars
  <2> SUFFICES ASSUME IInv, PendedInv, [Next]_vars
               PROVE  PendedInv' /\ [TickStep]_vars
    OBVIOUS
  <2>1. CASE UNCHANGED vars
    <3>1. UNCHANGED <<mode, uxSchedulerSuspended, xPendedTicks, xPendedCounts>>
      BY <2>1 DEF vars, frame, schedVars, wakeVars, loopVars
    <3> QED BY <2>1, <3>1 DEF PendedInv
  <2>2. CASE Next
    BY <2>2, TicksMain, TicksInterrupt, TicksMasked, TicksContinue, TicksCall,
       TicksIdle DEF Next
  <2> QED BY <2>1, <2>2
<1>3. IInv /\ PendedInv =>
        (mode = "task" /\ uxSchedulerSuspended = 0 => xPendedTicks = 0)
  BY DEF IInv, SuspendInv, PendedInv
<1>4. TickStep =>
        \/ vTaskStartScheduler
        \/ xPendedTicks + TicksCome <= MaxDelay => TicksGained = TicksCome
  BY DEF TickStep
<1> QED BY <1>1, <1>2, <1>3, <1>4, InvariantHolds, PTL DEF Spec, NoTickLost
=============================================================================

----------------------- MODULE FreeRTOSTimersTheorems -----------------------
(***************************************************************************)
(* Theorems about FreeRTOSTimers, for any timers, periods and tick width.   *)
(*                                                                          *)
(* The inductive invariant relates what the daemon sees modulo TickValues   *)
(* to the time that never wraps: TimeInv bounds how far xLastTime is behind, *)
(* DueInv says what an item value in each list stands for, ExpiredInv where *)
(* the daemon is while it works on an expired timer, and MessageOK what the *)
(* tick count in a command stands for.                                      *)
(***************************************************************************)
EXTENDS FreeRTOSTimers, OrderedSequencesTheorems

(* What the operations of list.c do to a list of timers.                    *)

(* vListInsert adds the item and keeps the others, keeps a list free of     *)
(* duplicates and, the reason it exists, keeps a list in value order.       *)
LEMMA ListInsertProperties ==
  ASSUME NEW S, NEW list \in Seq(S), NEW value \in [S -> Int], NEW item \in S
  PROVE  LET new == vListInsert(list, value, item)
         IN  /\ new \in Seq(S)
             /\ Items(new) = Items(list) \union {item}
             /\ item \notin Items(list) /\ NoDuplicates(list) => NoDuplicates(new)
             /\ Sorted(list, value) => Sorted(new, value)
<1>1. PICK k \in 1..(Len(list) + 1) :
        /\ k = InsertPosition(list, value, value[item])
        /\ StopsAt(list, value, value[item], k)
  BY SearchStops DEF InsertPosition
<1>2. vListInsert(list, value, item) = InsertAt(list, k, item)
  BY <1>1 DEF vListInsert
<1> QED BY <1>1, <1>2, InsertAtProperties

(* uxListRemove takes the item out of its list, and only that.              *)
LEMMA ListRemoveProperties ==
  ASSUME NEW S, NEW list \in Seq(S), NEW value \in [S -> Int], NEW item,
         NoDuplicates(list)
  PROVE  LET new == uxListRemove(list, item)
         IN  /\ new \in Seq(S)
             /\ Items(new) = Items(list) \ {item}
             /\ NoDuplicates(new)
             /\ Sorted(list, value) => Sorted(new, value)
BY WithoutProperties DEF uxListRemove

-----------------------------------------------------------------------------
(* The time of the last sample, and the longest period there may be.        *)
SampleTime == sampleBase + xLastTime
MaxPeriod == MAX_TIME - MaxLate

(* The latest time, up to tick count `now' after time b, with this count.   *)
TimeOf(count, now, b) == IF count <= now THEN b + count ELSE b - TickValues + count

(* The daemon acts on the time it sampled.                                  *)
Processing == {"expire", "reload", "callback", "switch", "command"}

TypeInv ==
  /\ application \in Applications
  /\ created \subseteq Timers
  /\ xTimerQueue \in Seq(Command) /\ Len(xTimerQueue) <= QueueLength
  /\ xMessage \in Command \union {NULL}
  /\ posting \in [Clients -> Command \union {NULL}]
  /\ pxCurrentTimerList \in Seq(Timers) /\ pxOverflowTimerList \in Seq(Timers)
  /\ xItemValue \in [Timers -> 0..MAX_TIME]
  /\ xTimerPeriodInTicks \in [Timers -> Periods \union {0}]
  /\ ucStatus \in [Timers -> SUBSET Statuses]
  /\ xTickCount \in 0..MAX_TIME /\ xLastTime \in 0..MAX_TIME
  /\ base \in Nat /\ sampleBase \in Nat /\ since \in Nat
  /\ pc \in Labels /\ switching \in {"no", "query", "command"}
  /\ pxTimer \in Timers \union {NULL} /\ xExpiredTime \in 0..MAX_TIME
  /\ asleep \in BOOLEAN /\ wakeAt \in Nat \union {NULL}
  /\ cTxLock \in -1..QueueLength
  /\ due \in [Timers -> Nat]

ControlInv ==
  /\ pxTimer # NULL <=> pc \in {"reload", "callback"}
  /\ pc = "reload" => pxTimer \notin Listed
  /\ switching # "no" => pc \in {"switch", "reload", "callback"}
  /\ pc = "switch" => switching # "no"
  /\ xMessage # NULL <=> pc \in {"sample", "command"} \/ switching = "command"
  /\ xMessage # NULL => xMessage.timer \notin Listed /\ xMessage.timer # pxTimer

LockInv ==
  /\ asleep => pc \in {"unlock", "receive"}
  /\ cTxLock # queueUNLOCKED <=> pc \in {"place", "unlock"}
  /\ cTxLock <= Len(xTimerQueue)
  /\ (pc = "place" \/ asleep) /\ xTimerQueue # <<>> => cTxLock > 0
  /\ wakeAt # NULL => asleep

MessageOK(m) ==
  /\ m.timer \in created
  /\ m.id = "changePeriod" => m.value \in Periods
  /\ m.id = "start" =>
       /\ m.value <= MAX_TIME
       /\ m.at <= Now /\ Now <= m.at + MaxLate
       /\ m.at = TimeOf(m.value, xTickCount, base)

MessagesInv == \A m \in Outstanding \ {NULL} : MessageOK(m)

SampledInv ==
  xMessage # NULL /\ pc # "sample" /\ xMessage.id = "start" =>
    /\ xMessage.at <= SampleTime
    /\ xMessage.at = TimeOf(xMessage.value, xLastTime, sampleBase)

(* A command to delete a timer is the last one about it.                    *)
About(m, t) == m # NULL /\ m.timer = t

DeleteInv ==
  /\ \A i, j \in 1..Len(xTimerQueue) :
       i < j /\ xTimerQueue[i].id = "delete" =>
         xTimerQueue[j].timer # xTimerQueue[i].timer
  /\ \A i \in 1..Len(xTimerQueue), c \in Clients :
       xTimerQueue[i].id = "delete" => ~ About(posting[c], xTimerQueue[i].timer)
  /\ \A c, e \in Clients :
       c # e /\ posting[c] # NULL /\ posting[c].id = "delete" =>
         ~ About(posting[e], posting[c].timer)
  /\ xMessage # NULL /\ xMessage.id = "delete" =>
       /\ \A i \in 1..Len(xTimerQueue) : xTimerQueue[i].timer # xMessage.timer
       /\ \A c \in Clients : ~ About(posting[c], xMessage.timer)

CreatedInv ==
  /\ \A t \in created : xTimerPeriodInTicks[t] \in Periods
  /\ Listed \subseteq created
  /\ pxTimer # NULL => pxTimer \in created

ListsInv ==
  /\ Sorted(pxCurrentTimerList, xItemValue) /\ NoDuplicates(pxCurrentTimerList)
  /\ Sorted(pxOverflowTimerList, xItemValue) /\ NoDuplicates(pxOverflowTimerList)
  /\ Items(pxCurrentTimerList) \intersect Items(pxOverflowTimerList) = {}

DueInv ==
  /\ \A t \in Items(pxCurrentTimerList) : NextDue(t) = ListBase + xItemValue[t]
  /\ \A t \in Items(pxOverflowTimerList) :
       NextDue(t) = ListBase + TickValues + xItemValue[t]
  /\ \A t \in Listed : NextDue(t) <= SampleTime + MaxPeriod

ExpiredInv ==
  /\ pc = "reload" => due[pxTimer] = TimeOf(xExpiredTime, xTimeNow, ListBase)
  /\ pc = "callback" => due[pxTimer] <= SampleTime
  /\ pc = "expire" => /\ pxCurrentTimerList # <<>>
                      /\ xItemValue[Head(pxCurrentTimerList)] <= xLastTime
  /\ pc \in {"wait", "place"} /\ pxCurrentTimerList # <<>> =>
       xItemValue[Head(pxCurrentTimerList)] > xLastTime

TimeInv ==
  /\ SampleTime <= since /\ since <= Now
  /\ ~ asleep => Now <= since + MaxLate
  /\ Suspended => Now = SampleTime
  /\ pc \in Processing => since = SampleTime
  /\ Listed # {} \/ pc \in Processing =>
       /\ base = sampleBase \/ base = sampleBase + TickValues
       /\ ~ asleep => since <= SampleTime + MaxPeriod

SleepInv ==
  asleep =>
    \A t \in Listed : /\ wakeAt # NULL /\ Now < wakeAt
                      /\ wakeAt <= SampleTime + MaxPeriod /\ wakeAt <= due[t]

StatusInv ==
  /\ ActiveTimersAreListed
  /\ pc = "reload" => "ACTIVE" \in ucStatus[pxTimer]
  /\ pc = "callback" => (pxTimer \in Listed <=> "ACTIVE" \in ucStatus[pxTimer])

IInv ==
  /\ TypeInv /\ ControlInv /\ LockInv
  /\ MessagesInv /\ SampledInv /\ DeleteInv /\ CreatedInv
  /\ ListsInv /\ DueInv /\ ExpiredInv
  /\ TimeInv /\ SleepInv /\ StatusInv

-----------------------------------------------------------------------------
(* Constants.                                                               *)
LEMMA ConstantFacts ==
  /\ TickValues \in Nat /\ TickValues > 0 /\ MAX_TIME \in Nat /\ MAX_TIME = TickValues - 1
  /\ QueueLength \in Nat /\ QueueLength > 0
  /\ MaxLate \in 0..MAX_TIME /\ MaxPeriod \in 0..MAX_TIME
  /\ MaxPeriod = MAX_TIME - MaxLate
  /\ Periods \subseteq Nat /\ 0 \notin Periods
  /\ \A p \in Periods : 0 < p /\ p <= MaxPeriod /\ p < TickValues
  /\ NULL \notin Timers /\ NULL \notin Nat /\ NULL \notin Command
  /\ queueUNLOCKED = -1
<1>1. /\ TickValues \in Nat /\ TickValues > 0 /\ MAX_TIME = TickValues - 1
      /\ QueueLength \in Nat /\ QueueLength > 0
      /\ MaxLate \in 0..MAX_TIME /\ queueUNLOCKED = -1
      /\ Periods \subseteq Nat \ {0} /\ \A p \in Periods : p + MaxLate < TickValues
  BY ConstantsAssumption DEF MAX_TIME, queueUNLOCKED
<1>2. MaxPeriod \in 0..MAX_TIME /\ MaxPeriod = MAX_TIME - MaxLate
  BY <1>1 DEF MaxPeriod
<1>3. \A p \in Periods : 0 < p /\ p <= MaxPeriod /\ p < TickValues
  BY <1>1 DEF MaxPeriod
<1>4. NULL \notin Timers /\ NULL \notin Nat /\ NULL \notin Command
  BY ConstantsAssumption DEF Command
<1> QED
  BY <1>1, <1>2, <1>3, <1>4

LEMMA ModuloFacts ==
  ASSUME NEW w \in Nat, w > 0, NEW a \in 0..(w - 1), NEW b \in 0..(w - 1)
  PROVE  /\ (a + b) % w = IF a + b < w THEN a + b ELSE a + b - w
         /\ (a - b) % w = IF a >= b THEN a - b ELSE a - b + w
         /\ (a + b) % w \in 0..(w - 1)
OBVIOUS

(* prvInsertTimerInActiveList decides right: d is when the timer was started *)
(* or due last, as the tick count c; b + now is the time.                   *)
LEMMA DestinationIsRight ==
  ASSUME xTimerPeriodInTicks \in [Timers -> Periods \union {0}],
         NEW t \in Timers, xTimerPeriodInTicks[t] \in Periods,
         NEW c \in 0..MAX_TIME, NEW now \in 0..MAX_TIME, NEW b \in Int,
         NEW d, d = TimeOf(c, now, b),
         NEW next, next = (c + xTimerPeriodInTicks[t]) % TickValues,
         NEW where, where = Destination(t, next, now, c)
  PROVE  /\ next \in 0..MAX_TIME /\ where \in {"processNow", "current", "overflow"}
         /\ where = "processNow" => d + xTimerPeriodInTicks[t] = TimeOf(next, now, b)
         /\ where = "current" => d + xTimerPeriodInTicks[t] = b + next
         /\ where = "overflow" => d + xTimerPeriodInTicks[t] = b + TickValues + next
<1>1. PICK p : p = xTimerPeriodInTicks[t]
  OBVIOUS
<1>2. PICK w : w = TickValues
  OBVIOUS
<1>3. /\ w \in Nat /\ w > 0 /\ MAX_TIME = w - 1 /\ p \in 0..(w - 1) /\ p > 0
      /\ c \in 0..(w - 1) /\ now \in 0..(w - 1)
  BY <1>1, <1>2, ConstantFacts
<1>4. /\ next = IF c + p < w THEN c + p ELSE c + p - w
      /\ next \in 0..(w - 1)
      /\ (now - c) % w = IF now >= c THEN now - c ELSE now - c + w
  <2>1. next = (c + p) % w
    BY <1>1, <1>2
  <2>2. /\ (c + p) % w = IF c + p < w THEN c + p ELSE c + p - w
        /\ (c + p) % w \in 0..(w - 1)
    BY <1>3, ModuloFacts
  <2>3. (now - c) % w = IF now >= c THEN now - c ELSE now - c + w
    BY <1>3, ModuloFacts
  <2> QED
    BY <2>1, <2>2, <2>3
<1>5. PICK e : e = (now - c) % w
  OBVIOUS
<1>6. where = IF next <= now THEN IF e >= p THEN "processNow" ELSE "overflow"
              ELSE IF now < c /\ next >= c THEN "processNow" ELSE "current"
  BY <1>1, <1>2, <1>5 DEF Destination
<1>7. d = IF c <= now THEN b + c ELSE b - w + c
  BY <1>2 DEF TimeOf
<1>8. where \in {"processNow", "current", "overflow"}
  BY <1>6
<1>9. where = "processNow" => d + p = IF next <= now THEN b + next ELSE b - w + next
  BY <1>3, <1>4, <1>5, <1>6, <1>7
<1>10. where = "current" => d + p = b + next
  BY <1>3, <1>4, <1>5, <1>6, <1>7
<1>11. where = "overflow" => d + p = b + w + next
  BY <1>3, <1>4, <1>5, <1>6, <1>7
<1> QED
  BY <1>1, <1>2, <1>3, <1>4, <1>8, <1>9, <1>10, <1>11 DEF TimeOf

-----------------------------------------------------------------------------
(* The lists.                                                               *)

LEMMA RemoveTimerProperties ==
  ASSUME TypeInv, ListsInv, NEW t, RemoveTimer(t)
  PROVE  /\ pxCurrentTimerList' \in Seq(Timers) /\ pxOverflowTimerList' \in Seq(Timers)
         /\ Items(pxCurrentTimerList') = Items(pxCurrentTimerList) \ {t}
         /\ Items(pxOverflowTimerList') = Items(pxOverflowTimerList) \ {t}
         /\ Listed' = Listed \ {t}
         /\ xItemValue' = xItemValue => ListsInv'
<1>1. /\ xItemValue \in [Timers -> Int]
      /\ pxCurrentTimerList \in Seq(Timers) /\ pxOverflowTimerList \in Seq(Timers)
      /\ NoDuplicates(pxCurrentTimerList) /\ NoDuplicates(pxOverflowTimerList)
  BY ConstantFacts DEF TypeInv, ListsInv
<1>2. /\ pxCurrentTimerList' \in Seq(Timers)
      /\ Items(pxCurrentTimerList') = Items(pxCurrentTimerList) \ {t}
      /\ NoDuplicates(pxCurrentTimerList')
      /\ Sorted(pxCurrentTimerList, xItemValue) => Sorted(pxCurrentTimerList', xItemValue)
  BY <1>1, ListRemoveProperties DEF RemoveTimer
<1>3. /\ pxOverflowTimerList' \in Seq(Timers)
      /\ Items(pxOverflowTimerList') = Items(pxOverflowTimerList) \ {t}
      /\ NoDuplicates(pxOverflowTimerList')
      /\ Sorted(pxOverflowTimerList, xItemValue) => Sorted(pxOverflowTimerList', xItemValue)
  BY <1>1, ListRemoveProperties DEF RemoveTimer
<1> QED
  BY <1>2, <1>3 DEF ListsInv, Listed

LEMMA InsertTimerProperties ==
  ASSUME TypeInv, ListsInv, NEW t \in Timers, t \notin Listed,
         NEW next \in 0..MAX_TIME, NEW where, InsertTimer(t, next, where)
  PROVE  /\ xItemValue' \in [Timers -> 0..MAX_TIME] /\ xItemValue'[t] = next
         /\ \A u \in Timers : u # t => xItemValue'[u] = xItemValue[u]
         /\ pxCurrentTimerList' \in Seq(Timers) /\ pxOverflowTimerList' \in Seq(Timers)
         /\ Items(pxCurrentTimerList') =
              Items(pxCurrentTimerList) \union (IF where = "current" THEN {t} ELSE {})
         /\ Items(pxOverflowTimerList') =
              Items(pxOverflowTimerList) \union (IF where = "overflow" THEN {t} ELSE {})
         /\ Listed' = Listed \union (IF where \in {"current", "overflow"} THEN {t} ELSE {})
         /\ ListsInv'
<1> DEFINE value == [xItemValue EXCEPT ![t] = next]
<1>1. /\ xItemValue' = value
      /\ pxCurrentTimerList' =
           IF where = "current" THEN vListInsert(pxCurrentTimerList, value, t)
           ELSE pxCurrentTimerList
      /\ pxOverflowTimerList' =
           IF where = "overflow" THEN vListInsert(pxOverflowTimerList, value, t)
           ELSE pxOverflowTimerList
  BY DEF InsertTimer
<1>2. /\ value \in [Timers -> 0..MAX_TIME] /\ value[t] = next
      /\ \A u \in Timers : u # t => value[u] = xItemValue[u]
  BY DEF TypeInv
<1> HIDE DEF value
<1>3. value \in [Timers -> Int]
  BY <1>2, ConstantFacts
<1>4. /\ pxCurrentTimerList \in Seq(Timers) /\ pxOverflowTimerList \in Seq(Timers)
      /\ t \notin Items(pxCurrentTimerList) /\ t \notin Items(pxOverflowTimerList)
  BY DEF TypeInv, Listed
<1>5. Items(pxCurrentTimerList) \subseteq Timers /\ Items(pxOverflowTimerList) \subseteq Timers
  BY <1>4, ItemsTyped
<1>6. Sorted(pxCurrentTimerList, value) /\ Sorted(pxOverflowTimerList, value)
  <2>1. \A u \in Items(pxCurrentTimerList) : xItemValue[u] = value[u]
    BY <1>2, <1>4, <1>5
  <2>2. \A u \in Items(pxOverflowTimerList) : xItemValue[u] = value[u]
    BY <1>2, <1>4, <1>5
  <2> QED
    BY <2>1, <2>2, SortedByItems DEF ListsInv
<1>7. /\ pxCurrentTimerList' \in Seq(Timers)
      /\ Items(pxCurrentTimerList') =
           Items(pxCurrentTimerList) \union (IF where = "current" THEN {t} ELSE {})
      /\ NoDuplicates(pxCurrentTimerList') /\ Sorted(pxCurrentTimerList', value)
  BY <1>1, <1>3, <1>4, <1>6, ListInsertProperties DEF ListsInv
<1>8. /\ pxOverflowTimerList' \in Seq(Timers)
      /\ Items(pxOverflowTimerList') =
           Items(pxOverflowTimerList) \union (IF where = "overflow" THEN {t} ELSE {})
      /\ NoDuplicates(pxOverflowTimerList') /\ Sorted(pxOverflowTimerList', value)
  BY <1>1, <1>3, <1>4, <1>6, ListInsertProperties DEF ListsInv
<1>9. Items(pxCurrentTimerList') \intersect Items(pxOverflowTimerList') = {}
  BY <1>4, <1>7, <1>8 DEF ListsInv
<1> QED
  BY <1>1, <1>2, <1>7, <1>8, <1>9 DEF ListsInv, Listed

-----------------------------------------------------------------------------
(* What each part of the invariant depends on.                              *)

LEMMA ControlFrame ==
  ASSUME ControlInv,
         UNCHANGED <<pc, pxTimer, switching, xMessage, pxCurrentTimerList,
                     pxOverflowTimerList>>
  PROVE  ControlInv'
BY DEF ControlInv, Listed

LEMMA LockFrame ==
  ASSUME LockInv, UNCHANGED <<asleep, wakeAt, pc, cTxLock, xTimerQueue>>
  PROVE  LockInv'
BY DEF LockInv

LEMMA MessagesFrame ==
  ASSUME MessagesInv, UNCHANGED <<xTickCount, base>>, created \subseteq created',
         Outstanding' \subseteq Outstanding
  PROVE  MessagesInv'
BY DEF MessagesInv, MessageOK, Now, TimeOf

LEMMA SampledFrame ==
  ASSUME SampledInv, UNCHANGED <<xMessage, pc, xLastTime, sampleBase>>
  PROVE  SampledInv'
BY DEF SampledInv, SampleTime, TimeOf

LEMMA DeleteFrame ==
  ASSUME DeleteInv, UNCHANGED <<xTimerQueue, posting, xMessage>>
  PROVE  DeleteInv'
BY DEF DeleteInv, About

LEMMA CreatedFrame ==
  ASSUME CreatedInv,
         UNCHANGED <<created, xTimerPeriodInTicks, pxCurrentTimerList,
                     pxOverflowTimerList, pxTimer>>
  PROVE  CreatedInv'
BY DEF CreatedInv, Listed

LEMMA ListsFrame ==
  ASSUME ListsInv, UNCHANGED <<pxCurrentTimerList, pxOverflowTimerList, xItemValue>>
  PROVE  ListsInv'
BY DEF ListsInv

LEMMA DueFrame ==
  ASSUME DueInv,
         UNCHANGED <<pxCurrentTimerList, pxOverflowTimerList, xItemValue, due, pc,
                     pxTimer, switching, sampleBase, xLastTime>>,
         \A t \in Listed : xTimerPeriodInTicks'[t] = xTimerPeriodInTicks[t]
  PROVE  DueInv'
BY DEF DueInv, NextDue, ListBase, SampleTime, Listed

LEMMA ExpiredFrame ==
  ASSUME ExpiredInv,
         UNCHANGED <<pc, due, pxTimer, xExpiredTime, switching, sampleBase, xLastTime,
                     pxCurrentTimerList, xItemValue>>
  PROVE  ExpiredInv'
BY DEF ExpiredInv, TimeOf, xTimeNow, ListBase, SampleTime

LEMMA TimeFrame ==
  ASSUME TimeInv,
         UNCHANGED <<xLastTime, sampleBase, since, xTickCount, base, asleep, pc,
                     switching, pxCurrentTimerList, pxOverflowTimerList>>
  PROVE  TimeInv'
BY DEF TimeInv, SampleTime, Now, Suspended, Listed

LEMMA SleepFrame ==
  ASSUME SleepInv,
         UNCHANGED <<asleep, wakeAt, pxCurrentTimerList, pxOverflowTimerList,
                     xTickCount, base, xLastTime, sampleBase, due>>
  PROVE  SleepInv'
BY DEF SleepInv, Now, SampleTime, Listed

LEMMA StatusFrame ==
  ASSUME StatusInv,
         UNCHANGED <<pxCurrentTimerList, pxOverflowTimerList, created, pxTimer,
                     xMessage, pc>>,
         \A t \in Timers : "ACTIVE" \in ucStatus'[t] <=> "ACTIVE" \in ucStatus[t],
         TypeInv, ControlInv
  PROVE  StatusInv'
<1>1. ActiveTimersAreListed'
  BY DEF StatusInv, ActiveTimersAreListed, Listed
<1>2. pc \in {"reload", "callback"} => pxTimer \in Timers
  BY DEF TypeInv, ControlInv
<1> QED
  BY <1>1, <1>2 DEF StatusInv, Listed

-----------------------------------------------------------------------------
LEMMA EmptyItems == Items(<<>>) = {}
BY DEF Items

LEMMA InitInv == Init => IInv
<1> SUFFICES ASSUME Init PROVE IInv
  OBVIOUS
<1>1. TypeInv
  <2>1. /\ xTimerQueue \in Seq(Command) /\ Len(xTimerQueue) <= QueueLength
        /\ pxCurrentTimerList \in Seq(Timers) /\ pxOverflowTimerList \in Seq(Timers)
    BY ConstantFacts DEF Init
  <2>2. /\ xItemValue \in [Timers -> 0..MAX_TIME]
        /\ xTimerPeriodInTicks \in [Timers -> Periods \union {0}]
        /\ xTickCount \in 0..MAX_TIME /\ xLastTime \in 0..MAX_TIME
        /\ xExpiredTime \in 0..MAX_TIME /\ cTxLock \in -1..QueueLength
    BY ConstantFacts DEF Init
  <2> QED
    BY <2>1, <2>2 DEF Init, TypeInv, Labels, Statuses
<1>2. Listed = {} /\ Items(pxCurrentTimerList) = {} /\ Items(pxOverflowTimerList) = {}
  BY EmptyItems DEF Init, Listed
<1>3. ControlInv /\ LockInv
  BY <1>2, ConstantFacts DEF Init, ControlInv, LockInv
<1>4. Outstanding \subseteq {NULL}
  BY EmptyItems DEF Outstanding, Init
<1>5. MessagesInv /\ SampledInv /\ DeleteInv
  BY <1>4 DEF Init, MessagesInv, SampledInv, DeleteInv, About
<1>6. CreatedInv
  BY <1>2 DEF Init, CreatedInv
<1>7. ListsInv
  BY <1>2 DEF Init, ListsInv, Sorted, NoDuplicates
<1>8. DueInv /\ SleepInv
  BY <1>2 DEF Init, DueInv, SleepInv
<1>9. ExpiredInv
  BY DEF Init, ExpiredInv
<1>10. TimeInv
  BY <1>2, ConstantFacts DEF Init, TimeInv, SampleTime, Now, Suspended, Processing
<1>11. StatusInv
  BY <1>2 DEF Init, StatusInv, ActiveTimersAreListed
<1> QED
  BY <1>1, <1>3, <1>5, <1>6, <1>7, <1>8, <1>9, <1>10, <1>11 DEF IInv

-----------------------------------------------------------------------------
(* The clients.                                                             *)

LEMMA CreateInv ==
  ASSUME IInv, UNCHANGED application, NEW t \in Timers, xTimerCreate(t)
  PROVE  IInv'
<1>1. PICK p \in Periods, mode \in Modes :
        /\ xTimerPeriodInTicks' = [xTimerPeriodInTicks EXCEPT ![t] = p]
        /\ ucStatus' = [ucStatus EXCEPT ![t] = mode]
  BY DEF xTimerCreate
<1>2. /\ t \notin created /\ created' = created \union {t}
      /\ UNCHANGED <<xTimerQueue, pxCurrentTimerList, pxOverflowTimerList, xItemValue,
                     xTickCount, base, xLastTime, sampleBase, since, pc, switching,
                     pxTimer, xExpiredTime, xMessage, asleep, wakeAt, cTxLock, posting, due>>
  BY DEF xTimerCreate, lists, ticks, sampled, expiry, sleep
<1>3. t \notin Listed /\ (t # pxTimer \/ pxTimer = NULL) /\ t # NULL
  BY <1>2, ConstantFacts DEF IInv, CreatedInv
<1>4. /\ xTimerPeriodInTicks'[t] = p /\ ucStatus'[t] = mode
      /\ \A u \in Timers : u # t => /\ xTimerPeriodInTicks'[u] = xTimerPeriodInTicks[u]
                                    /\ ucStatus'[u] = ucStatus[u]
  BY <1>1 DEF IInv, TypeInv
<1>5. TypeInv'
  BY <1>1, <1>2 DEF IInv, TypeInv, Modes, Statuses
<1>6. ControlInv' /\ LockInv' /\ SampledInv' /\ DeleteInv' /\ ListsInv' /\ ExpiredInv'
      /\ TimeInv' /\ SleepInv'
  BY <1>2, ControlFrame, LockFrame, SampledFrame, DeleteFrame, ListsFrame, ExpiredFrame,
     TimeFrame, SleepFrame DEF IInv
<1>7. MessagesInv'
  <2>1. Outstanding' = Outstanding
    BY <1>2 DEF Outstanding
  <2> QED
    BY <1>2, <2>1, MessagesFrame DEF IInv
<1>8. CreatedInv'
  BY <1>2, <1>4 DEF IInv, TypeInv, CreatedInv, Listed
<1>9. DueInv'
  <2>1. \A u \in Listed : xTimerPeriodInTicks'[u] = xTimerPeriodInTicks[u]
    BY <1>3, <1>4 DEF IInv, CreatedInv, TypeInv
  <2> QED
    BY <1>2, <2>1, DueFrame DEF IInv
<1>10. StatusInv'
  <2>1. "ACTIVE" \notin mode
    BY DEF Modes
  <2>2. ActiveTimersAreListed'
    BY <1>2, <1>3, <1>4, <2>1 DEF IInv, StatusInv, ActiveTimersAreListed, Listed
  <2>3. pxTimer # NULL => ucStatus'[pxTimer] = ucStatus[pxTimer]
    BY <1>3, <1>4 DEF IInv, TypeInv
  <2>4. pc \in {"reload", "callback"} => pxTimer # NULL
    BY DEF IInv, ControlInv
  <2> QED
    BY <1>2, <2>2, <2>3, <2>4 DEF IInv, StatusInv, Listed
<1> QED
  BY <1>5, <1>6, <1>7, <1>8, <1>9, <1>10 DEF IInv

LEMMA SetReloadModeInv ==
  ASSUME IInv, UNCHANGED application, NEW t \in Timers, vTimerSetReloadMode(t)
  PROVE  IInv'
<1>1. PICK mode \in application.modes :
        ucStatus' = [ucStatus EXCEPT ![t] = (@ \ {"AUTORELOAD"}) \union mode]
  BY DEF vTimerSetReloadMode
<1>2. UNCHANGED <<created, xTimerPeriodInTicks,
                  xTimerQueue, pxCurrentTimerList, pxOverflowTimerList, xItemValue,
                  xTickCount, base, xLastTime, sampleBase, since, pc, switching,
                  pxTimer, xExpiredTime, xMessage, asleep, wakeAt, cTxLock, posting, due>>
  BY DEF vTimerSetReloadMode, lists, ticks, sampled, expiry, sleep
<1>3. mode \in Modes
  BY ConstantsAssumption DEF IInv, TypeInv
<1>4. /\ ucStatus' \in [Timers -> SUBSET Statuses]
      /\ \A u \in Timers : "ACTIVE" \in ucStatus'[u] <=> "ACTIVE" \in ucStatus[u]
  BY <1>1, <1>3 DEF IInv, TypeInv, Modes, Statuses
<1>5. TypeInv'
  BY <1>2, <1>4 DEF IInv, TypeInv
<1>6. ControlInv' /\ LockInv' /\ SampledInv' /\ DeleteInv' /\ ListsInv' /\ ExpiredInv'
      /\ TimeInv' /\ SleepInv' /\ CreatedInv' /\ DueInv'
  BY <1>2, ControlFrame, LockFrame, SampledFrame, DeleteFrame, ListsFrame, ExpiredFrame,
     TimeFrame, SleepFrame, CreatedFrame, DueFrame DEF IInv
<1>7. MessagesInv'
  <2>1. Outstanding' = Outstanding
    BY <1>2 DEF Outstanding
  <2> QED
    BY <1>2, <2>1, MessagesFrame DEF IInv
<1>8. StatusInv'
  BY <1>2, <1>4, StatusFrame DEF IInv
<1> QED
  BY <1>5, <1>6, <1>7, <1>8 DEF IInv

(* A command that is prepared now.                                          *)
LEMMA CommandsProperties ==
  ASSUME TypeInv, CreatedInv, NEW ids, NEW m \in Commands(ids)
  PROVE  /\ m \in Command /\ m.id \in ids /\ m.timer \in Usable
         /\ MessageOK(m)
         /\ m.id = "delete" =>
              \A c \in Clients : posting[c] # NULL => posting[c].timer # m.timer
<1>1. /\ m.id \in ids
      /\ \/ \E t \in Usable : m = Message("start", t, xTickCount, Now)
         \/ \E t \in Usable, p \in Periods : m = Message("changePeriod", t, p, 0)
         \/ \E id \in {"stop", "delete"}, t \in Usable : m = Message(id, t, 0, 0)
      /\ m.id = "delete" =>
           \A c \in Clients : posting[c] # NULL => posting[c].timer # m.timer
  BY DEF Commands
<1>2. Usable \subseteq created /\ Usable \subseteq Timers
  BY DEF Usable, TypeInv
<1>3. /\ xTickCount \in Nat /\ xTickCount <= MAX_TIME /\ Now \in Nat /\ MaxLate \in Nat
      /\ Now = TimeOf(xTickCount, xTickCount, base)
  BY ConstantFacts DEF TypeInv, Now, TimeOf
<1>4. CASE \E t \in Usable : m = Message("start", t, xTickCount, Now)
  BY <1>1, <1>2, <1>3, <1>4 DEF Message, Command, CommandIDs, MessageOK
<1>5. CASE \E t \in Usable, p \in Periods : m = Message("changePeriod", t, p, 0)
  BY <1>1, <1>2, <1>5, ConstantFacts DEF Message, Command, CommandIDs, MessageOK
<1>6. CASE \E id \in {"stop", "delete"}, t \in Usable : m = Message(id, t, 0, 0)
  BY <1>1, <1>2, <1>6 DEF Message, Command, CommandIDs, MessageOK
<1> QED
  BY <1>1, <1>4, <1>5, <1>6

(* A timer that is usable has no command to delete it under way.            *)
LEMMA UsableProperties ==
  ASSUME TypeInv, NEW t \in Usable
  PROVE  /\ \A i \in 1..Len(xTimerQueue) :
              xTimerQueue[i].id = "delete" => xTimerQueue[i].timer # t
         /\ \A c \in Clients : posting[c] # NULL /\ posting[c].id = "delete" =>
              posting[c].timer # t
         /\ xMessage # NULL /\ xMessage.id = "delete" => xMessage.timer # t
<1>1. \A i \in 1..Len(xTimerQueue) : xTimerQueue[i] \in Outstanding \ {NULL}
  <2>1. \A i \in 1..Len(xTimerQueue) : xTimerQueue[i] \in Command
    BY ElementOfSeq DEF TypeInv
  <2> QED
    BY <2>1, ConstantFacts DEF Outstanding, Items
<1> QED
  BY <1>1 DEF Usable, Outstanding

LEMMA PrepareInv ==
  ASSUME IInv, UNCHANGED application, NEW c \in Clients, Prepare(c)
  PROVE  IInv'
<1>1. PICK m \in Commands(application.taskCommands) : posting' = [posting EXCEPT ![c] = m]
  BY DEF Prepare
<1>2. UNCHANGED <<xTimerQueue, pxCurrentTimerList, pxOverflowTimerList, created,
                  xItemValue, xTimerPeriodInTicks, ucStatus, xTickCount, base, xLastTime,
                  sampleBase, since, pc, switching, pxTimer, xExpiredTime, xMessage,
                  asleep, wakeAt, cTxLock, due>>
  BY DEF Prepare, lists, fields, ticks, sampled, expiry, sleep
<1>3. /\ m \in Command /\ m.timer \in Usable /\ MessageOK(m)
      /\ m.id = "delete" =>
           \A e \in Clients : posting[e] # NULL => posting[e].timer # m.timer
  BY <1>1, CommandsProperties DEF IInv
<1>4. /\ posting' \in [Clients -> Command \union {NULL}]
      /\ posting'[c] = m /\ \A e \in Clients : e # c => posting'[e] = posting[e]
  BY <1>1, <1>3 DEF IInv, TypeInv
<1>5. TypeInv'
  BY <1>2, <1>4 DEF IInv, TypeInv
<1>6. ControlInv' /\ LockInv' /\ SampledInv' /\ ListsInv' /\ ExpiredInv'
      /\ TimeInv' /\ SleepInv' /\ CreatedInv' /\ DueInv' /\ StatusInv'
  BY <1>2, ControlFrame, LockFrame, SampledFrame, ListsFrame, ExpiredFrame,
     TimeFrame, SleepFrame, CreatedFrame, DueFrame, StatusFrame DEF IInv
<1>7. MessagesInv'
  <2>1. Outstanding' \subseteq Outstanding \union {m}
    BY <1>2, <1>4 DEF Outstanding
  <2> QED
    BY <1>2, <1>3, <2>1 DEF IInv, MessagesInv, MessageOK, Now, TimeOf
<1>8. DeleteInv'
  <2>1. /\ \A i \in 1..Len(xTimerQueue) :
             xTimerQueue[i].id = "delete" => xTimerQueue[i].timer # m.timer
        /\ \A e \in Clients : posting[e] # NULL /\ posting[e].id = "delete" =>
             posting[e].timer # m.timer
        /\ xMessage # NULL /\ xMessage.id = "delete" => xMessage.timer # m.timer
    BY <1>3, UsableProperties DEF IInv
  <2>2. \A i \in 1..Len(xTimerQueue), e \in Clients :
          xTimerQueue[i].id = "delete" => ~ About(posting'[e], xTimerQueue[i].timer)
    BY <1>4, <2>1 DEF IInv, DeleteInv, About
  <2>3. \A d, e \in Clients :
          d # e /\ posting'[d] # NULL /\ posting'[d].id = "delete" =>
            ~ About(posting'[e], posting'[d].timer)
    BY <1>3, <1>4, <2>1 DEF IInv, DeleteInv, About
  <2>4. xMessage # NULL /\ xMessage.id = "delete" =>
          \A e \in Clients : ~ About(posting'[e], xMessage.timer)
    BY <1>4, <2>1 DEF IInv, DeleteInv, About
  <2> QED
    BY <1>2, <2>2, <2>3, <2>4 DEF IInv, DeleteInv
<1> QED
  BY <1>5, <1>6, <1>7, <1>8 DEF IInv

(* A client gives up.                                                       *)
LEMMA CommandFailsInv ==
  ASSUME IInv, UNCHANGED application, NEW c \in Clients, CommandFails(c)
  PROVE  IInv'
<1>1. /\ posting' = [posting EXCEPT ![c] = NULL]
      /\ UNCHANGED <<xTimerQueue, pxCurrentTimerList, pxOverflowTimerList, created,
                     xItemValue, xTimerPeriodInTicks, ucStatus, xTickCount, base,
                     xLastTime, sampleBase, since, pc, switching, pxTimer, xExpiredTime,
                     xMessage, asleep, wakeAt, cTxLock, due>>
  BY DEF CommandFails, lists, fields, ticks, sampled, expiry, sleep
<1>2. /\ posting' \in [Clients -> Command \union {NULL}]
      /\ posting'[c] = NULL /\ \A e \in Clients : e # c => posting'[e] = posting[e]
  BY <1>1 DEF IInv, TypeInv
<1>3. TypeInv'
  BY <1>1, <1>2 DEF IInv, TypeInv
<1>4. ControlInv' /\ LockInv' /\ SampledInv' /\ ListsInv' /\ ExpiredInv'
      /\ TimeInv' /\ SleepInv' /\ CreatedInv' /\ DueInv' /\ StatusInv'
  BY <1>1, ControlFrame, LockFrame, SampledFrame, ListsFrame, ExpiredFrame,
     TimeFrame, SleepFrame, CreatedFrame, DueFrame, StatusFrame DEF IInv
<1>5. MessagesInv'
  <2>1. Outstanding' \ {NULL} \subseteq Outstanding \ {NULL}
    BY <1>1, <1>2 DEF Outstanding
  <2> QED
    BY <1>1, <2>1 DEF IInv, MessagesInv, MessageOK, Now, TimeOf
<1>6. DeleteInv'
  BY <1>1, <1>2 DEF IInv, DeleteInv, About
<1> QED
  BY <1>3, <1>4, <1>5, <1>6 DEF IInv

(* A command is posted: the daemon is woken or will be.                     *)
LEMMA SendProperties ==
  ASSUME IInv, NEW m \in Command, Len(xTimerQueue) < QueueLength, Send(m),
         UNCHANGED <<pc, switching, xTickCount, base, xLastTime, sampleBase,
                     pxCurrentTimerList, pxOverflowTimerList, due>>
  PROVE  /\ xTimerQueue' \in Seq(Command) /\ Len(xTimerQueue') = Len(xTimerQueue) + 1
         /\ \A i \in 1..Len(xTimerQueue) : xTimerQueue'[i] = xTimerQueue[i]
         /\ xTimerQueue'[Len(xTimerQueue) + 1] = m
         /\ Items(xTimerQueue') = Items(xTimerQueue) \union {m}
         /\ asleep' \in BOOLEAN /\ wakeAt' \in Nat \union {NULL} /\ since' \in Nat
         /\ cTxLock' \in -1..QueueLength
         /\ LockInv' /\ TimeInv' /\ SleepInv'
<1>1. xTimerQueue' = Append(xTimerQueue, m) /\ xTimerQueue \in Seq(Command)
  BY DEF Send, IInv, TypeInv
<1>2. /\ xTimerQueue' \in Seq(Command) /\ Len(xTimerQueue') = Len(xTimerQueue) + 1
      /\ \A i \in 1..Len(xTimerQueue) : xTimerQueue'[i] = xTimerQueue[i]
      /\ xTimerQueue'[Len(xTimerQueue) + 1] = m
      /\ xTimerQueue' # <<>>
  BY <1>1, AppendProperties
<1>3. Items(xTimerQueue') = Items(xTimerQueue) \union {m}
  BY <1>1, AppendKeepsItems
<1>4. /\ Len(xTimerQueue) \in Nat /\ QueueLength \in Nat
      /\ cTxLock \in -1..QueueLength /\ cTxLock <= Len(xTimerQueue)
      /\ cTxLock # -1 <=> pc \in {"place", "unlock"}
      /\ asleep => pc \in {"unlock", "receive"}
      /\ asleep \in BOOLEAN /\ wakeAt \in Nat \union {NULL} /\ since \in Nat
      /\ Now \in Nat /\ SampleTime \in Nat /\ MaxPeriod \in Nat /\ MaxLate \in Nat
      /\ wakeAt # NULL => asleep
  BY <1>1, ConstantFacts DEF IInv, TypeInv, LockInv, Now, SampleTime
<1>5. CASE cTxLock # -1
  <2>1. cTxLock' = cTxLock + 1 /\ UNCHANGED <<asleep, wakeAt, since>>
    BY <1>5, ConstantFacts DEF Send, sleep
  <2>2. LockInv'
    BY <1>2, <1>4, <1>5, <2>1, ConstantFacts DEF LockInv
  <2> QED
    BY <1>2, <1>3, <1>4, <2>1, <2>2, TimeFrame, SleepFrame DEF IInv
<1>6. CASE cTxLock = -1
  <2>1. /\ asleep' = FALSE /\ wakeAt' = NULL /\ cTxLock' = cTxLock
        /\ since' = IF asleep THEN Now ELSE since
    BY <1>6, ConstantFacts DEF Send
  <2>2. LockInv'
    BY <1>2, <1>4, <1>6, <2>1, ConstantFacts DEF LockInv
  <2>3. SleepInv'
    BY <2>1 DEF SleepInv
  <2>4. /\ Now' = Now /\ SampleTime' = SampleTime /\ Suspended' = Suspended
        /\ Listed' = Listed
    BY DEF Now, SampleTime, Suspended, Listed
  <2>5. /\ SampleTime <= since /\ since <= Now
        /\ ~ asleep => Now <= since + MaxLate
        /\ Suspended => Now = SampleTime
        /\ pc \in Processing => since = SampleTime
        /\ Listed # {} \/ pc \in Processing =>
             /\ base = sampleBase \/ base = sampleBase + TickValues
             /\ ~ asleep => since <= SampleTime + MaxPeriod
    BY DEF IInv, TimeInv
  <2>6. asleep /\ Listed # {} => Now <= SampleTime + MaxPeriod
    BY <1>4 DEF IInv, SleepInv
  <2>7. asleep => pc \notin Processing
    BY <1>4 DEF Processing
  <2>8. /\ SampleTime <= since' /\ since' <= Now /\ since' \in Nat
        /\ Now <= since' + MaxLate
        /\ pc \in Processing => since' = SampleTime
        /\ Listed # {} \/ pc \in Processing => since' <= SampleTime + MaxPeriod
    BY <1>4, <2>1, <2>5, <2>6, <2>7
  <2>9. TimeInv'
    BY <2>1, <2>4, <2>5, <2>8 DEF TimeInv
  <2> QED
    BY <1>2, <1>3, <1>4, <2>1, <2>2, <2>3, <2>8, <2>9
<1> QED
  BY <1>5, <1>6

LEMMA PostInv ==
  ASSUME IInv, UNCHANGED application, NEW c \in Clients, xTimerGenericCommandFromTask(c)
  PROVE  IInv'
<1>1. /\ posting[c] # NULL /\ Len(xTimerQueue) < QueueLength /\ Send(posting[c])
      /\ posting' = [posting EXCEPT ![c] = NULL]
      /\ UNCHANGED <<pxCurrentTimerList, pxOverflowTimerList, created, xItemValue,
                     xTimerPeriodInTicks, ucStatus, xTickCount, base, xLastTime,
                     sampleBase, pc, switching, pxTimer, xExpiredTime, xMessage, due>>
  BY DEF xTimerGenericCommandFromTask, lists, fields, ticks, expiry
<1>2. posting[c] \in Command
  BY <1>1 DEF IInv, TypeInv
<1>3. PICK m \in Command : m = posting[c]
  BY <1>2
<1>4. /\ xTimerQueue' \in Seq(Command) /\ Len(xTimerQueue') = Len(xTimerQueue) + 1
      /\ \A i \in 1..Len(xTimerQueue) : xTimerQueue'[i] = xTimerQueue[i]
      /\ xTimerQueue'[Len(xTimerQueue) + 1] = m
      /\ Items(xTimerQueue') = Items(xTimerQueue) \union {m}
      /\ asleep' \in BOOLEAN /\ wakeAt' \in Nat \union {NULL} /\ since' \in Nat
      /\ cTxLock' \in -1..QueueLength
      /\ LockInv' /\ TimeInv' /\ SleepInv'
  BY <1>1, <1>3, SendProperties
<1>5. /\ posting' \in [Clients -> Command \union {NULL}]
      /\ posting'[c] = NULL /\ \A e \in Clients : e # c => posting'[e] = posting[e]
  BY <1>1 DEF IInv, TypeInv
<1>6. Len(xTimerQueue) \in Nat /\ QueueLength \in Nat
  BY ConstantFacts DEF IInv, TypeInv
<1>7. TypeInv'
  BY <1>1, <1>4, <1>5, <1>6 DEF IInv, TypeInv
<1>8. ControlInv' /\ SampledInv' /\ ListsInv' /\ ExpiredInv' /\ CreatedInv' /\ DueInv'
      /\ StatusInv'
  BY <1>1, ControlFrame, SampledFrame, ListsFrame, ExpiredFrame, CreatedFrame, DueFrame,
     StatusFrame DEF IInv
<1>9. MessagesInv'
  <2>1. Outstanding' \ {NULL} \subseteq Outstanding \ {NULL}
    BY <1>1, <1>3, <1>4, <1>5 DEF Outstanding
  <2> QED
    BY <1>1, <2>1 DEF IInv, MessagesInv, MessageOK, Now, TimeOf
<1>10. DeleteInv'
  <2>1. \A i \in 1..Len(xTimerQueue') :
          \/ i \in 1..Len(xTimerQueue) /\ xTimerQueue'[i] = xTimerQueue[i]
          \/ i = Len(xTimerQueue) + 1 /\ xTimerQueue'[i] = m
    BY <1>4, <1>6
  <2>2. /\ \A i \in 1..Len(xTimerQueue) :
             xTimerQueue[i].id = "delete" => m.timer # xTimerQueue[i].timer
        /\ m.id = "delete" => \A e \in Clients \ {c} : ~ About(posting[e], m.timer)
        /\ xMessage # NULL /\ xMessage.id = "delete" => m.timer # xMessage.timer
    BY <1>1, <1>3 DEF IInv, DeleteInv, About
  <2>3. \A i, j \in 1..Len(xTimerQueue') :
          i < j /\ xTimerQueue'[i].id = "delete" =>
            xTimerQueue'[j].timer # xTimerQueue'[i].timer
    <3> SUFFICES ASSUME NEW i \in 1..Len(xTimerQueue'), NEW j \in 1..Len(xTimerQueue'),
                        i < j, xTimerQueue'[i].id = "delete"
                 PROVE  xTimerQueue'[j].timer # xTimerQueue'[i].timer
      OBVIOUS
    <3>1. i \in 1..Len(xTimerQueue) /\ xTimerQueue'[i] = xTimerQueue[i]
      BY <1>4, <1>6, <2>1
    <3> QED
      BY <2>1, <2>2, <3>1 DEF IInv, DeleteInv
  <2>4. \A i \in 1..Len(xTimerQueue'), e \in Clients :
          xTimerQueue'[i].id = "delete" => ~ About(posting'[e], xTimerQueue'[i].timer)
    BY <1>5, <2>1, <2>2 DEF IInv, DeleteInv, About
  <2>5. \A d, e \in Clients :
          d # e /\ posting'[d] # NULL /\ posting'[d].id = "delete" =>
            ~ About(posting'[e], posting'[d].timer)
    BY <1>5 DEF IInv, DeleteInv, About
  <2>6. xMessage' # NULL /\ xMessage'.id = "delete" =>
          /\ \A i \in 1..Len(xTimerQueue') : xTimerQueue'[i].timer # xMessage'.timer
          /\ \A e \in Clients : ~ About(posting'[e], xMessage'.timer)
    BY <1>1, <1>5, <2>1, <2>2 DEF IInv, DeleteInv, About
  <2> QED
    BY <2>3, <2>4, <2>5, <2>6 DEF DeleteInv
<1> QED
  BY <1>4, <1>7, <1>8, <1>9, <1>10 DEF IInv

LEMMA PostFromISRInv ==
  ASSUME IInv, UNCHANGED application, xTimerGenericCommandFromISR
  PROVE  IInv'
<1>1. PICK m \in Commands(application.isrCommands) : Send(m)
  BY DEF xTimerGenericCommandFromISR
<1>2. /\ Len(xTimerQueue) < QueueLength
      /\ UNCHANGED <<pxCurrentTimerList, pxOverflowTimerList, created, xItemValue,
                     xTimerPeriodInTicks, ucStatus, xTickCount, base, xLastTime, posting,
                     sampleBase, pc, switching, pxTimer, xExpiredTime, xMessage, due>>
  BY DEF xTimerGenericCommandFromISR, lists, fields, ticks, expiry
<1>3. m \in Command /\ m.timer \in Usable /\ MessageOK(m) /\ m.id # "delete"
  <2>1. "delete" \notin application.isrCommands
    BY ConstantsAssumption DEF IInv, TypeInv
  <2> QED
    BY <1>1, <2>1, CommandsProperties DEF IInv
<1>4. /\ xTimerQueue' \in Seq(Command) /\ Len(xTimerQueue') = Len(xTimerQueue) + 1
      /\ \A i \in 1..Len(xTimerQueue) : xTimerQueue'[i] = xTimerQueue[i]
      /\ xTimerQueue'[Len(xTimerQueue) + 1] = m
      /\ Items(xTimerQueue') = Items(xTimerQueue) \union {m}
      /\ asleep' \in BOOLEAN /\ wakeAt' \in Nat \union {NULL} /\ since' \in Nat
      /\ cTxLock' \in -1..QueueLength
      /\ LockInv' /\ TimeInv' /\ SleepInv'
  BY <1>1, <1>2, <1>3, SendProperties
<1>5. Len(xTimerQueue) \in Nat /\ QueueLength \in Nat
  BY ConstantFacts DEF IInv, TypeInv
<1>6. TypeInv'
  BY <1>2, <1>4, <1>5 DEF IInv, TypeInv
<1>7. ControlInv' /\ SampledInv' /\ ListsInv' /\ ExpiredInv' /\ CreatedInv' /\ DueInv'
      /\ StatusInv'
  BY <1>2, ControlFrame, SampledFrame, ListsFrame, ExpiredFrame, CreatedFrame, DueFrame,
     StatusFrame DEF IInv
<1>8. MessagesInv'
  <2>1. Outstanding' \subseteq Outstanding \union {m}
    BY <1>2, <1>4 DEF Outstanding
  <2> QED
    BY <1>2, <1>3, <2>1 DEF IInv, MessagesInv, MessageOK, Now, TimeOf
<1>9. DeleteInv'
  <2>1. \A i \in 1..Len(xTimerQueue') :
          \/ i \in 1..Len(xTimerQueue) /\ xTimerQueue'[i] = xTimerQueue[i]
          \/ i = Len(xTimerQueue) + 1 /\ xTimerQueue'[i] = m
    BY <1>4, <1>5
  <2>2. /\ \A i \in 1..Len(xTimerQueue) :
             xTimerQueue[i].id = "delete" => m.timer # xTimerQueue[i].timer
        /\ xMessage # NULL /\ xMessage.id = "delete" => m.timer # xMessage.timer
    BY <1>3, UsableProperties DEF IInv
  <2>3. \A i, j \in 1..Len(xTimerQueue') :
          i < j /\ xTimerQueue'[i].id = "delete" =>
            xTimerQueue'[j].timer # xTimerQueue'[i].timer
    <3> SUFFICES ASSUME NEW i \in 1..Len(xTimerQueue'), NEW j \in 1..Len(xTimerQueue'),
                        i < j, xTimerQueue'[i].id = "delete"
                 PROVE  xTimerQueue'[j].timer # xTimerQueue'[i].timer
      OBVIOUS
    <3>1. i \in 1..Len(xTimerQueue) /\ xTimerQueue'[i] = xTimerQueue[i]
      BY <1>3, <2>1
    <3> QED
      BY <2>1, <2>2, <3>1 DEF IInv, DeleteInv
  <2>4. \A i \in 1..Len(xTimerQueue'), e \in Clients :
          xTimerQueue'[i].id = "delete" => ~ About(posting'[e], xTimerQueue'[i].timer)
    BY <1>2, <1>3, <2>1 DEF IInv, DeleteInv, About
  <2>5. xMessage' # NULL /\ xMessage'.id = "delete" =>
          \A i \in 1..Len(xTimerQueue') : xTimerQueue'[i].timer # xMessage'.timer
    BY <1>2, <2>1, <2>2 DEF IInv, DeleteInv
  <2> QED
    BY <1>2, <2>3, <2>4, <2>5 DEF IInv, DeleteInv, About
<1> QED
  BY <1>4, <1>6, <1>7, <1>8, <1>9 DEF IInv

(* A tick.  The tick counts in messages stay right because none of them is  *)
(* older than MaxLate, and base does not advance twice past sampleBase.     *)
LEMMA TimeOfIsKept ==
  ASSUME NEW count \in 0..MAX_TIME, NEW now \in 0..MAX_TIME, NEW b \in Nat,
         NEW d, d = TimeOf(count, now, b), b + now - d < MAX_TIME
  PROVE  d = IF now = MAX_TIME THEN TimeOf(count, 0, b + TickValues)
             ELSE TimeOf(count, now + 1, b)
<1>1. PICK w : w = TickValues
  OBVIOUS
<1>2. w \in Nat /\ MAX_TIME = w - 1
  BY <1>1, ConstantFacts
<1>3. d = IF count <= now THEN b + count ELSE b - w + count
  BY <1>1 DEF TimeOf
<1>4. now = w - 1 => d = IF count <= 0 THEN (b + w) + count ELSE (b + w) - w + count
  BY <1>2, <1>3
<1>5. now # w - 1 => d = IF count <= now + 1 THEN b + count ELSE b - w + count
  BY <1>2, <1>3
<1> QED
  BY <1>1, <1>2, <1>4, <1>5 DEF TimeOf

LEMMA TickInv ==
  ASSUME IInv, UNCHANGED application, Tick
  PROVE  IInv'
<1>1. /\ ~ Suspended
      /\ ~ asleep => Now - since < MaxLate
      /\ \A m \in Outstanding \ {NULL} : m.id = "start" => Now - m.at < MaxLate
      /\ IF xTickCount = MAX_TIME
         THEN xTickCount' = 0 /\ base' = base + TickValues
         ELSE xTickCount' = xTickCount + 1 /\ base' = base
      /\ IF asleep /\ wakeAt = Now + 1
         THEN asleep' = FALSE /\ wakeAt' = NULL /\ since' = Now + 1
         ELSE asleep' = asleep /\ wakeAt' = wakeAt /\ since' = since
  BY DEF Tick, sleep
<1>2. UNCHANGED <<xTimerQueue, pxCurrentTimerList, pxOverflowTimerList, created,
                  xItemValue, xTimerPeriodInTicks, ucStatus, xLastTime, sampleBase,
                  pc, switching, pxTimer, xExpiredTime, xMessage, cTxLock, posting, due>>
  BY DEF Tick, lists, fields, expiry
<1>3. /\ xTickCount \in 0..MAX_TIME /\ base \in Nat /\ since \in Nat
      /\ xLastTime \in 0..MAX_TIME /\ sampleBase \in Nat
      /\ asleep \in BOOLEAN /\ wakeAt \in Nat \union {NULL}
      /\ Now = base + xTickCount /\ SampleTime = sampleBase + xLastTime
      /\ TickValues \in Nat /\ TickValues > 0 /\ MAX_TIME = TickValues - 1
      /\ MaxLate \in 0..MAX_TIME /\ MaxPeriod = MAX_TIME - MaxLate /\ NULL \notin Nat
  BY ConstantFacts DEF IInv, TypeInv, Now, SampleTime
<1>4. /\ Now \in Nat /\ Now' = Now + 1 /\ SampleTime' = SampleTime
      /\ xTickCount' \in 0..MAX_TIME /\ base' \in Nat
      /\ asleep' \in BOOLEAN /\ wakeAt' \in Nat \union {NULL} /\ since' \in Nat
  <2>1. Now' = base' + xTickCount' /\ SampleTime' = SampleTime
    BY <1>2 DEF Now, SampleTime
  <2>2. /\ Now \in Nat /\ Now' = Now + 1
        /\ xTickCount' \in 0..MAX_TIME /\ base' \in Nat
    BY <1>1, <1>3, <2>1
  <2>3. asleep' \in BOOLEAN
    BY <1>1, <1>3, Zenon
  <2>4. wakeAt' \in Nat \union {NULL}
    BY <1>1, <1>3, Zenon
  <2>5. since' \in Nat
    <3>1. since' = since \/ since' = Now + 1
      BY <1>1, Zenon
    <3> QED
      BY <1>3, <2>2, <3>1
  <2> QED
    BY <2>1, <2>2, <2>3, <2>4, <2>5
<1>5. TypeInv'
  BY <1>2, <1>4 DEF IInv, TypeInv
<1>6. ControlInv' /\ SampledInv' /\ DeleteInv' /\ CreatedInv' /\ ListsInv' /\ DueInv'
      /\ ExpiredInv' /\ StatusInv'
  BY <1>2, ControlFrame, SampledFrame, DeleteFrame, CreatedFrame, ListsFrame, DueFrame,
     ExpiredFrame, StatusFrame DEF IInv
<1>7. LockInv'
  BY <1>1, <1>2 DEF IInv, LockInv
<1>8. MessagesInv'
  <2>1. Outstanding' = Outstanding
    BY <1>2 DEF Outstanding
  <2> SUFFICES ASSUME NEW m \in Outstanding \ {NULL} PROVE MessageOK(m)'
    BY <2>1 DEF MessagesInv
  <2>2. MessageOK(m)
    BY DEF IInv, MessagesInv
  <2>3. m.id = "start" =>
          /\ m.value <= MAX_TIME /\ m.at <= Now + 1 /\ Now + 1 <= m.at + MaxLate
          /\ m.at = TimeOf(m.value, xTickCount', base')
    <3> SUFFICES ASSUME m.id = "start"
                 PROVE  /\ m.value <= MAX_TIME /\ m.at <= Now + 1
                        /\ Now + 1 <= m.at + MaxLate
                        /\ m.at = TimeOf(m.value, xTickCount', base')
      OBVIOUS
    <3>1. m \in Command
      <4>1. Items(xTimerQueue) \subseteq Command
        BY ItemsTyped DEF IInv, TypeInv
      <4> QED
        BY <4>1 DEF IInv, TypeInv, Outstanding
    <3>2. m.value \in 0..MAX_TIME /\ m.at \in Nat
      BY <2>2, <3>1 DEF Command, MessageOK
    <3>3. m.at <= Now /\ Now - m.at < MaxLate /\ m.at = TimeOf(m.value, xTickCount, base)
      BY <1>1, <2>2 DEF MessageOK
    <3>4. (base + xTickCount) - m.at < MAX_TIME
      BY <1>3, <3>2, <3>3
    <3>5. m.at = IF xTickCount = MAX_TIME THEN TimeOf(m.value, 0, base + TickValues)
                 ELSE TimeOf(m.value, xTickCount + 1, base)
      BY <1>3, <3>2, <3>3, <3>4, TimeOfIsKept
    <3>6. m.at = TimeOf(m.value, xTickCount', base')
      BY <1>1, <3>5
    <3> QED
      BY <1>3, <1>4, <3>2, <3>3, <3>6
  <2> QED
    BY <1>2, <1>4, <2>2, <2>3 DEF MessageOK
<1>9. TimeInv'
  <2>1. /\ SampleTime <= since /\ since <= Now
        /\ pc \in Processing => since = SampleTime
        /\ Listed # {} \/ pc \in Processing =>
             /\ base = sampleBase \/ base = sampleBase + TickValues
             /\ ~ asleep => since <= SampleTime + MaxPeriod
    BY DEF IInv, TimeInv
  <2>2. ~ Suspended' /\ Listed' = Listed
    BY <1>1, <1>2 DEF Suspended, Listed
  <2>3. asleep => pc \notin Processing
    BY DEF IInv, LockInv, Processing
  <2>4. asleep => \A t \in Listed : /\ wakeAt # NULL /\ Now < wakeAt
                                    /\ wakeAt <= SampleTime + MaxPeriod
    BY DEF IInv, SleepInv
  <2>5. asleep /\ Listed # {} => Now + 1 <= SampleTime + MaxPeriod
    BY <1>3, <1>4, <2>4
  <2>6. ~ asleep /\ (Listed # {} \/ pc \in Processing) =>
          Now + 1 <= SampleTime + MaxPeriod + MaxLate
    BY <1>1, <1>3, <1>4, <2>1
  <2>7. Listed # {} \/ pc \in Processing => Now + 1 < sampleBase + xLastTime + TickValues
    BY <1>3, <1>4, <2>3, <2>5, <2>6
  <2>8. Listed # {} \/ pc \in Processing =>
          base' = sampleBase \/ base' = sampleBase + TickValues
    BY <1>1, <1>3, <1>4, <2>1, <2>7
  <2>9. /\ SampleTime <= since' /\ since' <= Now + 1
        /\ ~ asleep' => Now + 1 <= since' + MaxLate
        /\ pc \in Processing => since' = SampleTime
    <3>1. CASE asleep /\ wakeAt = Now + 1
      BY <1>1, <1>3, <1>4, <2>1, <2>3, <3>1
    <3>2. CASE ~ (asleep /\ wakeAt = Now + 1)
      <4>1. asleep' = asleep /\ since' = since
        BY <1>1, <3>2
      <4> QED
        BY <1>1, <1>3, <1>4, <2>1, <4>1
    <3> QED
      BY <3>1, <3>2
  <2>10. (Listed # {} \/ pc \in Processing) /\ ~ asleep' =>
           since' <= SampleTime + MaxPeriod
    BY <1>1, <1>3, <1>4, <2>1, <2>3, <2>5
  <2> QED
    BY <1>2, <1>4, <2>2, <2>8, <2>9, <2>10 DEF TimeInv
<1>10. SleepInv'
  <2>1. asleep' => asleep /\ wakeAt' = wakeAt /\ wakeAt # Now + 1
    BY <1>1
  <2>2. Listed' = Listed
    BY <1>2 DEF Listed
  <2>3. asleep => \A t \in Listed : /\ wakeAt # NULL /\ Now < wakeAt
                                    /\ wakeAt <= SampleTime + MaxPeriod /\ wakeAt <= due[t]
    BY DEF IInv, SleepInv
  <2>4. wakeAt # NULL /\ wakeAt # Now + 1 /\ Now < wakeAt => Now + 1 < wakeAt
    BY <1>3, <1>4
  <2> QED
    BY <1>2, <1>4, <2>1, <2>2, <2>3, <2>4 DEF SleepInv
<1> QED
  BY <1>5, <1>6, <1>7, <1>8, <1>9, <1>10 DEF IInv

-----------------------------------------------------------------------------
(* The daemon.                                                              *)

(* It takes the time, in prvProcessTimerOrBlockTask or for a command.  When *)
(* the tick count is below the last sample the lists stand for a base one   *)
(* overflow back, until prvSwitchTimerLists is done.                        *)
LEMMA SampleTimeInv ==
  ASSUME IInv, NEW caller, NEW otherwise, prvSampleTimeNow(caller, otherwise),
         \/ pc = "query" /\ caller = "query" /\ otherwise \in {"expire", "wait"}
         \/ pc = "sample" /\ caller = "command" /\ otherwise = "command",
         otherwise = "expire" => /\ pxCurrentTimerList # <<>>
                                 /\ xItemValue[Head(pxCurrentTimerList)] <= xTickCount,
         otherwise = "wait" /\ pxCurrentTimerList # <<>> =>
           ~ (xItemValue[Head(pxCurrentTimerList)] <= xTickCount),
         UNCHANGED <<application, xTimerQueue, pxCurrentTimerList, pxOverflowTimerList,
                     created, xItemValue, xTimerPeriodInTicks, ucStatus, xTickCount, base,
                     pxTimer, xExpiredTime, xMessage, asleep, wakeAt, cTxLock, posting, due>>
  PROVE  IInv'
<1>1. /\ xLastTime' = xTickCount /\ sampleBase' = base /\ since' = Now
      /\ xTickCount < xLastTime => pc' = "switch" /\ switching' = caller
      /\ ~ (xTickCount < xLastTime) => pc' = otherwise /\ switching' = switching
  BY DEF prvSampleTimeNow
<1>2. /\ xTickCount \in 0..MAX_TIME /\ base \in Nat /\ since \in Nat
      /\ xLastTime \in 0..MAX_TIME /\ sampleBase \in Nat
      /\ due \in [Timers -> Nat] /\ xItemValue \in [Timers -> 0..MAX_TIME]
      /\ Now = base + xTickCount /\ SampleTime = sampleBase + xLastTime
      /\ TickValues \in Nat /\ TickValues > 0 /\ MAX_TIME = TickValues - 1
      /\ MaxLate \in 0..MAX_TIME /\ MaxPeriod = MAX_TIME - MaxLate /\ NULL \notin Nat
      /\ pxCurrentTimerList \in Seq(Timers) /\ pxOverflowTimerList \in Seq(Timers)
  BY ConstantFacts DEF IInv, TypeInv, Now, SampleTime
<1>3. /\ Now \in Nat /\ SampleTime \in Nat /\ Now' = Now /\ SampleTime' = Now
      /\ Listed' = Listed
  BY <1>1, <1>2 DEF Now, SampleTime, Listed
<1>4. /\ switching = "no" /\ ~ asleep /\ pxTimer = NULL /\ ~ asleep'
      /\ pc = "query" => xMessage = NULL
      /\ pc = "sample" => xMessage # NULL
      /\ cTxLock = queueUNLOCKED
  BY DEF IInv, ControlInv, LockInv
<1>5. /\ pc' \in {"expire", "wait", "switch", "command"}
      /\ pc' = "switch" => switching' = caller
      /\ pc' # "switch" => switching' = "no" /\ pc' = otherwise
      /\ pc' \in Labels /\ switching' \in {"no", "query", "command"}
  BY <1>1, <1>4 DEF Labels
<1>6. TypeInv'
  BY <1>1, <1>2, <1>3, <1>5 DEF IInv, TypeInv
<1>7. ControlInv'
  BY <1>3, <1>4, <1>5 DEF IInv, ControlInv
<1>8. LockInv'
  BY <1>4, <1>5 DEF IInv, LockInv
<1>9. DeleteInv' /\ CreatedInv' /\ ListsInv'
  BY DeleteFrame, CreatedFrame, ListsFrame DEF IInv
<1>10. MessagesInv'
  BY MessagesFrame DEF IInv, Outstanding
<1>11. SampledInv'
  <2>1. xMessage # NULL => MessageOK(xMessage)
    BY DEF IInv, MessagesInv, Outstanding
  <2> QED
    BY <1>1, <1>3, <2>1 DEF SampledInv, MessageOK
<1>12. DueInv'
  <2>1. Listed # {} =>
          /\ base = sampleBase \/ base = sampleBase + TickValues
          /\ SampleTime <= Now /\ Now < SampleTime + TickValues
    <3>1. /\ SampleTime <= since /\ since <= Now /\ Now <= since + MaxLate
          /\ Listed # {} => /\ base = sampleBase \/ base = sampleBase + TickValues
                            /\ since <= SampleTime + MaxPeriod
      BY <1>4 DEF IInv, TimeInv
    <3> QED
      BY <1>2, <1>3, <3>1
  <2>2. Listed # {} => ListBase' = ListBase
    <3>1. ListBase = sampleBase
      BY <1>4 DEF ListBase
    <3>2. ListBase' = IF pc' = "switch" THEN base - TickValues ELSE base
      BY <1>1, <1>4, <1>5 DEF ListBase
    <3>3. pc' = "switch" <=> xTickCount < xLastTime
      BY <1>1
    <3> QED
      BY <1>2, <2>1, <3>1, <3>2, <3>3
  <2>3. \A t \in Listed : NextDue(t) = due[t] /\ NextDue(t)' = due[t]
    BY <1>5 DEF NextDue
  <2>4. \A t \in Listed : due[t] <= Now + MaxPeriod
    <3>1. \A t \in Listed : due[t] <= SampleTime + MaxPeriod /\ t \in Timers
      <4>1. Listed \subseteq Timers
        BY <1>2, ItemsTyped DEF Listed
      <4> QED
        BY <2>3, <4>1 DEF IInv, DueInv
    <3>2. SampleTime <= Now
      BY <1>2, <1>3 DEF IInv, TimeInv, TypeInv
    <3> QED
      BY <1>2, <1>3, <3>1, <3>2
  <2> QED
    BY <1>3, <2>2, <2>3, <2>4 DEF IInv, DueInv, Listed
<1>13. ExpiredInv'
  <2>1. pxCurrentTimerList # <<>> =>
          xItemValue[Head(pxCurrentTimerList)] \in Nat
    BY <1>2, NonemptyHead
  <2>2. pxCurrentTimerList # <<>> /\ otherwise = "wait" =>
          xItemValue[Head(pxCurrentTimerList)] > xTickCount
    BY <1>2, <2>1
  <2> QED
    BY <1>1, <1>5, <2>2 DEF ExpiredInv
<1>14. TimeInv'
  BY <1>1, <1>2, <1>3 DEF TimeInv
<1>15. SleepInv'
  BY <1>4 DEF SleepInv
<1>16. StatusInv'
  BY <1>3, <1>5 DEF IInv, StatusInv, ActiveTimersAreListed
<1> QED
  BY <1>6, <1>7, <1>8, <1>9, <1>10, <1>11, <1>12, <1>13, <1>14, <1>15, <1>16 DEF IInv

LEMMA QueryInv ==
  ASSUME IInv, UNCHANGED application, prvProcessTimerOrBlockTask
  PROVE  IInv'
<1> DEFINE expired == /\ pxCurrentTimerList # <<>>
                      /\ xItemValue[Head(pxCurrentTimerList)] <= xTickCount
           otherwise == IF expired THEN "expire" ELSE "wait"
<1>1. /\ pc = "query" /\ prvSampleTimeNow("query", otherwise)
      /\ UNCHANGED <<xTimerQueue, pxCurrentTimerList, pxOverflowTimerList,
                     created, xItemValue, xTimerPeriodInTicks, ucStatus, xTickCount, base,
                     pxTimer, xExpiredTime, xMessage, asleep, wakeAt, cTxLock, posting, due>>
  BY DEF prvProcessTimerOrBlockTask, DaemonRuns, lists, fields, ticks, expiry, sleep
<1>2. /\ otherwise \in {"expire", "wait"}
      /\ otherwise = "expire" => expired
      /\ otherwise = "wait" => ~ expired
  OBVIOUS
<1>3. PICK o : o = otherwise
  OBVIOUS
<1>4. /\ o \in {"expire", "wait"} /\ prvSampleTimeNow("query", o)
      /\ o = "expire" => /\ pxCurrentTimerList # <<>>
                         /\ xItemValue[Head(pxCurrentTimerList)] <= xTickCount
      /\ o = "wait" /\ pxCurrentTimerList # <<>> =>
           ~ (xItemValue[Head(pxCurrentTimerList)] <= xTickCount)
  BY <1>1, <1>2, <1>3
<1> QED
  BY <1>1, <1>4, SampleTimeInv

LEMMA SampleInv ==
  ASSUME IInv, UNCHANGED application, SampleForCommand
  PROVE  IInv'
<1>1. /\ pc = "sample" /\ prvSampleTimeNow("command", "command")
      /\ UNCHANGED <<xTimerQueue, pxCurrentTimerList, pxOverflowTimerList,
                     created, xItemValue, xTimerPeriodInTicks, ucStatus, xTickCount, base,
                     pxTimer, xExpiredTime, xMessage, asleep, wakeAt, cTxLock, posting, due>>
  BY DEF SampleForCommand, DaemonRuns, lists, fields, ticks, expiry, sleep
<1> QED
  BY <1>1, SampleTimeInv

(* A step between the points where the daemon works on no timer.            *)
Resting == {"query", "wait", "place", "unlock", "receive"}

LEMMA RestingStep ==
  ASSUME IInv, pc \in Resting, pc' \in Resting,
         UNCHANGED <<application, xTimerQueue, pxCurrentTimerList, pxOverflowTimerList,
                     created, xItemValue, xTimerPeriodInTicks, ucStatus, xTickCount, base,
                     xLastTime, sampleBase, since, switching, pxTimer, xExpiredTime,
                     xMessage, posting, due>>
  PROVE  /\ switching = "no" /\ switching' = "no"
         /\ ControlInv' /\ MessagesInv' /\ SampledInv' /\ DeleteInv' /\ CreatedInv'
         /\ ListsInv' /\ DueInv' /\ StatusInv'
<1>1. /\ switching = "no" /\ pxTimer = NULL /\ xMessage = NULL
      /\ Listed' = Listed
  BY DEF IInv, ControlInv, Resting, Listed
<1>2. ControlInv' /\ SampledInv'
  BY <1>1 DEF IInv, ControlInv, SampledInv, Resting
<1>3. MessagesInv'
  BY MessagesFrame DEF IInv, Outstanding
<1>4. DeleteInv' /\ CreatedInv' /\ ListsInv'
  BY DeleteFrame, CreatedFrame, ListsFrame DEF IInv
<1>5. DueInv'
  BY <1>1 DEF IInv, DueInv, NextDue, ListBase, SampleTime, Listed, Resting
<1>6. StatusInv'
  BY <1>1 DEF IInv, StatusInv, ActiveTimersAreListed, Resting
<1> QED
  BY <1>1, <1>2, <1>3, <1>4, <1>5, <1>6

LEMMA WaitForMessageInv ==
  ASSUME IInv, UNCHANGED application, WaitForMessage
  PROVE  IInv'
<1>1. /\ pc = "wait" /\ cTxLock' = 0
      /\ xTimerQueue = <<>> => pc' = "place"
      /\ xTimerQueue # <<>> => pc' = "unlock"
      /\ UNCHANGED <<xTimerQueue, pxCurrentTimerList, pxOverflowTimerList,
                     created, xItemValue, xTimerPeriodInTicks, ucStatus, xTickCount, base,
                     xLastTime, sampleBase, since, switching, pxTimer, xExpiredTime,
                     xMessage, asleep, wakeAt, posting, due>>
  BY DEF WaitForMessage, DaemonRuns, lists, fields, ticks, sampled, expiry, sleep
<1>2. ~ asleep /\ ~ asleep'
  BY <1>1 DEF IInv, LockInv
<1>3. pc \in Resting /\ pc' \in {"place", "unlock"}
  BY <1>1 DEF Resting
<1>4. /\ switching = "no" /\ switching' = "no"
      /\ ControlInv' /\ MessagesInv' /\ SampledInv' /\ DeleteInv' /\ CreatedInv'
      /\ ListsInv' /\ DueInv' /\ StatusInv'
  <2>1. pc' \in Resting
    BY <1>3 DEF Resting
  <2> QED
    BY <1>1, <1>3, <2>1, RestingStep
<1>5. TypeInv'
  <2>1. cTxLock' \in -1..QueueLength
    BY <1>1, ConstantFacts
  <2> QED
    BY <1>1, <1>3, <2>1 DEF IInv, TypeInv, Labels
<1>6. LockInv'
  <2>1. Len(xTimerQueue) \in Nat
    BY DEF IInv, TypeInv
  <2> QED
    BY <1>1, <1>2, <1>3, <2>1, ConstantFacts DEF IInv, LockInv
<1>7. ExpiredInv'
  BY <1>1, <1>3 DEF IInv, ExpiredInv
<1>8. TimeInv' /\ SleepInv'
  <2>1. Suspended /\ Listed' = Listed
    BY <1>1 DEF Suspended, Listed
  <2> QED
    BY <1>1, <1>2, <1>3, <2>1 DEF IInv, TimeInv, SleepInv, Now, SampleTime, Processing
<1> QED
  BY <1>4, <1>5, <1>6, <1>7, <1>8 DEF IInv

(* The daemon goes to sleep: until the expiry time of the first timer of    *)
(* the current list, or until the tick count overflows.                     *)
LEMMA SleepsLongEnough ==
  ASSUME IInv, pc = "place", Listed # {}
  PROVE  /\ xTicksToWait \in Nat /\ ~ xWaitIndefinitely
         /\ xTicksToWait > 0
         /\ Now + xTicksToWait <= SampleTime + MaxPeriod
         /\ \A t \in Listed : Now + xTicksToWait <= due[t]
<1>1. /\ xLastTime \in 0..MAX_TIME /\ sampleBase \in Nat
      /\ xItemValue \in [Timers -> 0..MAX_TIME] /\ xItemValue \in [Timers -> Int]
      /\ due \in [Timers -> Nat]
      /\ SampleTime = sampleBase + xLastTime
      /\ TickValues \in Nat /\ TickValues > 0 /\ MAX_TIME = TickValues - 1
      /\ MaxPeriod \in 0..MAX_TIME
      /\ pxCurrentTimerList \in Seq(Timers) /\ pxOverflowTimerList \in Seq(Timers)
  BY ConstantFacts DEF IInv, TypeInv, SampleTime
<1>2. Now = SampleTime
  BY DEF IInv, TimeInv, Suspended
<1>3. Items(pxCurrentTimerList) \subseteq Timers /\ Items(pxOverflowTimerList) \subseteq Timers
  BY <1>1, ItemsTyped
<1>4. /\ \A t \in Items(pxCurrentTimerList) : due[t] = sampleBase + xItemValue[t]
      /\ \A t \in Items(pxOverflowTimerList) : due[t] = sampleBase + TickValues + xItemValue[t]
      /\ \A t \in Listed : due[t] <= SampleTime + MaxPeriod
  <2>1. switching = "no"
    BY DEF IInv, ControlInv
  <2> QED
    BY <2>1 DEF IInv, DueInv, NextDue, ListBase
<1>5. ~ xWaitIndefinitely
  BY EmptyItems DEF Listed, xWaitIndefinitely
<1>6. CASE pxCurrentTimerList # <<>>
  <2>1. /\ Head(pxCurrentTimerList) \in Items(pxCurrentTimerList)
        /\ \A t \in Items(pxCurrentTimerList) :
             xItemValue[Head(pxCurrentTimerList)] <= xItemValue[t]
    BY <1>1, <1>6, HeadIsMinimum DEF IInv, ListsInv
  <2>2. PICK v : v = xItemValue[Head(pxCurrentTimerList)]
    OBVIOUS
  <2>3. v \in 0..MAX_TIME /\ v > xLastTime
    BY <1>1, <1>3, <1>6, <2>1, <2>2 DEF IInv, ExpiredInv
  <2>4. xTicksToWait = v - xLastTime
    <3>1. xTicksToWait = (v - xLastTime) % TickValues
      BY <1>6, <2>2 DEF xTicksToWait
    <3>2. (v - xLastTime) % TickValues
            = IF v >= xLastTime THEN v - xLastTime ELSE v - xLastTime + TickValues
      BY <1>1, <2>3, ModuloFacts
    <3> QED
      BY <1>1, <2>3, <3>1, <3>2
  <2>5. Now + xTicksToWait = sampleBase + v
    BY <1>1, <1>2, <2>3, <2>4
  <2>6. sampleBase + v <= SampleTime + MaxPeriod
    BY <1>4, <2>1, <2>2 DEF Listed
  <2>7. \A t \in Items(pxCurrentTimerList) : sampleBase + v <= due[t]
    BY <1>1, <1>3, <1>4, <2>1, <2>2, <2>3
  <2>8. \A t \in Items(pxOverflowTimerList) : sampleBase + v <= due[t]
    BY <1>1, <1>3, <1>4, <2>3
  <2> QED
    BY <1>1, <1>5, <2>3, <2>4, <2>5, <2>6, <2>7, <2>8 DEF Listed
<1>7. CASE pxCurrentTimerList = <<>>
  <2>1. Listed = Items(pxOverflowTimerList)
    BY <1>7, EmptyItems DEF Listed
  <2>2. \A t \in Listed : /\ sampleBase + TickValues <= due[t]
                          /\ sampleBase + TickValues <= SampleTime + MaxPeriod
    BY <1>1, <1>3, <1>4, <2>1
  <2>3. sampleBase + TickValues <= SampleTime + MaxPeriod
    BY <2>2
  <2>4. xLastTime > 0
    BY <1>1, <2>3
  <2>5. xTicksToWait = TickValues - xLastTime
    <3>1. xTicksToWait = (0 - xLastTime) % TickValues
      BY <1>7 DEF xTicksToWait
    <3>2. (0 - xLastTime) % TickValues
            = IF 0 >= xLastTime THEN 0 - xLastTime ELSE 0 - xLastTime + TickValues
      <4>1. 0 \in 0..(TickValues - 1) /\ xLastTime \in 0..(TickValues - 1)
        BY <1>1
      <4> QED
        BY <1>1, <4>1, ModuloFacts
    <3> QED
      BY <1>1, <2>4, <3>1, <3>2
  <2>6. Now + xTicksToWait = sampleBase + TickValues
    BY <1>1, <1>2, <2>5
  <2> QED
    BY <1>1, <1>5, <2>2, <2>3, <2>5, <2>6
<1> QED
  BY <1>6, <1>7

LEMMA PlaceInv ==
  ASSUME IInv, UNCHANGED application, vTaskPlaceOnEventListRestricted
  PROVE  IInv'
<1>1. /\ pc = "place" /\ asleep' = TRUE /\ pc' = "unlock"
      /\ xWaitIndefinitely => wakeAt' = NULL
      /\ ~ xWaitIndefinitely => wakeAt' = Now + xTicksToWait
      /\ UNCHANGED <<xTimerQueue, pxCurrentTimerList, pxOverflowTimerList,
                     created, xItemValue, xTimerPeriodInTicks, ucStatus, xTickCount, base,
                     xLastTime, sampleBase, since, switching, pxTimer, xExpiredTime,
                     xMessage, cTxLock, posting, due>>
  BY DEF vTaskPlaceOnEventListRestricted, DaemonRuns, lists, fields, ticks, sampled, expiry
<1>2. pc \in Resting /\ pc' \in Resting
  BY <1>1 DEF Resting
<1>3. /\ ControlInv' /\ MessagesInv' /\ SampledInv' /\ DeleteInv' /\ CreatedInv'
      /\ ListsInv' /\ DueInv' /\ StatusInv'
  BY <1>1, <1>2, RestingStep
<1>4. /\ Now \in Nat /\ SampleTime \in Nat
      /\ Now' = Now /\ SampleTime' = SampleTime /\ Listed' = Listed
  BY <1>1, ConstantFacts DEF IInv, TypeInv, Now, SampleTime, Listed
<1>5. xWaitIndefinitely \/ Listed # {}
  <2>1. /\ pxCurrentTimerList = <<>> <=> Items(pxCurrentTimerList) = {}
        /\ pxOverflowTimerList = <<>> <=> Items(pxOverflowTimerList) = {}
    BY NonemptyHead DEF IInv, TypeInv
  <2> QED
    BY <2>1 DEF xWaitIndefinitely, Listed
<1>6. wakeAt' \in Nat \union {NULL}
  BY <1>1, <1>4, <1>5, SleepsLongEnough
<1>7. TypeInv'
  BY <1>1, <1>6 DEF IInv, TypeInv, Labels
<1>8. LockInv'
  BY <1>1 DEF IInv, LockInv
<1>9. ExpiredInv'
  BY <1>1 DEF ExpiredInv
<1>10. TimeInv'
  BY <1>1, <1>4 DEF IInv, TimeInv, Suspended, Processing
<1>11. SleepInv'
  <2>1. Listed # {} =>
          \A t \in Listed : /\ wakeAt' # NULL /\ Now < wakeAt'
                            /\ wakeAt' <= SampleTime + MaxPeriod /\ wakeAt' <= due[t]
    <3> SUFFICES ASSUME Listed # {}
                 PROVE  \A t \in Listed :
                          /\ wakeAt' # NULL /\ Now < wakeAt'
                          /\ wakeAt' <= SampleTime + MaxPeriod /\ wakeAt' <= due[t]
      OBVIOUS
    <3>1. /\ xTicksToWait \in Nat /\ xTicksToWait > 0
          /\ wakeAt' = Now + xTicksToWait /\ wakeAt' <= SampleTime + MaxPeriod
          /\ \A t \in Listed : wakeAt' <= due[t]
      BY <1>1, SleepsLongEnough
    <3>2. wakeAt' \in Nat /\ Now < wakeAt'
      BY <1>4, <3>1
    <3> QED
      BY <3>1, <3>2, ConstantFacts
  <2> QED
    BY <1>1, <1>4, <2>1 DEF SleepInv
<1> QED
  BY <1>3, <1>7, <1>8, <1>9, <1>10, <1>11 DEF IInv

(* The queue is unlocked.                                                   *)
LEMMA UnlockInv ==
  ASSUME IInv, UNCHANGED application, prvUnlockQueue
  PROVE  IInv'
<1>1. /\ pc = "unlock" /\ pc' = "receive" /\ cTxLock' = queueUNLOCKED
      /\ cTxLock > 0 => asleep' = FALSE /\ wakeAt' = NULL
      /\ ~ (cTxLock > 0) => asleep' = asleep /\ wakeAt' = wakeAt
      /\ UNCHANGED <<xTimerQueue, pxCurrentTimerList, pxOverflowTimerList,
                     created, xItemValue, xTimerPeriodInTicks, ucStatus, xTickCount, base,
                     xLastTime, sampleBase, since, switching, pxTimer, xExpiredTime,
                     xMessage, posting, due>>
  BY DEF prvUnlockQueue, DaemonRuns, lists, fields, ticks, sampled, expiry, sleep
<1>2. pc \in Resting /\ pc' \in Resting
  BY <1>1 DEF Resting
<1>3. /\ switching' = "no"
      /\ ControlInv' /\ MessagesInv' /\ SampledInv' /\ DeleteInv' /\ CreatedInv'
      /\ ListsInv' /\ DueInv' /\ StatusInv'
  BY <1>1, <1>2, RestingStep
<1>4. /\ Now \in Nat /\ SampleTime \in Nat /\ since \in Nat
      /\ MaxLate \in Nat /\ MaxPeriod \in Nat
      /\ Now' = Now /\ SampleTime' = SampleTime /\ Listed' = Listed
  BY <1>1, ConstantFacts DEF IInv, TypeInv, Now, SampleTime, Listed
<1>5. TypeInv'
  <2>1. cTxLock' \in -1..QueueLength
    BY <1>1, ConstantFacts
  <2>2. asleep' \in BOOLEAN /\ wakeAt' \in Nat \union {NULL}
    BY <1>1 DEF IInv, TypeInv
  <2> QED
    BY <1>1, <2>1, <2>2 DEF IInv, TypeInv, Labels
<1>6. LockInv'
  <2>1. asleep' => asleep /\ ~ (cTxLock > 0) /\ wakeAt' = wakeAt
    BY <1>1
  <2>2. asleep' => xTimerQueue = <<>>
    BY <2>1 DEF IInv, LockInv
  <2>3. wakeAt' # NULL => asleep'
    BY <1>1 DEF IInv, LockInv
  <2>4. cTxLock' <= Len(xTimerQueue)
    BY <1>1, ConstantFacts DEF IInv, TypeInv
  <2> QED
    BY <1>1, <2>2, <2>3, <2>4 DEF LockInv
<1>7. ExpiredInv'
  BY <1>1 DEF ExpiredInv
<1>8. TimeInv'
  <2>1. ~ Suspended'
    BY <1>1, <1>3 DEF Suspended
  <2>2. /\ Now = SampleTime /\ SampleTime <= since /\ since <= Now
        /\ Listed # {} => base = sampleBase \/ base = sampleBase + TickValues
    BY <1>1 DEF IInv, TimeInv, Suspended
  <2>3. Now <= since + MaxLate /\ since <= SampleTime + MaxPeriod
    BY <1>4, <2>2
  <2> QED
    BY <1>1, <1>4, <2>1, <2>2, <2>3 DEF TimeInv, Processing
<1>9. SleepInv'
  BY <1>1, <1>4 DEF IInv, SleepInv
<1> QED
  BY <1>3, <1>5, <1>6, <1>7, <1>8, <1>9 DEF IInv

(* prvProcessExpiredTimer: the expiry time is one that has passed.          *)
LEMMA ExpiredTimerInv ==
  ASSUME IInv, pc \in {"expire", "switch"}, pxCurrentTimerList # <<>>,
         prvProcessExpiredTimer(Head(pxCurrentTimerList)),
         UNCHANGED <<application, xTimerQueue, created, xItemValue, xTimerPeriodInTicks,
                     xTickCount, base, xLastTime, sampleBase, since, switching, xMessage,
                     asleep, wakeAt, cTxLock, posting, due>>
  PROVE  IInv'
<1> DEFINE t == Head(pxCurrentTimerList)
<1>1. /\ RemoveTimer(t) /\ pxTimer' = t /\ xExpiredTime' = xItemValue[t]
      /\ "AUTORELOAD" \in ucStatus[t] => pc' = "reload" /\ ucStatus' = ucStatus
      /\ "AUTORELOAD" \notin ucStatus[t] =>
           pc' = "callback" /\ ucStatus' = [ucStatus EXCEPT ![t] = @ \ {"ACTIVE"}]
  BY DEF prvProcessExpiredTimer
<1>2. /\ xLastTime \in 0..MAX_TIME /\ sampleBase \in Nat
      /\ xItemValue \in [Timers -> 0..MAX_TIME]
      /\ due \in [Timers -> Nat]
      /\ SampleTime = sampleBase + xLastTime
      /\ TickValues \in Nat /\ TickValues > 0 /\ MAX_TIME = TickValues - 1
      /\ ucStatus \in [Timers -> SUBSET Statuses]
      /\ pxCurrentTimerList \in Seq(Timers) /\ pxOverflowTimerList \in Seq(Timers)
  BY ConstantFacts DEF IInv, TypeInv, SampleTime
<1>3. t \in Items(pxCurrentTimerList) /\ t \in Timers /\ t \in Listed /\ t # NULL
  BY <1>2, NonemptyHead, ConstantFacts DEF Listed
<1> HIDE DEF t
<1>4. /\ pxCurrentTimerList' \in Seq(Timers) /\ pxOverflowTimerList' \in Seq(Timers)
      /\ Items(pxCurrentTimerList') = Items(pxCurrentTimerList) \ {t}
      /\ Items(pxOverflowTimerList') = Items(pxOverflowTimerList) \ {t}
      /\ Listed' = Listed \ {t}
      /\ ListsInv'
  BY <1>1, RemoveTimerProperties DEF IInv
<1>5. /\ pc' \in {"reload", "callback"} /\ pxTimer = NULL /\ ~ asleep
      /\ cTxLock = queueUNLOCKED
      /\ pc = "expire" => switching = "no"
      /\ pc = "switch" => switching # "no"
      /\ xMessage # NULL => xMessage.timer # t
      /\ xMessage # NULL <=> switching = "command"
  BY <1>1, <1>3 DEF IInv, ControlInv, LockInv
<1>6. /\ ucStatus' \in [Timers -> SUBSET Statuses]
      /\ \A u \in Timers : u # t => ucStatus'[u] = ucStatus[u]
      /\ pc' = "callback" => "ACTIVE" \notin ucStatus'[t]
      /\ pc' = "reload" => ucStatus' = ucStatus
  BY <1>1, <1>2, <1>3
<1>7. TypeInv'
  BY <1>1, <1>2, <1>3, <1>4, <1>5, <1>6 DEF IInv, TypeInv, Labels
<1>8. ControlInv'
  BY <1>1, <1>3, <1>4, <1>5 DEF IInv, ControlInv
<1>9. LockInv' /\ SleepInv'
  BY <1>5 DEF IInv, LockInv, SleepInv
<1>10. DeleteInv' /\ MessagesInv'
  BY DeleteFrame, MessagesFrame DEF IInv, Outstanding
<1>11. SampledInv'
  BY DEF IInv, SampledInv, SampleTime, TimeOf
<1>12. CreatedInv'
  BY <1>1, <1>3, <1>4 DEF IInv, CreatedInv
<1>13. DueInv'
  <2>1. \A u \in Listed' : u # t /\ NextDue(u) = due[u] /\ NextDue(u)' = due[u]
    BY <1>1, <1>4, <1>5 DEF NextDue
  <2> QED
    BY <1>4, <2>1 DEF IInv, DueInv, ListBase, SampleTime, Listed
<1>14. ExpiredInv'
  <2>1. due[t] = ListBase + xItemValue[t]
    BY <1>3 DEF IInv, DueInv, NextDue
  <2>2. PICK v : v = xItemValue[t]
    OBVIOUS
  <2>3. v \in 0..MAX_TIME
    BY <1>2, <1>3, <2>2
  <2>4. pc = "expire" => v <= xLastTime
    BY <2>2 DEF t, IInv, ExpiredInv
  <2>5. /\ xTimeNow = IF switching = "no" THEN xLastTime ELSE MAX_TIME
        /\ ListBase = IF switching = "no" THEN sampleBase ELSE sampleBase - TickValues
    BY DEF xTimeNow, ListBase
  <2>6. v <= xTimeNow /\ ListBase + v <= SampleTime
    BY <1>2, <1>5, <2>3, <2>4, <2>5
  <2>7. xTimeNow' = xTimeNow /\ ListBase' = ListBase /\ SampleTime' = SampleTime
    BY DEF xTimeNow, ListBase, SampleTime
  <2> QED
    BY <1>1, <1>5, <2>1, <2>2, <2>6, <2>7 DEF ExpiredInv, TimeOf
<1>15. TimeInv'
  <2>1. Suspended' = Suspended /\ Now' = Now /\ SampleTime' = SampleTime
    BY <1>5 DEF Suspended, Now, SampleTime
  <2> QED
    BY <1>5, <2>1 DEF IInv, TimeInv, Processing
<1>16. StatusInv'
  <2>1. "ACTIVE" \in ucStatus[t]
    BY <1>3, <1>5 DEF IInv, StatusInv, ActiveTimersAreListed
  <2>2. ActiveTimersAreListed'
    BY <1>1, <1>4, <1>5, <1>6, ConstantFacts DEF IInv, StatusInv, ActiveTimersAreListed
  <2> QED
    BY <1>1, <1>4, <1>5, <1>6, <2>1, <2>2 DEF StatusInv
<1> QED
  BY <1>4, <1>7, <1>8, <1>9, <1>10, <1>11, <1>12, <1>13, <1>14, <1>15, <1>16 DEF IInv

LEMMA ExpireInv ==
  ASSUME IInv, UNCHANGED application, Expire
  PROVE  IInv'
<1>1. pc = "expire" /\ pxCurrentTimerList # <<>>
  BY DEF Expire, DaemonRuns, IInv, ExpiredInv
<1> QED
  BY <1>1, ExpiredTimerInv DEF Expire, ticks, sampled, sleep

LEMMA SwitchInv ==
  ASSUME IInv, UNCHANGED application, prvSwitchTimerLists
  PROVE  IInv'
<1>1. /\ pc = "switch"
      /\ UNCHANGED <<xTimerQueue, created, xItemValue, xTimerPeriodInTicks,
                     xTickCount, base, xLastTime, sampleBase, since, xMessage,
                     asleep, wakeAt, cTxLock, posting, due>>
      /\ pxCurrentTimerList # <<>> =>
           prvProcessExpiredTimer(Head(pxCurrentTimerList)) /\ switching' = switching
      /\ pxCurrentTimerList = <<>> =>
           /\ pxCurrentTimerList' = pxOverflowTimerList
           /\ pxOverflowTimerList' = pxCurrentTimerList
           /\ switching' = "no"
           /\ switching = "query" => pc' = "receive"
           /\ switching # "query" => pc' = "command"
           /\ UNCHANGED <<pxTimer, xExpiredTime, ucStatus>>
  BY DEF prvSwitchTimerLists, DaemonRuns, ticks, sampled, sleep, expiry
<1>2. CASE pxCurrentTimerList # <<>>
  BY <1>1, <1>2, ExpiredTimerInv
<1>3. CASE pxCurrentTimerList = <<>>
  <2>1. /\ pxCurrentTimerList' = pxOverflowTimerList
        /\ pxOverflowTimerList' = pxCurrentTimerList
        /\ switching' = "no"
        /\ switching = "query" => pc' = "receive"
        /\ switching # "query" => pc' = "command"
        /\ UNCHANGED <<pxTimer, xExpiredTime, ucStatus>>
    BY <1>1, <1>3
  <2>2. /\ Items(pxCurrentTimerList) = {} /\ Listed' = Listed
    BY <1>3, <2>1, EmptyItems DEF Listed
  <2>3. /\ switching \in {"query", "command"} /\ pxTimer = NULL /\ ~ asleep
        /\ cTxLock = queueUNLOCKED /\ pc' \in {"receive", "command"}
        /\ xMessage # NULL <=> switching = "command"
    BY <1>1, <2>1 DEF IInv, TypeInv, ControlInv, LockInv
  <2>4. TypeInv'
    BY <1>1, <2>1, <2>3 DEF IInv, TypeInv, Labels
  <2>5. ControlInv'
    BY <1>1, <2>1, <2>2, <2>3 DEF IInv, ControlInv
  <2>6. LockInv' /\ SleepInv'
    BY <1>1, <2>3 DEF IInv, LockInv, SleepInv
  <2>7. DeleteInv' /\ MessagesInv'
    BY <1>1, DeleteFrame, MessagesFrame DEF IInv, Outstanding
  <2>8. SampledInv'
    BY <1>1, <2>1 DEF IInv, SampledInv, SampleTime, TimeOf
  <2>9. CreatedInv' /\ ListsInv'
    BY <1>1, <2>1, <2>2 DEF IInv, CreatedInv, ListsInv
  <2>10. DueInv'
    <3>1. ListBase = sampleBase - TickValues /\ ListBase' = sampleBase
      BY <1>1, <2>1, <2>3 DEF ListBase
    <3>2. \A u \in Listed : NextDue(u) = due[u] /\ NextDue(u)' = due[u]
      BY <1>1, <2>1, <2>3 DEF NextDue
    <3>3. \A u \in Items(pxOverflowTimerList) : due[u] = sampleBase + xItemValue[u]
      <4>1. \A u \in Items(pxOverflowTimerList) :
              /\ due[u] = (sampleBase - TickValues) + TickValues + xItemValue[u]
              /\ xItemValue[u] \in Nat
        <5>1. Items(pxOverflowTimerList) \subseteq Timers
          BY ItemsTyped DEF IInv, TypeInv
        <5> QED
          BY <3>1, <3>2, <5>1, ConstantFacts DEF IInv, TypeInv, DueInv, Listed
      <4> QED
        BY <4>1, ConstantFacts DEF IInv, TypeInv
    <3>4. \A u \in Listed : due[u] <= SampleTime + MaxPeriod
      BY <3>2 DEF IInv, DueInv
    <3> QED
      BY <1>1, <2>1, <2>2, <3>1, <3>2, <3>3, <3>4 DEF DueInv, Listed, SampleTime
  <2>11. ExpiredInv'
    BY <2>3 DEF ExpiredInv
  <2>12. TimeInv'
    <3>1. ~ Suspended' /\ Now' = Now /\ SampleTime' = SampleTime
      BY <1>1, <2>1, <2>3 DEF Suspended, Now, SampleTime
    <3> QED
      BY <1>1, <2>2, <2>3, <3>1 DEF IInv, TimeInv, Processing
  <2>13. StatusInv'
    BY <1>1, <2>1, <2>2, <2>3 DEF IInv, StatusInv, ActiveTimersAreListed
  <2> QED
    BY <2>4, <2>5, <2>6, <2>7, <2>8, <2>9, <2>10, <2>11, <2>12, <2>13 DEF IInv
<1> QED
  BY <1>2, <1>3

(* One round of prvReloadTimer.                                             *)
LEMMA ReloadInv ==
  ASSUME IInv, UNCHANGED application, prvReloadTimer
  PROVE  IInv'
<1> DEFINE t == pxTimer
           period == xTimerPeriodInTicks[pxTimer]
           next == (xExpiredTime + period) % TickValues
           where == Destination(pxTimer, next, xTimeNow, xExpiredTime)
<1>1. /\ pc = "reload" /\ InsertTimer(t, next, where)
      /\ where = "processNow" => /\ xExpiredTime' = next /\ pc' = "reload"
                                 /\ due' = [due EXCEPT ![t] = @ + period]
      /\ where # "processNow" => /\ pc' = "callback" /\ xExpiredTime' = xExpiredTime
                                 /\ due' = due
      /\ UNCHANGED <<xTimerQueue, created, xTimerPeriodInTicks, ucStatus, xTickCount, base,
                     xLastTime, sampleBase, since, switching, pxTimer, xMessage, asleep,
                     wakeAt, cTxLock, posting>>
  BY DEF prvReloadTimer, DaemonRuns, ticks, sampled, sleep
<1>2. /\ xLastTime \in 0..MAX_TIME /\ sampleBase \in Nat
      /\ xItemValue \in [Timers -> 0..MAX_TIME]
      /\ due \in [Timers -> Nat]
      /\ SampleTime = sampleBase + xLastTime
      /\ TickValues \in Nat /\ TickValues > 0 /\ MAX_TIME = TickValues - 1
      /\ MaxPeriod \in 0..MAX_TIME
  BY ConstantFacts DEF IInv, TypeInv, SampleTime
<1>3. /\ t \in Timers /\ t # NULL /\ t \notin Listed /\ t \in created
      /\ xMessage # NULL => xMessage.timer # t
      /\ ~ asleep /\ cTxLock = queueUNLOCKED
  BY <1>1, ConstantFacts DEF IInv, TypeInv, ControlInv, LockInv, CreatedInv
<1>4. period \in Periods /\ period \in Nat /\ period <= MaxPeriod
  BY <1>3, ConstantFacts DEF IInv, CreatedInv
<1>5. /\ xTimeNow \in 0..MAX_TIME /\ ListBase \in Int
      /\ ListBase + xTimeNow <= SampleTime
  <2>1. CASE switching = "no"
    BY <1>2, <2>1 DEF xTimeNow, ListBase
  <2>2. CASE switching # "no"
    BY <1>2, <2>2 DEF xTimeNow, ListBase
  <2> QED
    BY <2>1, <2>2
<1>6. xExpiredTime \in 0..MAX_TIME /\ due[t] = TimeOf(xExpiredTime, xTimeNow, ListBase)
  BY <1>1 DEF IInv, TypeInv, ExpiredInv
<1>7. /\ next \in 0..MAX_TIME /\ where \in {"processNow", "current", "overflow"}
      /\ where = "processNow" => due[t] + period = TimeOf(next, xTimeNow, ListBase)
      /\ where = "current" => due[t] + period = ListBase + next
      /\ where = "overflow" => due[t] + period = ListBase + TickValues + next
  <2>1. xTimerPeriodInTicks \in [Timers -> Periods \union {0}]
    BY DEF IInv, TypeInv
  <2> QED
    BY <1>3, <1>4, <1>5, <1>6, <2>1, DestinationIsRight
<1>8. due[t] <= SampleTime
  <2>1. \/ due[t] = ListBase + xExpiredTime /\ xExpiredTime <= xTimeNow
        \/ due[t] = ListBase - TickValues + xExpiredTime
    BY <1>6 DEF TimeOf
  <2> QED
    BY <1>2, <1>5, <1>6, <2>1
<1> HIDE DEF t, period, next, where
<1>9. /\ xItemValue' \in [Timers -> 0..MAX_TIME] /\ xItemValue'[t] = next
      /\ \A u \in Timers : u # t => xItemValue'[u] = xItemValue[u]
      /\ pxCurrentTimerList' \in Seq(Timers) /\ pxOverflowTimerList' \in Seq(Timers)
      /\ Items(pxCurrentTimerList') =
           Items(pxCurrentTimerList) \union (IF where = "current" THEN {t} ELSE {})
      /\ Items(pxOverflowTimerList') =
           Items(pxOverflowTimerList) \union (IF where = "overflow" THEN {t} ELSE {})
      /\ Listed' = Listed \union (IF where \in {"current", "overflow"} THEN {t} ELSE {})
      /\ ListsInv'
  BY <1>1, <1>3, <1>7, InsertTimerProperties DEF IInv
<1>10. /\ due' \in [Timers -> Nat]
       /\ \A u \in Timers : u # t => due'[u] = due[u]
       /\ where = "processNow" => due'[t] = due[t] + period
       /\ xExpiredTime' \in 0..MAX_TIME
       /\ pc' \in {"reload", "callback"} /\ pxTimer' = t
  <2>1. due[t] + period \in Nat
    BY <1>2, <1>3, <1>4
  <2> QED
    BY <1>1, <1>2, <1>3, <1>6, <1>7, <2>1 DEF t
<1>11. Listed \subseteq Timers
  BY ItemsTyped DEF IInv, TypeInv, Listed
<1>12. TypeInv'
  BY <1>1, <1>9, <1>10 DEF IInv, TypeInv, Labels
<1>13. ControlInv'
  <2>1. pc' = "reload" => Listed' = Listed
    BY <1>1, <1>7, <1>9
  <2> QED
    BY <1>1, <1>3, <1>9, <1>10, <2>1 DEF IInv, ControlInv
<1>14. LockInv' /\ SleepInv'
  BY <1>1, <1>3, <1>10 DEF IInv, LockInv, SleepInv
<1>15. DeleteInv' /\ MessagesInv'
  BY <1>1, DeleteFrame, MessagesFrame DEF IInv, Outstanding
<1>16. SampledInv'
  BY <1>1 DEF IInv, SampledInv, SampleTime, TimeOf
<1>17. CreatedInv'
  BY <1>1, <1>3, <1>9, <1>10 DEF IInv, CreatedInv
<1>18. ListBase' = ListBase /\ xTimeNow' = xTimeNow /\ SampleTime' = SampleTime
  BY <1>1 DEF ListBase, xTimeNow, SampleTime
<1>19. DueInv'
  <2>1. \A u \in Listed : u # t /\ NextDue(u) = due[u] /\ NextDue(u)' = due[u]
    BY <1>1, <1>3, <1>10, <1>11 DEF NextDue, t
  <2>2. where \in {"current", "overflow"} =>
          \A u \in Listed' : u = t => NextDue(u)' = due[t] + period
    BY <1>1, <1>10 DEF NextDue, t, period
  <2>3. due[t] + period <= SampleTime + MaxPeriod
    BY <1>2, <1>3, <1>4, <1>8
  <2>4. /\ \A u \in Items(pxCurrentTimerList) : due[u] = ListBase + xItemValue[u]
        /\ \A u \in Items(pxOverflowTimerList) :
             due[u] = ListBase + TickValues + xItemValue[u]
        /\ \A u \in Listed : due[u] <= SampleTime + MaxPeriod
    BY <2>1 DEF IInv, DueInv, Listed
  <2>5. \A u \in Listed : xItemValue'[u] = xItemValue[u]
    BY <1>9, <1>11, <2>1
  <2>6. where = "current" =>
          \A u \in Listed' : u = t => NextDue(u)' = ListBase + xItemValue'[u]
    BY <1>7, <1>9, <2>2
  <2>7. where = "overflow" =>
          \A u \in Listed' : u = t => NextDue(u)' = ListBase + TickValues + xItemValue'[u]
    BY <1>7, <1>9, <2>2
  <2>8. where \in {"current", "overflow"} =>
          \A u \in Listed' : u = t => NextDue(u)' <= SampleTime + MaxPeriod
    BY <2>2, <2>3
  <2>9. \A u \in Items(pxCurrentTimerList') : NextDue(u)' = ListBase + xItemValue'[u]
    <3> SUFFICES ASSUME NEW u \in Items(pxCurrentTimerList')
                 PROVE  NextDue(u)' = ListBase + xItemValue'[u]
      OBVIOUS
    <3>1. u \in Items(pxCurrentTimerList) \/ (u = t /\ where = "current")
      BY <1>9
    <3>2. CASE u \in Items(pxCurrentTimerList)
      <4>1. u \in Listed
        BY <3>2 DEF Listed
      <4>2. /\ NextDue(u)' = due[u] /\ due[u] = ListBase + xItemValue[u]
            /\ xItemValue'[u] = xItemValue[u]
        BY <2>1, <2>4, <2>5, <3>2, <4>1
      <4> QED
        BY <4>2
    <3>3. u \in Listed'
      BY DEF Listed
    <3> QED
      BY <2>6, <3>1, <3>2, <3>3
  <2>10. \A u \in Items(pxOverflowTimerList') :
           NextDue(u)' = ListBase + TickValues + xItemValue'[u]
    <3> SUFFICES ASSUME NEW u \in Items(pxOverflowTimerList')
                 PROVE  NextDue(u)' = ListBase + TickValues + xItemValue'[u]
      OBVIOUS
    <3>1. u \in Items(pxOverflowTimerList) \/ (u = t /\ where = "overflow")
      BY <1>9
    <3>2. CASE u \in Items(pxOverflowTimerList)
      <4>1. u \in Listed
        BY <3>2 DEF Listed
      <4>2. /\ NextDue(u)' = due[u] /\ due[u] = ListBase + TickValues + xItemValue[u]
            /\ xItemValue'[u] = xItemValue[u]
        BY <2>1, <2>4, <2>5, <3>2, <4>1
      <4> QED
        BY <4>2
    <3>3. u \in Listed'
      BY DEF Listed
    <3> QED
      BY <2>7, <3>1, <3>2, <3>3
  <2>11. \A u \in Listed' : NextDue(u)' <= SampleTime + MaxPeriod
    <3> SUFFICES ASSUME NEW u \in Listed' PROVE NextDue(u)' <= SampleTime + MaxPeriod
      OBVIOUS
    <3>1. u \in Listed \/ (u = t /\ where \in {"current", "overflow"})
      BY <1>9
    <3> QED
      BY <2>1, <2>4, <2>8, <3>1
  <2> QED
    BY <1>18, <2>9, <2>10, <2>11 DEF DueInv
<1>20. ExpiredInv'
  <2>1. pc' = "reload" => where = "processNow" /\ xExpiredTime' = next
    BY <1>1
  <2>2. pc' = "callback" => due' = due
    BY <1>1
  <2>3. pc' = "reload" => due'[pxTimer'] = TimeOf(xExpiredTime', xTimeNow', ListBase')
    BY <1>7, <1>10, <1>18, <2>1
  <2>4. pc' = "callback" => due'[pxTimer'] <= SampleTime'
    BY <1>8, <1>10, <1>18, <2>2
  <2> QED
    BY <1>10, <2>3, <2>4 DEF ExpiredInv
<1>21. TimeInv'
  <2>1. Suspended' = Suspended /\ Now' = Now
    BY <1>1, <1>10 DEF Suspended, Now
  <2> QED
    BY <1>1, <1>3, <1>10, <1>18, <2>1 DEF IInv, TimeInv, Processing
<1>22. StatusInv'
  <2>1. "ACTIVE" \in ucStatus[t]
    BY <1>1 DEF IInv, StatusInv, t
  <2>2. ActiveTimersAreListed'
    BY <1>1, <1>9, <1>10 DEF t, IInv, StatusInv, ActiveTimersAreListed
  <2>3. pc' = "callback" => t \in Listed'
    BY <1>1, <1>7, <1>9
  <2> QED
    BY <1>1, <1>10, <2>1, <2>2, <2>3 DEF StatusInv
<1> QED
  BY <1>9, <1>12, <1>13, <1>14, <1>15, <1>16, <1>17, <1>19, <1>20, <1>21, <1>22 DEF IInv

LEMMA CallbackInv ==
  ASSUME IInv, UNCHANGED application, Callback
  PROVE  IInv'
<1> DEFINE t == pxTimer
           nextDue == IF t \in Listed THEN due[t] + xTimerPeriodInTicks[t] ELSE 0
<1>1. /\ pc = "callback" /\ due' = [due EXCEPT ![t] = nextDue]
      /\ pxTimer' = NULL /\ xExpiredTime' = 0
      /\ switching = "no" => pc' = "receive"
      /\ switching # "no" => pc' = "switch"
      /\ UNCHANGED <<xTimerQueue, pxCurrentTimerList, pxOverflowTimerList, created,
                     xItemValue, xTimerPeriodInTicks, ucStatus, xTickCount, base,
                     xLastTime, sampleBase, since, switching, xMessage, asleep,
                     wakeAt, cTxLock, posting>>
  BY DEF Callback, DaemonRuns, lists, fields, ticks, sampled, sleep
<1>2. /\ t \in Timers /\ t # NULL /\ t \in created
      /\ ~ asleep /\ cTxLock = queueUNLOCKED
      /\ pc' \in {"receive", "switch"} /\ Listed' = Listed
      /\ xMessage # NULL => xMessage \in Command
  BY <1>1, ConstantFacts DEF IInv, TypeInv, ControlInv, LockInv, CreatedInv, Listed
<1>3. nextDue \in Nat
  <2>1. due[t] \in Nat /\ xTimerPeriodInTicks[t] \in Periods \union {0}
    BY <1>2 DEF IInv, TypeInv
  <2>2. xTimerPeriodInTicks[t] \in Nat
    <3>1. Periods \union {0} \subseteq Nat
      BY ConstantFacts
    <3> QED
      BY <2>1, <3>1, Zenon
  <2>3. due[t] + xTimerPeriodInTicks[t] \in Nat
    BY <2>1, <2>2
  <2> QED
    BY <2>3
<1>4. NextDue(t) = due[t] + xTimerPeriodInTicks[t]
  BY <1>1 DEF NextDue
<1> HIDE DEF t
<1>5. /\ due' \in [Timers -> Nat] /\ due'[t] = nextDue
      /\ \A u \in Timers : u # t => due'[u] = due[u]
  BY <1>1, <1>2, <1>3 DEF IInv, TypeInv
<1>6. TypeInv'
  BY <1>1, <1>2, <1>5, ConstantFacts DEF IInv, TypeInv, Labels
<1>7. ControlInv'
  <2>1. xMessage # NULL => xMessage.timer # NULL
    BY <1>2, ConstantFacts DEF Command
  <2> QED
    BY <1>1, <1>2, <2>1 DEF IInv, ControlInv
<1>8. LockInv' /\ SleepInv'
  BY <1>1, <1>2 DEF IInv, LockInv, SleepInv
<1>9. DeleteInv' /\ MessagesInv' /\ ListsInv'
  BY <1>1, DeleteFrame, MessagesFrame, ListsFrame DEF IInv, Outstanding
<1>10. SampledInv'
  BY <1>1 DEF IInv, SampledInv, SampleTime, TimeOf
<1>11. CreatedInv'
  BY <1>1, <1>2 DEF IInv, CreatedInv
<1>12. DueInv'
  <2>1. Listed \subseteq Timers
    BY ItemsTyped DEF IInv, TypeInv, Listed
  <2>2. \A u \in Listed : NextDue(u)' = NextDue(u)
    <3> SUFFICES ASSUME NEW u \in Listed PROVE NextDue(u)' = NextDue(u)
      OBVIOUS
    <3>1. NextDue(u)' = due'[u]
      BY <1>2 DEF NextDue
    <3>2. CASE u = t
      BY <1>4, <1>5, <3>1, <3>2
    <3>3. CASE u # t
      BY <1>5, <2>1, <3>1, <3>3 DEF NextDue, t
    <3> QED
      BY <3>2, <3>3
  <2> QED
    BY <1>1, <1>2, <2>2 DEF IInv, DueInv, ListBase, SampleTime, Listed
<1>13. ExpiredInv'
  BY <1>2 DEF ExpiredInv
<1>14. TimeInv'
  <2>1. Suspended' = Suspended /\ Now' = Now /\ SampleTime' = SampleTime
    BY <1>1, <1>2 DEF Suspended, Now, SampleTime
  <2> QED
    BY <1>1, <1>2, <2>1 DEF IInv, TimeInv, Processing
<1>15. StatusInv'
  <2>1. t \in Listed <=> t \in created /\ "ACTIVE" \in ucStatus[t]
    BY <1>1, <1>2 DEF IInv, StatusInv, t
  <2>2. \A u \in Timers : \/ u \in Listed <=> u \in created /\ "ACTIVE" \in ucStatus[u]
                          \/ xMessage # NULL /\ xMessage.timer = u
    BY <2>1 DEF IInv, StatusInv, ActiveTimersAreListed, t
  <2> QED
    BY <1>1, <1>2, <2>2 DEF StatusInv, ActiveTimersAreListed
<1> QED
  BY <1>6, <1>7, <1>8, <1>9, <1>10, <1>11, <1>12, <1>13, <1>14, <1>15 DEF IInv

(* The next command is taken.                                               *)
LEMMA ReceiveInv ==
  ASSUME IInv, UNCHANGED application, ReceiveCommand
  PROVE  IInv'
<1>1. /\ pc = "receive"
      /\ UNCHANGED <<created, xItemValue, xTimerPeriodInTicks, ucStatus, xTickCount, base,
                     xLastTime, sampleBase, since, switching, pxTimer, xExpiredTime, asleep,
                     wakeAt, cTxLock, posting>>
      /\ xTimerQueue = <<>> =>
           /\ pc' = "query" /\ due' = due
           /\ UNCHANGED <<xTimerQueue, pxCurrentTimerList, pxOverflowTimerList, xMessage>>
      /\ xTimerQueue # <<>> =>
           /\ xMessage' = Head(xTimerQueue) /\ xTimerQueue' = Tail(xTimerQueue)
           /\ RemoveTimer(Head(xTimerQueue).timer) /\ pc' = "sample"
           /\ due' = [due EXCEPT ![Head(xTimerQueue).timer] = 0]
  BY DEF ReceiveCommand, DaemonRuns, lists, fields, ticks, sampled, sleep, expiry
<1>2. ~ asleep /\ switching = "no" /\ pxTimer = NULL /\ xMessage = NULL
  <2>1. switching = "no" /\ pxTimer = NULL /\ xMessage = NULL
    BY <1>1 DEF IInv, ControlInv
  <2> QED
    BY <1>1, <2>1 DEF ReceiveCommand, DaemonRuns, Suspended
<1>3. cTxLock = queueUNLOCKED
  BY <1>1 DEF IInv, LockInv
<1>4. CASE xTimerQueue = <<>>
  <2>1. /\ pc \in Resting /\ pc' \in Resting /\ pc' = "query"
        /\ UNCHANGED <<xTimerQueue, pxCurrentTimerList, pxOverflowTimerList, xMessage, due>>
    BY <1>1, <1>4 DEF Resting
  <2>2. /\ ControlInv' /\ MessagesInv' /\ SampledInv' /\ DeleteInv' /\ CreatedInv'
        /\ ListsInv' /\ DueInv' /\ StatusInv'
    BY <1>1, <2>1, RestingStep
  <2>3. TypeInv' /\ LockInv' /\ SleepInv' /\ ExpiredInv'
    BY <1>1, <1>2, <1>3, <2>1 DEF IInv, TypeInv, LockInv, SleepInv, ExpiredInv, Labels
  <2>4. TimeInv'
    <3>1. /\ ~ Suspended' /\ Now' = Now /\ SampleTime' = SampleTime
          /\ Listed' = Listed
      BY <1>1, <1>2, <2>1 DEF Suspended, Now, SampleTime, Listed
    <3> QED
      BY <1>1, <1>2, <2>1, <3>1 DEF IInv, TimeInv, Processing
  <2> QED
    BY <2>2, <2>3, <2>4 DEF IInv
<1>5. CASE xTimerQueue # <<>>
  <2>1. PICK m : m = Head(xTimerQueue)
    OBVIOUS
  <2>2. /\ xMessage' = m /\ xTimerQueue' = Tail(xTimerQueue) /\ RemoveTimer(m.timer)
        /\ pc' = "sample" /\ due' = [due EXCEPT ![m.timer] = 0]
    BY <1>1, <1>5, <2>1
  <2>3. /\ xTimerQueue \in Seq(Command) /\ Len(xTimerQueue) \in Nat
        /\ m \in Command /\ m = xTimerQueue[1]
        /\ xTimerQueue' \in Seq(Command) /\ Len(xTimerQueue') = Len(xTimerQueue) - 1
        /\ Len(xTimerQueue') \in Nat
        /\ \A i \in 1..Len(xTimerQueue') : xTimerQueue'[i] = xTimerQueue[i + 1]
    BY <1>5, <2>1, <2>2, HeadTailProperties DEF IInv, TypeInv
  <2>4. /\ m.timer \in Timers /\ m # NULL /\ m.timer # NULL
    BY <2>3, ConstantFacts DEF Command
  <2>5. /\ pxCurrentTimerList' \in Seq(Timers) /\ pxOverflowTimerList' \in Seq(Timers)
        /\ Items(pxCurrentTimerList') = Items(pxCurrentTimerList) \ {m.timer}
        /\ Items(pxOverflowTimerList') = Items(pxOverflowTimerList) \ {m.timer}
        /\ Listed' = Listed \ {m.timer}
        /\ ListsInv'
    BY <1>1, <2>2, RemoveTimerProperties DEF IInv
  <2>6. /\ due' \in [Timers -> Nat]
        /\ \A u \in Timers : u # m.timer => due'[u] = due[u]
    BY <2>2, <2>4 DEF IInv, TypeInv
  <2>7. TypeInv'
    <3>1. Len(xTimerQueue') <= QueueLength
      BY <2>3, ConstantFacts DEF IInv, TypeInv
    <3> QED
      BY <1>1, <2>2, <2>3, <2>5, <2>6, <3>1 DEF IInv, TypeInv, Labels
  <2>8. ControlInv'
    BY <1>1, <1>2, <2>2, <2>4, <2>5 DEF ControlInv
  <2>9. LockInv' /\ SleepInv'
    <3>1. cTxLock' <= Len(xTimerQueue')
      BY <1>1, <1>3, <2>3, ConstantFacts
    <3> QED
      BY <1>1, <1>2, <1>3, <2>2, <3>1 DEF IInv, LockInv, SleepInv
  <2>10. \A i \in 1..Len(xTimerQueue') : i + 1 \in 1..Len(xTimerQueue) /\ 1 < i + 1
    BY <2>3
  <2>11. MessagesInv'
    <3>1. m \in Items(xTimerQueue) /\ Items(xTimerQueue') \subseteq Items(xTimerQueue)
      <4>1. 1 \in 1..Len(xTimerQueue)
        BY <1>5, <2>3, EmptySeq, LenProperties
      <4> QED
        BY <2>3, <2>10, <4>1 DEF Items
    <3>2. Outstanding' \subseteq Outstanding
      BY <1>1, <2>2, <3>1 DEF Outstanding
    <3> QED
      BY <1>1, <3>2, MessagesFrame DEF IInv
  <2>12. SampledInv'
    BY <2>2 DEF SampledInv
  <2>13. DeleteInv'
    <3>1. \A i, j \in 1..Len(xTimerQueue') :
            i < j /\ xTimerQueue'[i].id = "delete" =>
              xTimerQueue'[j].timer # xTimerQueue'[i].timer
      <4> SUFFICES ASSUME NEW i \in 1..Len(xTimerQueue'), NEW j \in 1..Len(xTimerQueue'),
                          i < j, xTimerQueue'[i].id = "delete"
                   PROVE  xTimerQueue'[j].timer # xTimerQueue'[i].timer
        OBVIOUS
      <4>1. i + 1 < j + 1 /\ i + 1 \in 1..Len(xTimerQueue) /\ j + 1 \in 1..Len(xTimerQueue)
        BY <2>10
      <4>2. xTimerQueue[i + 1].id = "delete"
        BY <2>3
      <4>3. xTimerQueue[j + 1].timer # xTimerQueue[i + 1].timer
        BY <4>1, <4>2 DEF IInv, DeleteInv
      <4> QED
        BY <2>3, <4>3
    <3>2. \A i \in 1..Len(xTimerQueue'), c \in Clients :
            xTimerQueue'[i].id = "delete" => ~ About(posting[c], xTimerQueue'[i].timer)
      BY <2>3, <2>10 DEF IInv, DeleteInv
    <3>3. m.id = "delete" => \A i \in 1..Len(xTimerQueue') : xTimerQueue'[i].timer # m.timer
      <4> SUFFICES ASSUME m.id = "delete", NEW i \in 1..Len(xTimerQueue')
                   PROVE  xTimerQueue'[i].timer # m.timer
        OBVIOUS
      <4>1. i + 1 \in 1..Len(xTimerQueue) /\ 1 < i + 1 /\ 1 \in 1..Len(xTimerQueue)
        BY <2>3, <2>10
      <4>2. xTimerQueue[i + 1].timer # xTimerQueue[1].timer
        BY <2>3, <4>1 DEF IInv, DeleteInv
      <4> QED
        BY <2>3, <4>2
    <3>4. m.id = "delete" => \A c \in Clients : ~ About(posting[c], m.timer)
      <4>1. 1 \in 1..Len(xTimerQueue)
        BY <1>5, <2>3, EmptySeq, LenProperties
      <4> QED
        BY <2>3, <4>1 DEF IInv, DeleteInv
    <3>5. \A c, e \in Clients :
            c # e /\ posting[c] # NULL /\ posting[c].id = "delete" =>
              ~ About(posting[e], posting[c].timer)
      BY DEF IInv, DeleteInv
    <3> QED
      BY <1>1, <2>2, <3>1, <3>2, <3>3, <3>4, <3>5 DEF DeleteInv
  <2>14. CreatedInv'
    BY <1>1, <2>5 DEF IInv, CreatedInv
  <2>15. DueInv'
    <3>1. Listed \subseteq Timers
      BY ItemsTyped DEF IInv, TypeInv, Listed
    <3>2. \A u \in Listed' : NextDue(u) = due[u] /\ NextDue(u)' = due[u]
      BY <1>1, <2>2, <2>5, <2>6, <3>1 DEF NextDue
    <3> QED
      BY <1>1, <2>5, <3>2 DEF IInv, DueInv, ListBase, SampleTime, Listed
  <2>16. ExpiredInv'
    BY <2>2 DEF ExpiredInv
  <2>17. TimeInv'
    <3>1. ~ Suspended' /\ Now' = Now /\ SampleTime' = SampleTime
      BY <1>1, <1>2, <2>2 DEF Suspended, Now, SampleTime
    <3>2. Listed' # {} => Listed # {}
      BY <2>5
    <3> QED
      BY <1>1, <1>2, <2>2, <3>1, <3>2 DEF IInv, TimeInv, Processing
  <2>18. StatusInv'
    <3>1. ActiveTimersAreListed'
      BY <1>1, <1>2, <2>2, <2>4, <2>5 DEF IInv, StatusInv, ActiveTimersAreListed
    <3> QED
      BY <2>2, <3>1 DEF StatusInv
  <2> QED
    BY <2>5, <2>7, <2>8, <2>9, <2>11, <2>12, <2>13, <2>14, <2>15, <2>16, <2>17, <2>18 DEF IInv
<1> QED
  BY <1>4, <1>5

(* What a command has in common with the others.                            *)
LEMMA CommandProperties ==
  ASSUME IInv, pc = "command", xMessage' = NULL, pc' \in {"receive", "reload", "callback"},
         UNCHANGED <<application, xTimerQueue, xTickCount, base, xLastTime, sampleBase,
                     since, switching, asleep, wakeAt, cTxLock, posting>>
  PROVE  /\ xMessage \in Command /\ MessageOK(xMessage)
         /\ xMessage.timer \in created /\ xMessage.timer \in Timers
         /\ xMessage.timer # NULL /\ xMessage.timer \notin Listed
         /\ pxTimer = NULL /\ switching = "no"
         /\ xTimeNow = xLastTime /\ ListBase = sampleBase /\ ListBase' = sampleBase
         /\ xTimeNow' = xLastTime /\ SampleTime' = SampleTime
         /\ LockInv' /\ SampledInv' /\ DeleteInv' /\ TimeInv' /\ SleepInv'
         /\ created \subseteq created' => MessagesInv'
<1>1. /\ xMessage # NULL /\ xMessage.timer \notin Listed /\ pxTimer = NULL
      /\ switching = "no"
  BY DEF IInv, ControlInv
<1>2. ~ asleep /\ cTxLock = queueUNLOCKED
  BY DEF IInv, LockInv
<1>3. xMessage \in Command /\ MessageOK(xMessage)
  BY <1>1 DEF IInv, TypeInv, MessagesInv, Outstanding
<1>4. /\ xMessage.timer \in created /\ xMessage.timer \in Timers /\ xMessage.timer # NULL
  BY <1>3, ConstantFacts DEF MessageOK, Command
<1>5. /\ xTimeNow = xLastTime /\ ListBase = sampleBase /\ ListBase' = sampleBase
      /\ xTimeNow' = xLastTime /\ SampleTime' = SampleTime
  BY <1>1 DEF xTimeNow, ListBase, SampleTime
<1>6. LockInv' /\ SleepInv' /\ SampledInv'
  BY <1>2 DEF IInv, LockInv, SleepInv, SampledInv
<1>7. DeleteInv'
  BY DEF IInv, DeleteInv
<1>8. TimeInv'
  <2>1. ~ Suspended' /\ Now' = Now
    BY <1>1 DEF Suspended, Now
  <2> QED
    BY <1>2, <1>5, <2>1 DEF IInv, TimeInv, Processing
<1>9. created \subseteq created' => MessagesInv'
  <2>1. Outstanding' \ {NULL} \subseteq Outstanding \ {NULL}
    BY DEF Outstanding
  <2> QED
    BY <2>1 DEF IInv, MessagesInv, MessageOK, Now, TimeOf
<1> QED
  BY <1>1, <1>3, <1>4, <1>5, <1>6, <1>7, <1>8, <1>9

(* The timer of the command is put into the list it belongs in.             *)
LEMMA InsertedIsDue ==
  ASSUME IInv, pc = "command", NEW t \in Timers, t \notin Listed,
         NEW next \in 0..MAX_TIME, NEW where, InsertTimer(t, next, where),
         NEW d \in Nat, due' = [due EXCEPT ![t] = d],
         pxTimer = NULL, ListBase = sampleBase, ListBase' = ListBase,
         SampleTime' = SampleTime, d <= SampleTime + MaxPeriod,
         where = "current" => d = sampleBase + next,
         where = "overflow" => d = sampleBase + TickValues + next,
         pc' = "callback" => where \notin {"current", "overflow"},
         pc' = "callback" => pxTimer' = t
  PROVE  DueInv'
<1>1. /\ \A u \in Items(pxCurrentTimerList) :
           due[u] = sampleBase + xItemValue[u]
      /\ \A u \in Items(pxOverflowTimerList) :
           due[u] = sampleBase + TickValues + xItemValue[u]
      /\ \A u \in Listed : due[u] <= SampleTime + MaxPeriod
  BY DEF IInv, DueInv, NextDue
<1>2. /\ xItemValue'[t] = next
      /\ \A u \in Timers : u # t => xItemValue'[u] = xItemValue[u]
      /\ Items(pxCurrentTimerList') =
           Items(pxCurrentTimerList) \union (IF where = "current" THEN {t} ELSE {})
      /\ Items(pxOverflowTimerList') =
           Items(pxOverflowTimerList) \union (IF where = "overflow" THEN {t} ELSE {})
      /\ Listed' = Listed \union (IF where \in {"current", "overflow"} THEN {t} ELSE {})
  BY InsertTimerProperties DEF IInv
<1>3. Listed \subseteq Timers
  BY ItemsTyped DEF IInv, TypeInv, Listed
<1>4. /\ due'[t] = d
      /\ \A u \in Timers : u # t => due'[u] = due[u]
  BY DEF IInv, TypeInv
<1>5. \A u \in Listed' : NextDue(u)' = due'[u]
  <2>1. pc' = "callback" => t \notin Listed'
    BY <1>2
  <2> QED
    BY <2>1 DEF NextDue
<1>6. \A u \in Items(pxCurrentTimerList') : due'[u] = sampleBase + xItemValue'[u]
  <2> SUFFICES ASSUME NEW u \in Items(pxCurrentTimerList')
               PROVE  due'[u] = sampleBase + xItemValue'[u]
    OBVIOUS
  <2>1. u \in Items(pxCurrentTimerList) \/ (u = t /\ where = "current")
    BY <1>2
  <2>2. CASE u \in Items(pxCurrentTimerList)
    <3>1. u \in Listed /\ u \in Timers /\ u # t
      BY <1>3, <2>2 DEF Listed
    <3> QED
      BY <1>1, <1>2, <1>4, <2>2, <3>1
  <2>3. CASE u = t /\ where = "current"
    BY <1>2, <1>4, <2>3
  <2> QED
    BY <2>1, <2>2, <2>3
<1>7. \A u \in Items(pxOverflowTimerList') :
        due'[u] = sampleBase + TickValues + xItemValue'[u]
  <2> SUFFICES ASSUME NEW u \in Items(pxOverflowTimerList')
               PROVE  due'[u] = sampleBase + TickValues + xItemValue'[u]
    OBVIOUS
  <2>1. u \in Items(pxOverflowTimerList) \/ (u = t /\ where = "overflow")
    BY <1>2
  <2>2. CASE u \in Items(pxOverflowTimerList)
    <3>1. u \in Listed /\ u \in Timers /\ u # t
      BY <1>3, <2>2 DEF Listed
    <3> QED
      BY <1>1, <1>2, <1>4, <2>2, <3>1
  <2>3. CASE u = t /\ where = "overflow"
    BY <1>2, <1>4, <2>3
  <2> QED
    BY <2>1, <2>2, <2>3
<1>8. \A u \in Listed' : due'[u] <= SampleTime + MaxPeriod
  BY <1>1, <1>2, <1>3, <1>4
<1> QED
  BY <1>5, <1>6, <1>7, <1>8 DEF DueInv, Listed

LEMMA StartInv ==
  ASSUME IInv, pc = "command", xMessage' = NULL, xMessage.id = "start",
         Start(xMessage.timer),
         UNCHANGED <<application, xTimerQueue, xTickCount, base, xLastTime, sampleBase,
                     since, switching, asleep, wakeAt, cTxLock, posting>>
  PROVE  IInv'
<1>0. PICK t, p, next, where :
        /\ t = xMessage.timer /\ p = xTimerPeriodInTicks[t]
        /\ next = (xMessage.value + p) % TickValues
        /\ where = Destination(t, next, xTimeNow, xMessage.value)
  OBVIOUS
<1>1. /\ InsertTimer(t, next, where)
      /\ due' = [due EXCEPT ![t] = xMessage.at + p]
      /\ where = "processNow" /\ "AUTORELOAD" \notin ucStatus[t] =>
           /\ ucStatus' = [ucStatus EXCEPT ![t] = @ \ {"ACTIVE"}]
           /\ pc' = "callback"
      /\ where # "processNow" \/ "AUTORELOAD" \in ucStatus[t] =>
           ucStatus' = [ucStatus EXCEPT ![t] = @ \union {"ACTIVE"}]
      /\ where = "processNow" /\ "AUTORELOAD" \in ucStatus[t] => pc' = "reload"
      /\ where # "processNow" =>
           pc' = "receive" /\ pxTimer' = pxTimer /\ xExpiredTime' = xExpiredTime
      /\ where = "processNow" => pxTimer' = t /\ xExpiredTime' = next
      /\ created' = created /\ xTimerPeriodInTicks' = xTimerPeriodInTicks
  BY <1>0 DEF Start, expiry
<1>2. /\ xLastTime \in 0..MAX_TIME /\ sampleBase \in Nat
      /\ due \in [Timers -> Nat] /\ ucStatus \in [Timers -> SUBSET Statuses]
      /\ SampleTime = sampleBase + xLastTime
      /\ TickValues \in Nat /\ TickValues > 0 /\ MAX_TIME = TickValues - 1
      /\ MaxPeriod \in 0..MAX_TIME
  BY ConstantFacts DEF IInv, TypeInv, SampleTime
<1>3. pc' \in {"receive", "reload", "callback"}
  BY <1>1
<1>4. /\ xMessage \in Command /\ MessageOK(xMessage)
      /\ t \in created /\ t \in Timers /\ t # NULL /\ t \notin Listed
      /\ pxTimer = NULL /\ switching = "no"
      /\ xTimeNow = xLastTime /\ ListBase = sampleBase /\ ListBase' = sampleBase
      /\ xTimeNow' = xLastTime /\ SampleTime' = SampleTime
      /\ LockInv' /\ SampledInv' /\ DeleteInv' /\ TimeInv' /\ SleepInv' /\ MessagesInv'
  BY <1>0, <1>1, <1>3, CommandProperties
<1>5. p \in Periods /\ p \in Nat /\ p <= MaxPeriod
  BY <1>0, <1>4, ConstantFacts DEF IInv, CreatedInv
<1>6. /\ xMessage.value \in 0..MAX_TIME /\ xMessage.at \in Nat
      /\ xMessage.at <= SampleTime
      /\ xMessage.at = TimeOf(xMessage.value, xLastTime, sampleBase)
  BY <1>2, <1>4 DEF Command, MessageOK, IInv, ControlInv, SampledInv
<1>7. /\ next \in 0..MAX_TIME /\ where \in {"processNow", "current", "overflow"}
      /\ where = "processNow" => xMessage.at + p = TimeOf(next, xLastTime, sampleBase)
      /\ where = "current" => xMessage.at + p = sampleBase + next
      /\ where = "overflow" => xMessage.at + p = sampleBase + TickValues + next
  <2>1. xTimerPeriodInTicks \in [Timers -> Periods \union {0}] /\ sampleBase \in Int
    BY <1>2 DEF IInv, TypeInv
  <2> QED
    BY <1>0, <1>2, <1>4, <1>5, <1>6, <2>1, DestinationIsRight
<1>8. /\ xItemValue' \in [Timers -> 0..MAX_TIME] /\ xItemValue'[t] = next
      /\ pxCurrentTimerList' \in Seq(Timers) /\ pxOverflowTimerList' \in Seq(Timers)
      /\ Listed' = Listed \union (IF where \in {"current", "overflow"} THEN {t} ELSE {})
      /\ ListsInv'
  BY <1>1, <1>4, <1>7, InsertTimerProperties DEF IInv
<1>9. /\ ucStatus' \in [Timers -> SUBSET Statuses]
      /\ \A u \in Timers : u # t => ucStatus'[u] = ucStatus[u]
      /\ pc' = "callback" => "ACTIVE" \notin ucStatus'[t]
      /\ pc' # "callback" => "ACTIVE" \in ucStatus'[t]
  <2>1. CASE where = "processNow" /\ "AUTORELOAD" \notin ucStatus[t]
    BY <1>1, <1>2, <1>4, <2>1
  <2>2. CASE ~ (where = "processNow" /\ "AUTORELOAD" \notin ucStatus[t])
    <3>1. ucStatus' = [ucStatus EXCEPT ![t] = @ \union {"ACTIVE"}] /\ pc' # "callback"
      BY <1>1, <2>2
    <3>2. "ACTIVE" \in Statuses
      BY DEF Statuses
    <3> QED
      BY <1>2, <1>4, <3>1, <3>2
  <2> QED
    BY <2>1, <2>2
<1>10. /\ xMessage.at + p \in Nat /\ xMessage.at + p <= SampleTime + MaxPeriod
       /\ due' \in [Timers -> Nat] /\ due'[t] = xMessage.at + p
  <2>1. xMessage.at + p \in Nat /\ xMessage.at + p <= SampleTime + MaxPeriod
    BY <1>2, <1>5, <1>6
  <2> QED
    BY <1>1, <1>2, <1>4, <2>1
<1>11. /\ pxTimer' = IF where = "processNow" THEN t ELSE NULL
       /\ pc' \in {"reload", "callback"} <=> where = "processNow"
       /\ xExpiredTime' \in 0..MAX_TIME
  BY <1>1, <1>4, <1>7 DEF IInv, TypeInv
<1>12. TypeInv'
  BY <1>1, <1>3, <1>4, <1>8, <1>9, <1>10, <1>11 DEF IInv, TypeInv, Labels
<1>13. ControlInv'
  BY <1>3, <1>4, <1>8, <1>11 DEF ControlInv
<1>14. CreatedInv'
  BY <1>1, <1>4, <1>8, <1>11 DEF IInv, CreatedInv
<1>15. DueInv'
  <2>1. PICK d \in Nat : d = xMessage.at + p
    BY <1>10
  <2>2. /\ due' = [due EXCEPT ![t] = d] /\ d <= SampleTime + MaxPeriod
        /\ where = "current" => d = sampleBase + next
        /\ where = "overflow" => d = sampleBase + TickValues + next
    BY <1>1, <1>7, <1>10, <2>1
  <2>3. /\ pc' = "callback" => where \notin {"current", "overflow"}
        /\ pc' = "callback" => pxTimer' = t
    BY <1>11
  <2> QED
    BY <1>1, <1>4, <1>7, <2>2, <2>3, InsertedIsDue
<1>16. ExpiredInv'
  <2>1. where = "processNow" =>
          /\ due'[t] = TimeOf(next, xLastTime, sampleBase) /\ due'[t] <= SampleTime
    <3>1. where = "processNow" => due'[t] = TimeOf(next, xLastTime, sampleBase)
      BY <1>7, <1>10
    <3>2. TimeOf(next, xLastTime, sampleBase) <= SampleTime
      BY <1>2, <1>7 DEF TimeOf
    <3> QED
      BY <3>1, <3>2
  <2> QED
    BY <1>1, <1>3, <1>4, <1>11, <2>1 DEF ExpiredInv
<1>17. StatusInv'
  <2>1. where # "processNow" => t \in Listed' /\ "ACTIVE" \in ucStatus'[t]
    BY <1>1, <1>7, <1>8, <1>9
  <2>2. \A u \in Timers : u # t => (u \in Listed' <=> u \in Listed)
    BY <1>8
  <2>3. \A u \in Timers : u # t =>
          (u \in Listed <=> u \in created /\ "ACTIVE" \in ucStatus[u])
    BY <1>0, <1>4, ConstantFacts DEF IInv, StatusInv, ActiveTimersAreListed
  <2>4. ActiveTimersAreListed'
    BY <1>1, <1>4, <1>9, <1>11, <2>1, <2>2, <2>3 DEF ActiveTimersAreListed
  <2> QED
    BY <1>4, <1>8, <1>9, <1>11, <2>4 DEF StatusInv
<1> QED
  BY <1>4, <1>8, <1>12, <1>13, <1>14, <1>15, <1>16, <1>17 DEF IInv

LEMMA StopInv ==
  ASSUME IInv, pc = "command", xMessage' = NULL, Stop(xMessage.timer),
         UNCHANGED <<application, xTimerQueue, xTickCount, base, xLastTime, sampleBase,
                     since, switching, asleep, wakeAt, cTxLock, posting>>
  PROVE  IInv'
<1>0. PICK t : t = xMessage.timer
  OBVIOUS
<1>1. /\ ucStatus' = [ucStatus EXCEPT ![t] = @ \ {"ACTIVE"}] /\ pc' = "receive"
      /\ UNCHANGED <<pxCurrentTimerList, pxOverflowTimerList, created, xItemValue,
                     xTimerPeriodInTicks, pxTimer, xExpiredTime, due>>
  BY <1>0 DEF Stop, lists, expiry
<1>2. /\ t \in created /\ t \in Timers /\ t # NULL /\ t \notin Listed
      /\ pxTimer = NULL /\ switching = "no"
      /\ LockInv' /\ SampledInv' /\ DeleteInv' /\ TimeInv' /\ SleepInv' /\ MessagesInv'
  BY <1>0, <1>1, CommandProperties
<1>3. /\ ucStatus' \in [Timers -> SUBSET Statuses] /\ Listed' = Listed
      /\ \A u \in Timers : u # t => ucStatus'[u] = ucStatus[u]
      /\ "ACTIVE" \notin ucStatus'[t]
  BY <1>1, <1>2 DEF IInv, TypeInv, Listed
<1>4. TypeInv'
  BY <1>1, <1>3 DEF IInv, TypeInv, Labels
<1>5. ControlInv' /\ CreatedInv' /\ ListsInv' /\ ExpiredInv'
  BY <1>1, <1>2, <1>3 DEF IInv, ControlInv, CreatedInv, ListsInv, ExpiredInv
<1>6. DueInv'
  BY <1>1, <1>2, <1>3 DEF IInv, DueInv, NextDue, ListBase, SampleTime
<1>7. StatusInv'
  BY <1>0, <1>1, <1>2, <1>3 DEF IInv, StatusInv, ActiveTimersAreListed
<1> QED
  BY <1>2, <1>4, <1>5, <1>6, <1>7 DEF IInv

LEMMA ChangePeriodInv ==
  ASSUME IInv, pc = "command", xMessage' = NULL, xMessage.id = "changePeriod",
         ChangePeriod(xMessage.timer),
         UNCHANGED <<application, xTimerQueue, xTickCount, base, xLastTime, sampleBase,
                     since, switching, asleep, wakeAt, cTxLock, posting>>
  PROVE  IInv'
<1>0. PICK t, p, next, where :
        /\ t = xMessage.timer /\ p = xMessage.value
        /\ next = (xTimeNow + p) % TickValues
        /\ where = IF next <= xTimeNow THEN "overflow" ELSE "current"
  OBVIOUS
<1>1. /\ InsertTimer(t, next, where) /\ pc' = "receive"
      /\ xTimerPeriodInTicks' = [xTimerPeriodInTicks EXCEPT ![t] = p]
      /\ ucStatus' = [ucStatus EXCEPT ![t] = @ \union {"ACTIVE"}]
      /\ due' = [due EXCEPT ![t] = sampleBase + xLastTime + p]
      /\ UNCHANGED <<created, pxTimer, xExpiredTime>>
  BY <1>0 DEF ChangePeriod, expiry
<1>2. /\ xLastTime \in 0..MAX_TIME /\ sampleBase \in Nat
      /\ due \in [Timers -> Nat] /\ ucStatus \in [Timers -> SUBSET Statuses]
      /\ xTimerPeriodInTicks \in [Timers -> Periods \union {0}]
      /\ SampleTime = sampleBase + xLastTime
      /\ TickValues \in Nat /\ TickValues > 0 /\ MAX_TIME = TickValues - 1
      /\ MaxPeriod \in 0..MAX_TIME
  BY ConstantFacts DEF IInv, TypeInv, SampleTime
<1>3. /\ xMessage \in Command /\ MessageOK(xMessage)
      /\ t \in created /\ t \in Timers /\ t # NULL /\ t \notin Listed
      /\ pxTimer = NULL /\ switching = "no"
      /\ xTimeNow = xLastTime /\ ListBase = sampleBase /\ ListBase' = sampleBase
      /\ SampleTime' = SampleTime
      /\ LockInv' /\ SampledInv' /\ DeleteInv' /\ TimeInv' /\ SleepInv' /\ MessagesInv'
  BY <1>0, <1>1, CommandProperties
<1>4. p \in Periods /\ p \in Nat /\ p > 0 /\ p <= MaxPeriod /\ p < TickValues
  BY <1>0, <1>3, ConstantFacts DEF MessageOK
<1>5. /\ next \in 0..MAX_TIME
      /\ where = "current" => sampleBase + xLastTime + p = sampleBase + next
      /\ where = "overflow" => sampleBase + xLastTime + p = sampleBase + TickValues + next
  <2>1. /\ p \in 0..(TickValues - 1) /\ xLastTime \in 0..(TickValues - 1)
    BY <1>2, <1>4
  <2>2. /\ next = IF xLastTime + p < TickValues THEN xLastTime + p
                  ELSE xLastTime + p - TickValues
        /\ next \in 0..(TickValues - 1)
    BY <1>0, <1>2, <1>3, <2>1, ModuloFacts
  <2>3. where = IF next <= xLastTime THEN "overflow" ELSE "current"
    BY <1>0, <1>3
  <2> QED
    BY <1>2, <1>4, <2>1, <2>2, <2>3
<1>6. /\ xItemValue' \in [Timers -> 0..MAX_TIME]
      /\ pxCurrentTimerList' \in Seq(Timers) /\ pxOverflowTimerList' \in Seq(Timers)
      /\ Listed' = Listed \union {t}
      /\ ListsInv'
  <2>1. where \in {"current", "overflow"}
    BY <1>0
  <2> QED
    BY <1>1, <1>3, <1>5, <2>1, InsertTimerProperties DEF IInv
<1>7. /\ ucStatus' \in [Timers -> SUBSET Statuses]
      /\ \A u \in Timers : u # t => ucStatus'[u] = ucStatus[u]
      /\ "ACTIVE" \in ucStatus'[t]
  BY <1>1, <1>2, <1>3 DEF Statuses
<1>8. /\ xTimerPeriodInTicks' \in [Timers -> Periods \union {0}]
      /\ \A u \in created : xTimerPeriodInTicks'[u] \in Periods
  BY <1>1, <1>2, <1>3, <1>4 DEF IInv, TypeInv, CreatedInv
<1>9. PICK d \in Nat : d = sampleBase + xLastTime + p
  BY <1>2, <1>4
<1>10. due' = [due EXCEPT ![t] = d] /\ due' \in [Timers -> Nat] /\ d <= SampleTime + MaxPeriod
  BY <1>1, <1>2, <1>3, <1>4, <1>9
<1>11. TypeInv'
  BY <1>1, <1>6, <1>7, <1>8, <1>10 DEF IInv, TypeInv, Labels
<1>12. ControlInv' /\ ExpiredInv'
  BY <1>1, <1>3 DEF ControlInv, ExpiredInv
<1>13. CreatedInv'
  BY <1>1, <1>3, <1>6, <1>8 DEF IInv, CreatedInv
<1>14. DueInv'
  BY <1>1, <1>3, <1>5, <1>9, <1>10, InsertedIsDue
<1>15. StatusInv'
  <2>1. ActiveTimersAreListed'
    BY <1>0, <1>1, <1>3, <1>6, <1>7 DEF IInv, StatusInv, ActiveTimersAreListed
  <2> QED
    BY <1>1, <2>1 DEF StatusInv
<1> QED
  BY <1>3, <1>6, <1>11, <1>12, <1>13, <1>14, <1>15 DEF IInv

LEMMA DeleteInvariant ==
  ASSUME IInv, pc = "command", xMessage' = NULL, xMessage.id = "delete",
         Delete(xMessage.timer),
         UNCHANGED <<application, xTimerQueue, xTickCount, base, xLastTime, sampleBase,
                     since, switching, asleep, wakeAt, cTxLock, posting>>
  PROVE  IInv'
<1>0. PICK t : t = xMessage.timer
  OBVIOUS
<1>1. /\ t \in StaticTimers => /\ ucStatus' = [ucStatus EXCEPT ![t] = @ \ {"ACTIVE"}]
                               /\ created' = created
      /\ t \notin StaticTimers => created' = created \ {t} /\ ucStatus' = ucStatus
      /\ pc' = "receive"
      /\ UNCHANGED <<pxCurrentTimerList, pxOverflowTimerList, xItemValue,
                     xTimerPeriodInTicks, pxTimer, xExpiredTime, due>>
  BY <1>0 DEF Delete, lists, expiry
<1>2. /\ t \in created /\ t \in Timers /\ t # NULL /\ t \notin Listed
      /\ pxTimer = NULL /\ switching = "no" /\ xMessage # NULL
      /\ LockInv' /\ SampledInv' /\ DeleteInv' /\ TimeInv' /\ SleepInv'
      /\ created \subseteq created' => MessagesInv'
  BY <1>0, <1>1, CommandProperties, ConstantFacts
<1>3. /\ ucStatus' \in [Timers -> SUBSET Statuses] /\ Listed' = Listed
      /\ \A u \in Timers : u # t => ucStatus'[u] = ucStatus[u]
      /\ t \in created' => "ACTIVE" \notin ucStatus'[t]
      /\ created \ {t} \subseteq created' /\ created' \subseteq created
  <2>1. ucStatus \in [Timers -> SUBSET Statuses]
    BY DEF IInv, TypeInv
  <2>2. Listed' = Listed
    BY <1>1 DEF Listed
  <2>3. CASE t \in StaticTimers
    <3>1. ucStatus' = [ucStatus EXCEPT ![t] = ucStatus[t] \ {"ACTIVE"}] /\ created' = created
      BY <1>1, <2>3
    <3> QED
      BY <1>2, <2>1, <2>2, <3>1
  <2>4. CASE t \notin StaticTimers
    <3>1. ucStatus' = ucStatus /\ created' = created \ {t}
      BY <1>1, <2>4
    <3> QED
      BY <1>2, <2>1, <2>2, <3>1
  <2> QED
    BY <2>3, <2>4
<1>4. TypeInv'
  BY <1>1, <1>3 DEF IInv, TypeInv, Labels
<1>5. ControlInv' /\ ListsInv' /\ ExpiredInv'
  BY <1>1, <1>2, <1>3 DEF IInv, ControlInv, ListsInv, ExpiredInv
<1>6. CreatedInv'
  BY <1>1, <1>2, <1>3 DEF IInv, CreatedInv
<1>7. MessagesInv'
  <2>1. \A m \in Outstanding' \ {NULL} : m \in Outstanding \ {NULL} /\ m.timer # t
    <3>1. \A i \in 1..Len(xTimerQueue) : xTimerQueue[i].timer # t
      BY <1>0, <1>2 DEF IInv, DeleteInv
    <3>2. \A m \in Items(xTimerQueue) : m.timer # t
      BY <3>1 DEF Items
    <3>3. \A c \in Clients : posting[c] # NULL => posting[c].timer # t
      BY <1>0, <1>2 DEF IInv, DeleteInv, About
    <3> QED
      BY <3>2, <3>3 DEF Outstanding
  <2> QED
    BY <1>3, <2>1 DEF IInv, MessagesInv, MessageOK, Now, TimeOf
<1>8. DueInv'
  BY <1>1, <1>2, <1>3 DEF IInv, DueInv, NextDue, ListBase, SampleTime
<1>9. StatusInv'
  BY <1>0, <1>1, <1>2, <1>3 DEF IInv, StatusInv, ActiveTimersAreListed
<1> QED
  BY <1>2, <1>4, <1>5, <1>6, <1>7, <1>8, <1>9 DEF IInv

LEMMA ProcessCommandInv ==
  ASSUME IInv, UNCHANGED application, ProcessCommand
  PROVE  IInv'
<1>1. /\ pc = "command" /\ xMessage' = NULL
      /\ UNCHANGED <<application, xTimerQueue, xTickCount, base, xLastTime, sampleBase,
                     since, switching, asleep, wakeAt, cTxLock, posting>>
      /\ \/ xMessage.id = "start" /\ Start(xMessage.timer)
         \/ Stop(xMessage.timer)
         \/ xMessage.id = "changePeriod" /\ ChangePeriod(xMessage.timer)
         \/ xMessage.id = "delete" /\ Delete(xMessage.timer)
  BY DEF ProcessCommand, DaemonRuns, ticks, sampled, sleep
<1> QED
  BY <1>1, StartInv, StopInv, ChangePeriodInv, DeleteInvariant

-----------------------------------------------------------------------------
LEMMA NextInv == IInv /\ [Next]_vars => IInv'
<1> SUFFICES ASSUME IInv, [Next]_vars PROVE IInv'
  OBVIOUS
<1>1. CASE UNCHANGED vars
  <2>1. UNCHANGED <<application, xTimerQueue, pxCurrentTimerList, pxOverflowTimerList,
                    created, xItemValue, xTimerPeriodInTicks, ucStatus, xTickCount, base,
                    xLastTime, sampleBase, since, pc, switching, pxTimer, xExpiredTime,
                    xMessage, asleep, wakeAt, cTxLock, posting, due>>
    BY <1>1 DEF vars, lists, fields, ticks, sampled, expiry, sleep
  <2>2. ControlInv' /\ LockInv' /\ SampledInv' /\ DeleteInv' /\ ListsInv' /\ ExpiredInv'
        /\ TimeInv' /\ SleepInv' /\ CreatedInv' /\ DueInv' /\ StatusInv'
    BY <2>1, ControlFrame, LockFrame, SampledFrame, DeleteFrame, ListsFrame, ExpiredFrame,
       TimeFrame, SleepFrame, CreatedFrame, DueFrame, StatusFrame DEF IInv
  <2>3. MessagesInv'
    BY <2>1, MessagesFrame DEF IInv, Outstanding
  <2>4. TypeInv'
    BY <2>1 DEF IInv, TypeInv
  <2> QED
    BY <2>2, <2>3, <2>4 DEF IInv
<1>2. CASE Daemon /\ UNCHANGED application
  BY <1>2, QueryInv, WaitForMessageInv, PlaceInv, UnlockInv, ExpireInv, ReloadInv,
     CallbackInv, SwitchInv, ReceiveInv, SampleInv, ProcessCommandInv DEF Daemon
<1>3. CASE Environment /\ UNCHANGED application
  BY <1>3, TickInv, CreateInv, SetReloadModeInv, PrepareInv, PostInv, CommandFailsInv,
     PostFromISRInv DEF Environment
<1> QED
  BY <1>1, <1>2, <1>3 DEF Next

LEMMA SpecInv == Spec => []IInv
<1>1. Init => IInv
  BY InitInv
<1>2. IInv /\ [Next]_vars => IInv'
  BY NextInv
<1> QED
  BY <1>1, <1>2, PTL DEF Spec

(* Every variable keeps its type.  In particular the item values and        *)
(* xLastTime stay below the overflow of the tick count and the queue within *)
(* its length.                                                              *)
THEOREM TypeCorrect == Spec => []TypeOK
<1>1. IInv => TypeOK
  BY DEF IInv, TypeInv, TypeOK, lists
<1> QED
  BY <1>1, SpecInv, PTL

(* A timer waits in the list that stands for its expiry time, whatever the  *)
(* tick count has done since it was put there.                              *)
THEOREM ListsStandForTheirTimes == Spec => []TimersInTheirList
<1>1. IInv => TimersInTheirList
  BY DEF IInv, ListsInv, DueInv, TimersInTheirList
<1> QED
  BY <1>1, SpecInv, PTL

(* No callback is called before its time.                                   *)
THEOREM CallbacksAreNotEarly == Spec => []NeverEarly
<1>1. ASSUME IInv, pc \in {"reload", "callback"}
      PROVE  due[pxTimer] <= Now
  <2>1. /\ xLastTime \in 0..MAX_TIME /\ sampleBase \in Nat
        /\ xTickCount \in 0..MAX_TIME /\ base \in Nat /\ since \in Nat
        /\ pxTimer \in Timers /\ due[pxTimer] \in Nat
        /\ SampleTime = sampleBase + xLastTime /\ Now = base + xTickCount
        /\ TickValues \in Nat /\ MAX_TIME = TickValues - 1
        /\ xExpiredTime \in 0..MAX_TIME
    BY <1>1, ConstantFacts DEF IInv, TypeInv, ControlInv, SampleTime, Now
  <2>2. SampleTime <= Now
    BY <2>1, <1>1 DEF IInv, TimeInv
  <2>3. due[pxTimer] <= SampleTime
    <3>1. CASE pc = "callback"
      BY <1>1, <3>1 DEF IInv, ExpiredInv
    <3>2. CASE pc = "reload"
      <4>1. due[pxTimer] = TimeOf(xExpiredTime, xTimeNow, ListBase)
        BY <1>1, <3>2 DEF IInv, ExpiredInv
      <4>2. \/ xTimeNow = xLastTime /\ ListBase = sampleBase
            \/ xTimeNow = MAX_TIME /\ ListBase = sampleBase - TickValues
        BY DEF xTimeNow, ListBase
      <4> QED
        BY <2>1, <4>1, <4>2 DEF TimeOf
    <3> QED
      BY <1>1, <3>1, <3>2
  <2> QED
    BY <2>1, <2>2, <2>3
<1>2. IInv => NeverEarly
  BY <1>1 DEF NeverEarly
<1> QED
  BY <1>2, SpecInv, PTL

(* The daemon does not sleep while there is a command, nor past the time of *)
(* the next timer.                                                          *)
THEOREM DaemonWakesInTime == Spec => []DaemonSleepsUntilNextTimer
<1>1. IInv => DaemonSleepsUntilNextTimer
  BY ConstantFacts DEF IInv, LockInv, SleepInv, DaemonSleepsUntilNextTimer
<1> QED
  BY <1>1, SpecInv, PTL

(* The status of a timer tells whether it is in a list.                     *)
THEOREM StatusIsTrue == Spec => []ActiveTimersAreListed
<1>1. IInv => ActiveTimersAreListed
  BY DEF IInv, StatusInv
<1> QED
  BY <1>1, SpecInv, PTL
=============================================================================

----------------------- MODULE FreeRTOSQueueTheorems -----------------------
(***************************************************************************)
(* Theorems about FreeRTOSQueue, for any tasks, messages and queues.        *)
(*                                                                          *)
(* The inductive invariant IInv has TypeOK in parts (what is stored, the    *)
(* waiting tasks, the locks, the calls, the clock), who is where in a call  *)
(* while the queue is locked, and where the write position of the ring is.  *)
(* What timeouts and wake-ups need besides is stated where it is used.      *)
(***************************************************************************)
EXTENDS FreeRTOSQueue, OrderedSequencesTheorems, FiniteSetTheorems, FunctionTheorems

(* What the operations of list.c do to a list of waiting tasks.             *)

(* vListInsert adds the item and keeps the others, keeps a list free of     *)
(* duplicates and, the reason it exists, keeps a list in value order.       *)
LEMMA ListInsertProperties ==
  ASSUME NEW S, NEW list \in Seq(S), NEW value \in [S -> Int], NEW task \in S
  PROVE  LET new == vListInsert(list, value, task)
         IN  /\ new \in Seq(S)
             /\ Items(new) = Items(list) \union {task}
             /\ task \notin Items(list) /\ NoDuplicates(list) => NoDuplicates(new)
             /\ Sorted(list, value) => Sorted(new, value)
<1>1. PICK k \in 1..(Len(list) + 1) :
        /\ k = InsertPosition(list, value, value[task])
        /\ StopsAt(list, value, value[task], k)
  BY SearchStops DEF InsertPosition
<1>2. vListInsert(list, value, task) = InsertAt(list, k, task)
  BY <1>1 DEF vListInsert
<1> QED BY <1>1, <1>2, InsertAtProperties

(* uxListRemove takes the task out of its list, and only that.              *)
LEMMA ListRemoveProperties ==
  ASSUME NEW S, NEW list \in Seq(S), NEW value \in [S -> Int], NEW task,
         NoDuplicates(list)
  PROVE  LET new == uxListRemove(list, task)
         IN  /\ new \in Seq(S)
             /\ Items(new) = Items(list) \ {task}
             /\ NoDuplicates(new)
             /\ Sorted(list, value) => Sorted(new, value)
BY WithoutProperties DEF uxListRemove

-----------------------------------------------------------------------------
Elems == Messages \union {NULL}

StoreType ==
  /\ kind \in Kinds
  /\ storage \in [0..(uxLength - 1) -> Elems]
  /\ pcWriteTo \in 0..(uxLength - 1) /\ pcReadFrom \in 0..(uxLength - 1)
  /\ uxMessagesWaiting \in 0..uxLength
  /\ buffer \in Elems /\ (uxItemSize = 0 => buffer = NULL)

WaitType ==
  /\ xTasksWaitingToSend \in Seq(Tasks) /\ xTasksWaitingToReceive \in Seq(Tasks)
  /\ asleep \in SUBSET Tasks
  /\ wakeTime \in [Tasks -> 0..MaxDelay \union {NULL}]

LockType ==
  /\ cTxLock \in queueUNLOCKED..(Cardinality(Tasks) + 1)
  /\ cRxLock \in queueUNLOCKED..(Cardinality(Tasks) + 1)
  /\ suspended \in Tasks \union {NULL}

CallType ==
  /\ pc \in [Tasks -> Labels]
  /\ call \in [Tasks -> SendCalls \union ReceiveCalls \union {NULL}]
  /\ item \in [Tasks -> Elems]
  /\ xTicksToWait \in [Tasks -> 0..MaxDelay]
  /\ xTimeOut \in [Tasks -> TimeOuts \union {NULL}]
  /\ remaining \in [Tasks -> (- MaxLate)..MaxDelay]

TickType ==
  xTickCount \in 0..MaxDelay /\ xNumOfOverflows \in 0..(NumOverflows - 1)

(* The queue is locked while a task is between locking and unlocking it;    *)
(* that task has suspended the scheduler.                                   *)
Locked(t) ==
  /\ pc[t] \in {"checkState", "place", "unlockTx", "unlockRx"} =>
       suspended = t /\ cRxLock # queueUNLOCKED
  /\ pc[t] \in {"checkState", "place", "unlockTx"} => cTxLock # queueUNLOCKED

(* A task that is about to check for a timeout knows when it began to wait, *)
(* and makes a call that the kind of queue allows.                          *)
Legal(t) ==
  /\ pc[t] = "lock" => xTimeOut[t] \in TimeOuts
  /\ pc[t] = "application" \/ call[t] \in kind.calls

(* The write position is the place after the last message; when the queue   *)
(* is full that is the place of the first.                                  *)
RingOK ==
  uxItemSize # 0 =>
    pcWriteTo = Slot(IF uxMessagesWaiting = uxLength THEN 1
                     ELSE uxMessagesWaiting + 1)

IInv ==
  /\ StoreType
  /\ WaitType
  /\ LockType
  /\ CallType
  /\ TickType
  /\ \A t \in Tasks : Locked(t) /\ Legal(t)
  /\ RingOK

-----------------------------------------------------------------------------
(* Lemmas about sequences given as functions.                               *)

LEMMA FunctionIsSequence ==
  ASSUME NEW S, NEW n \in Nat, NEW f \in [1..n -> S]
  PROVE  f \in Seq(S) /\ Len(f) = n
OBVIOUS

LEMMA IsAppend ==
  ASSUME NEW S, NEW s \in Seq(S), NEW x \in S,
         NEW f \in [1..(Len(s) + 1) -> S],
         \A i \in 1..Len(s) : f[i] = s[i], f[Len(s) + 1] = x
  PROVE  f = Append(s, x)
<1>1. Len(s) \in Nat
  BY LenProperties
<1>2. f \in Seq(S) /\ Len(f) = Len(s) + 1
  BY <1>1, FunctionIsSequence
<1>3. Append(s, x) \in Seq(S) /\ Len(Append(s, x)) = Len(s) + 1
  OBVIOUS
<1>4. \A i \in 1..Len(f) : f[i] = Append(s, x)[i]
  BY <1>1, <1>2
<1> QED
  BY <1>2, <1>3, <1>4, SeqEqual

LEMMA IsPrepend ==
  ASSUME NEW S, NEW s \in Seq(S), NEW x \in S,
         NEW f \in [1..(Len(s) + 1) -> S],
         f[1] = x, \A i \in 1..Len(s) : f[i + 1] = s[i]
  PROVE  f = <<x>> \o s
<1>1. Len(s) \in Nat
  BY LenProperties
<1>2. f \in Seq(S) /\ Len(f) = Len(s) + 1
  BY <1>1, FunctionIsSequence
<1>3. <<x>> \in Seq(S) /\ Len(<<x>>) = 1 /\ <<x>>[1] = x
  OBVIOUS
<1>4. /\ <<x>> \o s \in Seq(S) /\ Len(<<x>> \o s) = 1 + Len(s)
      /\ \A i \in 1..(1 + Len(s)) :
           (<<x>> \o s)[i] = IF i <= 1 THEN <<x>>[i] ELSE s[i - 1]
  BY <1>3, ConcatProperties
<1>5. \A i \in 1..Len(f) : f[i] = (<<x>> \o s)[i]
  <2> SUFFICES ASSUME NEW i \in 1..Len(f) PROVE f[i] = (<<x>> \o s)[i]
    OBVIOUS
  <2>1. CASE i = 1
    BY <1>1, <1>2, <1>3, <1>4, <2>1
  <2>2. CASE i # 1
    <3>1. i - 1 \in 1..Len(s) /\ (i - 1) + 1 = i /\ ~ (i <= 1) /\ i \in 1..(1 + Len(s))
      BY <1>1, <1>2, <2>2
    <3>2. f[i] = s[i - 1]
      BY <3>1
    <3> QED
      BY <1>4, <3>1, <3>2
  <2> QED
    BY <2>1, <2>2
<1> QED
  BY <1>1, <1>2, <1>4, <1>5, SeqEqual

LEMMA IsTail ==
  ASSUME NEW S, NEW s \in Seq(S), s # <<>>,
         NEW f \in [1..(Len(s) - 1) -> S],
         \A i \in 1..(Len(s) - 1) : f[i] = s[i + 1]
  PROVE  f = Tail(s)
<1>1. Len(s) \in Nat \ {0}
  BY EmptySeq
<1>2. f \in Seq(S) /\ Len(f) = Len(s) - 1
  BY <1>1, FunctionIsSequence
<1> QED
  BY <1>1, <1>2, HeadTailProperties, SeqEqual

-----------------------------------------------------------------------------
(* The ring.  What a step does to what is stored is one of these.           *)

Sends(x, position) ==
  /\ HasSpace \/ position = "overwrite"
  /\ position = "overwrite" => uxLength = 1 /\ uxItemSize # 0
  /\ prvCopyDataToQueue(x, position)
  /\ UNCHANGED <<kind, buffer>>

Receives ==
  /\ ~ IsEmpty
  /\ prvCopyDataFromQueue
  /\ uxMessagesWaiting' = uxMessagesWaiting - 1
  /\ UNCHANGED kind

Peeks ==
  /\ ~ IsEmpty
  /\ IF uxItemSize = 0 THEN UNCHANGED buffer ELSE buffer' = storage[Up(pcReadFrom)]
  /\ UNCHANGED <<kind, ring, uxMessagesWaiting>>

Resets ==
  /\ uxMessagesWaiting' = 0
  /\ pcWriteTo' = 0 /\ pcReadFrom' = uxLength - 1
  /\ UNCHANGED <<kind, storage, buffer>>

KeepsStore == UNCHANGED <<kind, ring, uxMessagesWaiting, buffer>>

StoreStep ==
  \/ \E x \in Elems, position \in SendCalls : Sends(x, position)
  \/ Receives
  \/ Peeks
  \/ Resets
  \/ KeepsStore

LEMMA KindFacts ==
  ASSUME kind \in Kinds
  PROVE  /\ uxLength \in Nat \ {0} /\ uxItemSize \in Nat
         /\ kind.calls \subseteq TaskCalls /\ kind.isrCalls \subseteq IsrCalls
         /\ kind.waits \subseteq 0..MaxDelay
         /\ "take" \in kind.calls \/ "give" \in kind.isrCalls => uxItemSize = 0
         /\ "overwrite" \in kind.calls \union kind.isrCalls
              => uxLength = 1 /\ uxItemSize # 0
BY ConstantsAssumption DEF uxLength, uxItemSize

LEMMA SlotFacts ==
  ASSUME StoreType
  PROVE  /\ \A i \in 1..uxLength : Slot(i) \in 0..(uxLength - 1)
         /\ \A i, j \in 1..uxLength : i # j => Slot(i) # Slot(j)
         /\ Slot(uxLength) = pcReadFrom
         /\ Slot(1) = Up(pcReadFrom)
<1>1. uxLength \in Nat \ {0} /\ pcReadFrom \in 0..(uxLength - 1)
  BY KindFacts DEF StoreType
<1>2. \A i \in 1..uxLength : Slot(i) \in 0..(uxLength - 1)
  BY <1>1 DEF Slot
<1>3. \A i, j \in 1..uxLength : i # j => Slot(i) # Slot(j)
  BY <1>1 DEF Slot
<1>4. Slot(uxLength) = pcReadFrom /\ Slot(1) = Up(pcReadFrom)
  BY <1>1 DEF Slot, Up
<1> QED
  BY <1>2, <1>3, <1>4

LEMMA ContentFacts ==
  ASSUME StoreType
  PROVE  /\ Content \in Seq(Elems) /\ Len(Content) = uxMessagesWaiting
         /\ \A i \in 1..uxMessagesWaiting :
              Content[i] = IF uxItemSize = 0 THEN NULL ELSE storage[Slot(i)]
<1>1. uxLength \in Nat \ {0} /\ uxMessagesWaiting \in 0..uxLength
  BY KindFacts DEF StoreType
<1>2. \A i \in 1..uxMessagesWaiting :
        (IF uxItemSize = 0 THEN NULL ELSE storage[Slot(i)]) \in Elems
  BY <1>1, SlotFacts DEF StoreType, Elems
<1>3. Content \in [1..uxMessagesWaiting -> Elems]
  BY <1>2 DEF Content
<1>4. Content \in Seq(Elems) /\ Len(Content) = uxMessagesWaiting
  BY <1>1, <1>3, FunctionIsSequence
<1> QED
  BY <1>4 DEF Content

(* A semaphore counts: its content is a sequence of nothings.               *)
LEMMA SemaphoreStep ==
  ASSUME StoreType, uxItemSize = 0, HasSpace, UNCHANGED <<kind, ring, buffer>>,
         uxMessagesWaiting' = uxMessagesWaiting + 1
  PROVE  StoreType' /\ RingOK' /\ Content' = Append(Content, NULL)
<1>1. uxLength \in Nat \ {0} /\ uxMessagesWaiting \in 0..uxLength
  BY KindFacts DEF StoreType
<1>2. uxLength' = uxLength /\ uxItemSize' = 0
  BY DEF uxLength, uxItemSize
<1>3. StoreType'
  BY <1>1, <1>2 DEF StoreType, HasSpace, ring
<1>4. Content' = [i \in 1..(uxMessagesWaiting + 1) |-> NULL]
  BY <1>2 DEF Content
<1>5. /\ Content \in Seq(Elems) /\ Len(Content) = uxMessagesWaiting
      /\ \A i \in 1..uxMessagesWaiting : Content[i] = NULL
  BY ContentFacts
<1>6. Content' = Append(Content, NULL)
  <2>1. NULL \in Elems
    BY DEF Elems
  <2>2. Content' \in [1..(Len(Content) + 1) -> Elems]
    BY <1>4, <1>5, <2>1
  <2>3. \A i \in 1..Len(Content) : Content'[i] = Content[i]
    BY <1>1, <1>4, <1>5
  <2>4. Content'[Len(Content) + 1] = NULL
    BY <1>1, <1>4, <1>5
  <2> QED
    BY <1>5, <2>1, <2>2, <2>3, <2>4, IsAppend
<1> QED
  BY <1>2, <1>3, <1>6 DEF RingOK

(* Sending to the back writes behind the last message.                      *)
LEMMA SendToBackStep ==
  ASSUME StoreType, RingOK, uxItemSize # 0, HasSpace, NEW x \in Elems,
         UNCHANGED <<kind, buffer, pcReadFrom>>,
         storage' = [storage EXCEPT ![pcWriteTo] = x],
         pcWriteTo' = Up(pcWriteTo),
         uxMessagesWaiting' = uxMessagesWaiting + 1
  PROVE  StoreType' /\ RingOK' /\ Content' = Append(Content, x)
<1> DEFINE n == uxMessagesWaiting
<1>1. /\ uxLength \in Nat \ {0} /\ n \in 0..(uxLength - 1)
      /\ pcReadFrom \in 0..(uxLength - 1) /\ pcWriteTo \in 0..(uxLength - 1)
  BY KindFacts DEF StoreType, HasSpace
<1>2. uxLength' = uxLength /\ uxItemSize' = uxItemSize
  BY DEF uxLength, uxItemSize
<1>3. \A i : Slot(i)' = Slot(i)
  BY <1>2 DEF Slot
<1>4. pcWriteTo = Slot(n + 1)
  BY <1>1 DEF RingOK
<1>5. StoreType'
  <2>1. storage' \in [0..(uxLength - 1) -> Elems]
    BY <1>1 DEF StoreType
  <2>2. pcWriteTo' \in 0..(uxLength - 1)
    BY <1>1 DEF Up
  <2> QED
    BY <1>1, <1>2, <2>1, <2>2 DEF StoreType
<1>6. RingOK'
  <2>1. pcWriteTo' = Slot(IF n + 1 = uxLength THEN 1 ELSE n + 2)
    BY <1>1, <1>4 DEF Slot, Up
  <2> QED
    BY <1>1, <1>2, <1>3, <2>1 DEF RingOK
<1>7. /\ Content \in Seq(Elems) /\ Len(Content) = n
      /\ \A i \in 1..n : Content[i] = storage[Slot(i)]
  BY ContentFacts
<1>8. Content' = [i \in 1..(n + 1) |-> storage'[Slot(i)]]
  BY <1>2, <1>3 DEF Content
<1>9. \A i \in 1..n : storage'[Slot(i)] = storage[Slot(i)]
  BY <1>1, <1>4, SlotFacts DEF StoreType
<1>10. storage'[Slot(n + 1)] = x
  BY <1>1, <1>4 DEF StoreType
<1>11. \A i \in 1..(n + 1) : storage'[Slot(i)] \in Elems
  BY <1>1, <1>7, <1>9, <1>10, SlotFacts DEF StoreType
<1>12. Content' \in [1..(Len(Content) + 1) -> Elems]
  BY <1>7, <1>8, <1>11
<1>13. \A i \in 1..Len(Content) : Content'[i] = Content[i]
  BY <1>1, <1>7, <1>8, <1>9
<1>14. Content'[Len(Content) + 1] = x
  BY <1>1, <1>7, <1>8, <1>10
<1> QED
  BY <1>5, <1>6, <1>7, <1>12, <1>13, <1>14, IsAppend

(* Sending to the front writes at the read position, which then moves back. *)
LEMMA SendToFrontStep ==
  ASSUME StoreType, RingOK, uxItemSize # 0, HasSpace, NEW x \in Elems,
         UNCHANGED <<kind, buffer, pcWriteTo>>,
         storage' = [storage EXCEPT ![pcReadFrom] = x],
         pcReadFrom' = Down(pcReadFrom),
         uxMessagesWaiting' = uxMessagesWaiting + 1
  PROVE  StoreType' /\ RingOK' /\ Content' = <<x>> \o Content
<1> PICK n \in Nat : n = uxMessagesWaiting
  BY KindFacts DEF StoreType
<1>1. /\ uxLength \in Nat \ {0} /\ n \in 0..(uxLength - 1)
      /\ pcReadFrom \in 0..(uxLength - 1) /\ pcWriteTo \in 0..(uxLength - 1)
  BY KindFacts DEF StoreType, HasSpace
<1>2. uxLength' = uxLength /\ uxItemSize' = uxItemSize
  BY DEF uxLength, uxItemSize
<1>3. Slot(1)' = pcReadFrom /\ \A i \in 1..(uxLength - 1) : Slot(i + 1)' = Slot(i)
  BY <1>1, <1>2 DEF Slot, Down
<1>4. pcWriteTo = Slot(n + 1)
  BY <1>1 DEF RingOK
<1>5. StoreType'
  <2>1. storage' \in [0..(uxLength - 1) -> Elems]
    BY <1>1 DEF StoreType
  <2>2. pcReadFrom' \in 0..(uxLength - 1)
    BY <1>1 DEF Down
  <2> QED
    BY <1>1, <1>2, <2>1, <2>2 DEF StoreType
<1>6. RingOK'
  <2>0. n + 1 \in 1..uxLength /\ uxMessagesWaiting' = n + 1
    BY <1>1
  <2>1. CASE n + 1 = uxLength
    <3>1. Slot(1)' = pcReadFrom /\ pcWriteTo' = Slot(uxLength)
      BY <1>3, <1>4, <2>1
    <3> QED
      BY <1>2, <2>0, <2>1, <3>1, SlotFacts DEF RingOK
  <2>2. CASE n + 1 # uxLength
    <3>1. Slot((n + 1) + 1)' = Slot(n + 1)
      BY <1>1, <1>3, <2>2
    <3>2. pcWriteTo' = Slot((n + 1) + 1)'
      BY <1>4, <3>1
    <3> QED
      BY <1>2, <2>0, <2>2, <3>2 DEF RingOK
  <2> QED
    BY <2>1, <2>2
<1>7. /\ Content \in Seq(Elems) /\ Len(Content) = n
      /\ \A i \in 1..n : Content[i] = storage[Slot(i)]
  BY ContentFacts
<1>8. Content' = [i \in 1..(n + 1) |-> storage'[Slot(i)']]
  BY <1>2 DEF Content
<1>9. \A i \in 1..n : storage'[Slot(i)] = storage[Slot(i)]
  BY <1>1, SlotFacts DEF StoreType
<1>10. storage'[Slot(1)'] = x
  BY <1>1, <1>3 DEF StoreType
<1>11. \A i \in 1..n : storage'[Slot(i + 1)'] = Content[i]
  BY <1>1, <1>3, <1>7, <1>9
<1>12. /\ Content'[1] = x
       /\ \A i \in 1..Len(Content) : Content'[i + 1] = Content[i]
  BY <1>1, <1>7, <1>8, <1>10, <1>11
<1>13. Content' \in [1..(Len(Content) + 1) -> Elems]
  <2>1. \A i \in 1..(n + 1) : Slot(i)' \in 0..(uxLength - 1)
    BY <1>1, <1>2, <1>5 DEF Slot, StoreType
  <2>2. \A i \in 1..(n + 1) : storage'[Slot(i)'] \in Elems
    BY <1>2, <1>5, <2>1 DEF StoreType
  <2> QED
    BY <1>7, <1>8, <2>2
<1> QED
  BY <1>5, <1>6, <1>7, <1>12, <1>13, IsPrepend

(* A queue that is overwritten has one place.                               *)
LEMMA OverwriteStep ==
  ASSUME StoreType, uxItemSize # 0, uxLength = 1, NEW x \in Elems,
         UNCHANGED <<kind, buffer, pcWriteTo>>,
         storage' = [storage EXCEPT ![pcReadFrom] = x],
         pcReadFrom' = Down(pcReadFrom),
         uxMessagesWaiting' = 1
  PROVE  StoreType' /\ RingOK' /\ Content' = <<x>>
<1>1. pcReadFrom = 0 /\ pcWriteTo = 0 /\ pcReadFrom' = 0 /\ pcWriteTo' = 0
  BY DEF StoreType, Down
<1>2. uxLength' = 1 /\ uxItemSize' = uxItemSize
  BY DEF uxLength, uxItemSize
<1>3. storage' \in [0..0 -> Elems] /\ storage'[0] = x
  BY <1>1 DEF StoreType
<1>4. StoreType'
  BY <1>1, <1>2, <1>3 DEF StoreType
<1>5. Slot(1)' = 0
  BY <1>1, <1>2 DEF Slot
<1>6. RingOK'
  BY <1>1, <1>2, <1>5 DEF RingOK
<1>7. Content' = [i \in 1..1 |-> storage'[Slot(i)']]
  BY <1>2 DEF Content
<1>8. Content' \in [1..1 -> Elems] /\ Content'[1] = x
  BY <1>3, <1>5, <1>7
<1>9. Content' \in Seq(Elems) /\ Len(Content') = 1
  BY <1>8, FunctionIsSequence
<1>10. <<x>> \in Seq(Elems) /\ Len(<<x>>) = 1 /\ <<x>>[1] = x
  OBVIOUS
<1>11. Content' = <<x>>
  BY <1>8, <1>9, <1>10, SeqEqual
<1> QED
  BY <1>4, <1>6, <1>11

(* Receiving takes the message behind the read position, which moves on.    *)
LEMMA ReceiveStep ==
  ASSUME StoreType, RingOK, Receives
  PROVE  /\ StoreType' /\ RingOK'
         /\ Content # <<>> /\ Content' = Tail(Content) /\ buffer' = Head(Content)
<1> PICK n \in Nat : n = uxMessagesWaiting
  BY KindFacts DEF StoreType
<1>1. /\ uxLength \in Nat \ {0} /\ n \in 1..uxLength
      /\ pcReadFrom \in 0..(uxLength - 1) /\ pcWriteTo \in 0..(uxLength - 1)
  BY KindFacts DEF StoreType, Receives, IsEmpty
<1>2. /\ uxLength' = uxLength /\ uxItemSize' = uxItemSize
      /\ uxMessagesWaiting' = n - 1 /\ uxMessagesWaiting' \in 0..(uxLength - 1)
  BY <1>1 DEF uxLength, uxItemSize, Receives
<1>3. /\ Content \in Seq(Elems) /\ Len(Content) = n /\ Content # <<>>
      /\ \A i \in 1..n : Content[i] = IF uxItemSize = 0 THEN NULL ELSE storage[Slot(i)]
  BY <1>1, ContentFacts, EmptySeq
<1>4. Head(Content) = Content[1]
  BY <1>3, HeadTailProperties
<1>5. CASE uxItemSize = 0
  <2>1. UNCHANGED <<kind, ring, buffer>>
    BY <1>5 DEF Receives, prvCopyDataFromQueue
  <2>2. StoreType'
    BY <1>1, <1>2, <2>1 DEF StoreType, ring
  <2>3. RingOK'
    BY <1>2, <1>5 DEF RingOK
  <2>4. Content' = [i \in 1..(n - 1) |-> NULL]
    BY <1>2, <1>5 DEF Content
  <2>5. Content' \in [1..(Len(Content) - 1) -> Elems]
    BY <1>3, <2>4 DEF Elems
  <2>6. \A i \in 1..(Len(Content) - 1) : Content'[i] = Content[i + 1]
    BY <1>1, <1>3, <1>5, <2>4
  <2>7. Content' = Tail(Content)
    BY <1>3, <2>5, <2>6, IsTail
  <2>8. buffer' = Head(Content)
    BY <1>1, <1>3, <1>4, <1>5, <2>1 DEF StoreType
  <2> QED
    BY <1>3, <2>2, <2>3, <2>7, <2>8
<1>6. CASE uxItemSize # 0
  <2>1. /\ pcReadFrom' = Up(pcReadFrom) /\ buffer' = storage[Up(pcReadFrom)]
        /\ UNCHANGED <<kind, storage, pcWriteTo>>
    BY <1>6 DEF Receives, prvCopyDataFromQueue
  <2>2. \A i \in 1..(uxLength - 1) : Slot(i)' = Slot(i + 1)
    BY <1>1, <1>2, <2>1 DEF Slot, Up
  <2>3. buffer' = Head(Content) /\ buffer' \in Elems
    BY <1>1, <1>3, <1>4, <1>6, <2>1, SlotFacts DEF StoreType
  <2>4. pcReadFrom' \in 0..(uxLength - 1)
    BY <1>1, <2>1 DEF Up
  <2>5. StoreType'
    BY <1>1, <1>2, <1>6, <2>1, <2>3, <2>4 DEF StoreType
  <2>6. RingOK'
    <3>1. CASE n = uxLength
      <4>1. pcWriteTo' = Slot(1)
        BY <1>6, <2>1, <3>1 DEF RingOK
      <4>2. Slot(uxLength)' = Slot(1)
        BY <1>1, <1>2, <2>1 DEF Slot, Up
      <4>3. uxMessagesWaiting' # uxLength /\ uxMessagesWaiting' + 1 = uxLength
        BY <1>1, <1>2, <3>1
      <4> QED
        BY <1>2, <4>1, <4>2, <4>3 DEF RingOK
    <3>2. CASE n # uxLength
      <4>1. pcWriteTo' = Slot(n + 1)
        BY <1>6, <2>1, <3>2 DEF RingOK
      <4>2. Slot(n)' = Slot(n + 1)
        BY <1>1, <2>2, <3>2
      <4>3. uxMessagesWaiting' # uxLength /\ uxMessagesWaiting' + 1 = n
        BY <1>1, <1>2
      <4> QED
        BY <1>2, <4>1, <4>2, <4>3 DEF RingOK
    <3> QED
      BY <3>1, <3>2
  <2>7. Content' = [i \in 1..(n - 1) |-> storage[Slot(i)']]
    BY <1>2, <1>6, <2>1 DEF Content
  <2>8. \A i \in 1..(n - 1) : storage[Slot(i)'] = Content[i + 1]
    <3> SUFFICES ASSUME NEW i \in 1..(n - 1) PROVE storage[Slot(i)'] = Content[i + 1]
      OBVIOUS
    <3>1. i \in 1..(uxLength - 1) /\ i + 1 \in 1..n
      BY <1>1
    <3> QED
      BY <1>3, <1>6, <2>2, <3>1
  <2>9. \A i \in 1..(n - 1) : Content[i + 1] \in Elems
    BY <1>1, <1>3
  <2>10. Content' \in [1..(Len(Content) - 1) -> Elems]
    BY <1>3, <2>7, <2>8, <2>9
  <2>11. \A i \in 1..(Len(Content) - 1) : Content'[i] = Content[i + 1]
    BY <1>1, <1>3, <2>7, <2>8
  <2>12. Content' = Tail(Content)
    BY <1>3, <2>10, <2>11, IsTail
  <2> QED
    BY <1>3, <2>3, <2>5, <2>6, <2>12
<1> QED
  BY <1>5, <1>6

LEMMA PeekStep ==
  ASSUME StoreType, RingOK, Peeks
  PROVE  /\ StoreType' /\ RingOK'
         /\ Content # <<>> /\ Content' = Content /\ buffer' = Head(Content)
<1>1. uxLength \in Nat \ {0} /\ uxMessagesWaiting \in 1..uxLength
  BY KindFacts DEF StoreType, Peeks, IsEmpty
<1>2. UNCHANGED <<kind, ring, uxMessagesWaiting>>
  BY DEF Peeks
<1>3. /\ Content \in Seq(Elems) /\ Content # <<>> /\ Head(Content) \in Elems
      /\ Head(Content) = IF uxItemSize = 0 THEN NULL ELSE storage[Slot(1)]
  BY <1>1, ContentFacts, EmptySeq, HeadTailProperties
<1>4. buffer' = Head(Content)
  BY <1>3, SlotFacts DEF Peeks, StoreType
<1>5. StoreType'
  BY <1>1, <1>2, <1>3, <1>4 DEF StoreType, ring, uxLength, uxItemSize
<1>6. RingOK'
  BY <1>2 DEF RingOK, ring, Slot, uxLength, uxItemSize
<1>7. Content' = Content
  BY <1>2 DEF Content, ring, Slot, uxLength, uxItemSize
<1> QED
  BY <1>3, <1>4, <1>5, <1>6, <1>7

LEMMA ResetStep ==
  ASSUME StoreType, Resets
  PROVE  StoreType' /\ RingOK' /\ Content' = <<>>
<1>1. uxLength \in Nat \ {0}
  BY KindFacts DEF StoreType
<1>2. uxLength' = uxLength /\ uxItemSize' = uxItemSize
  BY DEF uxLength, uxItemSize, Resets
<1>3. StoreType'
  BY <1>1, <1>2 DEF StoreType, Resets
<1>4. Slot(1)' = 0
  BY <1>1, <1>2 DEF Slot, Resets
<1>5. RingOK'
  BY <1>1, <1>2, <1>4 DEF RingOK, Resets
<1>6. Content' \in Seq(Elems) /\ Len(Content') = 0
  <2>1. Content' \in [1..0 -> Elems]
    BY DEF Content, Resets
  <2> QED
    BY <2>1, FunctionIsSequence
<1> QED
  BY <1>3, <1>5, <1>6, EmptySeq

(* Whatever a step does to what is stored, the abstract queue can do.       *)
LEMMA StoreRefines ==
  ASSUME StoreType, RingOK, StoreStep
  PROVE  StoreType' /\ RingOK' /\ [Abstract!Next]_(Abstract!vars)
<1>1. /\ uxLength \in Nat \ {0} /\ uxItemSize \in Nat
      /\ uxMessagesWaiting \in 0..uxLength
  BY KindFacts DEF StoreType
<1>2. Content \in Seq(Elems) /\ Len(Content) = uxMessagesWaiting
  BY ContentFacts
<1>3. ASSUME NEW x \in Elems, NEW position \in SendCalls, Sends(x, position)
      PROVE  StoreType' /\ RingOK' /\ Abstract!Next
  <2>1. UNCHANGED <<kind, buffer>> /\ uxLength' = uxLength
    BY <1>3 DEF Sends, uxLength
  <2>2. NULL \in Elems
    BY DEF Elems
  <2>3. CASE uxItemSize = 0
    <3>1. HasSpace /\ UNCHANGED ring /\ uxMessagesWaiting' = uxMessagesWaiting + 1
      BY <1>3, <2>3 DEF Sends, prvCopyDataToQueue
    <3>2. StoreType' /\ RingOK' /\ Content' = Append(Content, NULL)
      BY <2>1, <2>3, <3>1, SemaphoreStep
    <3>3. Abstract!SendToBack(NULL)
      BY <1>2, <2>1, <3>1, <3>2 DEF Abstract!SendToBack, HasSpace
    <3> QED
      BY <2>2, <3>2, <3>3 DEF Abstract!Next, Elems
  <2>4. CASE uxItemSize # 0 /\ position = "sendToBack"
    <3>1. /\ HasSpace /\ storage' = [storage EXCEPT ![pcWriteTo] = x]
          /\ pcWriteTo' = Up(pcWriteTo) /\ UNCHANGED pcReadFrom
          /\ uxMessagesWaiting' = uxMessagesWaiting + 1
      BY <1>3, <2>4 DEF Sends, prvCopyDataToQueue
    <3>2. StoreType' /\ RingOK' /\ Content' = Append(Content, x)
      BY <2>1, <2>4, <3>1, SendToBackStep
    <3>3. Abstract!SendToBack(x)
      BY <1>2, <2>1, <3>1, <3>2 DEF Abstract!SendToBack, HasSpace
    <3> QED
      BY <3>2, <3>3 DEF Abstract!Next, Elems
  <2>5. CASE uxItemSize # 0 /\ position = "sendToFront"
    <3>1. /\ HasSpace /\ storage' = [storage EXCEPT ![pcReadFrom] = x]
          /\ pcReadFrom' = Down(pcReadFrom) /\ UNCHANGED pcWriteTo
          /\ uxMessagesWaiting' = uxMessagesWaiting + 1
      BY <1>3, <2>5 DEF Sends, prvCopyDataToQueue
    <3>2. StoreType' /\ RingOK' /\ Content' = <<x>> \o Content
      BY <2>1, <2>5, <3>1, SendToFrontStep
    <3>3. Abstract!SendToFront(x)
      BY <1>2, <2>1, <3>1, <3>2 DEF Abstract!SendToFront, HasSpace
    <3> QED
      BY <3>2, <3>3 DEF Abstract!Next, Elems
  <2>6. CASE uxItemSize # 0 /\ position = "overwrite"
    <3>1. /\ uxLength = 1 /\ storage' = [storage EXCEPT ![pcReadFrom] = x]
          /\ pcReadFrom' = Down(pcReadFrom) /\ UNCHANGED pcWriteTo
      BY <1>3, <2>6 DEF Sends, prvCopyDataToQueue
    <3>2. uxMessagesWaiting' = 1
      BY <1>1, <1>3, <2>6, <3>1 DEF Sends, prvCopyDataToQueue, IsEmpty
    <3>3. StoreType' /\ RingOK' /\ Content' = <<x>>
      BY <2>1, <2>6, <3>1, <3>2, OverwriteStep
    <3>4. Abstract!Overwrite(x)
      BY <2>1, <3>1, <3>3 DEF Abstract!Overwrite
    <3> QED
      BY <3>3, <3>4 DEF Abstract!Next, Elems
  <2> QED
    BY <2>3, <2>4, <2>5, <2>6 DEF SendCalls
<1>4. CASE Receives
  <2>1. uxLength' = uxLength
    BY <1>4 DEF Receives, uxLength
  <2>2. Abstract!Receive /\ StoreType' /\ RingOK'
    BY <1>4, <2>1, ReceiveStep DEF Abstract!Receive
  <2> QED
    BY <2>2 DEF Abstract!Next
<1>5. CASE Peeks
  <2>1. uxLength' = uxLength
    BY <1>5 DEF Peeks, uxLength
  <2>2. Abstract!Peek /\ StoreType' /\ RingOK'
    BY <1>5, <2>1, PeekStep DEF Abstract!Peek
  <2> QED
    BY <2>2 DEF Abstract!Next
<1>6. CASE Resets
  <2>1. uxLength' = uxLength /\ buffer' = buffer
    BY <1>6 DEF Resets, uxLength
  <2>2. Abstract!Reset /\ StoreType' /\ RingOK'
    BY <1>6, <2>1, ResetStep DEF Abstract!Reset
  <2> QED
    BY <2>2 DEF Abstract!Next
<1>7. CASE KeepsStore
  <2>1. UNCHANGED <<kind, ring, uxMessagesWaiting, buffer>>
    BY <1>7 DEF KeepsStore
  <2>2. StoreType'
    BY <2>1 DEF StoreType, ring, uxLength, uxItemSize
  <2>3. RingOK'
    BY <2>1 DEF RingOK, Slot, ring, uxLength, uxItemSize
  <2>4. UNCHANGED Abstract!vars
    BY <2>1 DEF Abstract!vars, Content, Slot, ring, uxLength, uxItemSize
  <2> QED
    BY <2>2, <2>3, <2>4
<1> QED
  BY <1>3, <1>4, <1>5, <1>6, <1>7 DEF StoreStep

(* What the steps of the specification do to what is stored.                *)
LEMMA StoreChanges ==
  ASSUME IInv, [Next]_vars
  PROVE  StoreStep
<1>1. kind \in Kinds /\ \A t \in Tasks : Legal(t)
  BY DEF IInv, StoreType
<1>2. ASSUME NEW t \in Tasks, GiveUpOrWait(t), UNCHANGED kind
      PROVE  StoreStep
  BY <1>2 DEF GiveUpOrWait, StoreStep, KeepsStore, ring
<1>3. ASSUME NEW t \in Tasks, xQueueGenericSend(t)
      PROVE  StoreStep
  <2>1. UNCHANGED kind /\ call[t] \in SendCalls
    BY <1>3 DEF xQueueGenericSend, Attempts
  <2>2. CASE HasSpace \/ call[t] = "overwrite"
    <3>1. prvCopyDataToQueue(item[t], call[t]) /\ UNCHANGED buffer
      BY <1>3, <2>2 DEF xQueueGenericSend
    <3>2. item[t] \in Elems
      BY DEF IInv, CallType
    <3>3. call[t] = "overwrite" => uxLength = 1 /\ uxItemSize # 0
      <4>1. call[t] \in kind.calls
        BY <1>1, <1>3 DEF Legal, xQueueGenericSend, Attempts
      <4> QED
        BY <1>1, <4>1, KindFacts
    <3>4. Sends(item[t], call[t])
      BY <2>1, <2>2, <3>1, <3>3 DEF Sends
    <3> QED
      BY <2>1, <3>2, <3>4 DEF StoreStep
  <2>3. CASE ~ (HasSpace \/ call[t] = "overwrite")
    BY <1>2, <1>3, <2>1, <2>3 DEF xQueueGenericSend
  <2> QED
    BY <2>2, <2>3
<1>4. ASSUME NEW t \in Tasks, xQueueReceive(t)
      PROVE  StoreStep
  <2>1. UNCHANGED kind
    BY <1>4 DEF xQueueReceive, Attempts
  <2>2. CASE ~ IsEmpty
    BY <1>4, <2>1, <2>2 DEF xQueueReceive, Receives, StoreStep
  <2>3. CASE IsEmpty
    BY <1>2, <1>4, <2>1, <2>3 DEF xQueueReceive
  <2> QED
    BY <2>2, <2>3
<1>5. ASSUME NEW t \in Tasks, xQueueSemaphoreTake(t)
      PROVE  StoreStep
  <2>1. UNCHANGED kind /\ call[t] = "take"
    BY <1>5 DEF xQueueSemaphoreTake, Attempts
  <2>2. CASE ~ IsEmpty
    <3>0. call[t] \in kind.calls
      BY <1>1, <1>5 DEF Legal, xQueueSemaphoreTake, Attempts
    <3>1. uxItemSize = 0
      BY <1>1, <2>1, <3>0, KindFacts
    <3>2. UNCHANGED <<ring, buffer>> /\ uxMessagesWaiting' = uxMessagesWaiting - 1
      BY <1>5, <2>2 DEF xQueueSemaphoreTake
    <3> QED
      BY <2>1, <2>2, <3>1, <3>2 DEF Receives, prvCopyDataFromQueue, StoreStep
  <2>3. CASE IsEmpty
    BY <1>2, <1>5, <2>1, <2>3 DEF xQueueSemaphoreTake
  <2> QED
    BY <2>2, <2>3
<1>6. ASSUME NEW t \in Tasks, xQueuePeek(t)
      PROVE  StoreStep
  <2>1. UNCHANGED kind
    BY <1>6 DEF xQueuePeek, Attempts
  <2>2. CASE ~ IsEmpty
    BY <1>6, <2>1, <2>2 DEF xQueuePeek, Peeks, StoreStep
  <2>3. CASE IsEmpty
    BY <1>2, <1>6, <2>1, <2>3 DEF xQueuePeek
  <2> QED
    BY <2>2, <2>3
<1>7. ASSUME NEW t \in Tasks, xQueueGenericReset(t)
      PROVE  StoreStep
  BY <1>7 DEF xQueueGenericReset, Resets, StoreStep
<1>8. ASSUME xQueueGenericSendFromISR
      PROVE  StoreStep
  <2>1. PICK position \in kind.isrCalls \intersect SendCalls, x \in Messages :
          /\ HasSpace \/ position = "overwrite"
          /\ prvCopyDataToQueue(x, position)
    BY <1>8 DEF xQueueGenericSendFromISR
  <2>2. position = "overwrite" => uxLength = 1 /\ uxItemSize # 0
    BY <1>1, KindFacts
  <2>3. UNCHANGED <<kind, buffer>> /\ x \in Elems
    BY <1>8 DEF xQueueGenericSendFromISR, Elems
  <2>4. Sends(x, position)
    BY <2>1, <2>2, <2>3 DEF Sends
  <2> QED
    BY <2>3, <2>4 DEF StoreStep
<1>9. ASSUME xQueueGiveFromISR
      PROVE  StoreStep
  <2>1. /\ "give" \in kind.isrCalls /\ HasSpace /\ UNCHANGED <<kind, ring, buffer>>
        /\ uxMessagesWaiting' = uxMessagesWaiting + 1
    BY <1>9 DEF xQueueGiveFromISR
  <2>2. uxItemSize = 0
    BY <1>1, <2>1, KindFacts
  <2>3. Sends(NULL, "sendToBack")
    BY <2>1, <2>2 DEF Sends, prvCopyDataToQueue
  <2>4. NULL \in Elems /\ "sendToBack" \in SendCalls
    BY DEF Elems, SendCalls
  <2> QED
    BY <2>3, <2>4 DEF StoreStep
<1>10. ASSUME xQueueReceiveFromISR
       PROVE  StoreStep
  BY <1>10 DEF xQueueReceiveFromISR, Receives, StoreStep
<1>11. ASSUME NEW t \in Tasks,
              \/ Call(t) \/ prvLockQueue(t) \/ CheckState(t)
              \/ vTaskPlaceOnEventList(t) \/ UnlockTx(t) \/ UnlockRx(t)
              \/ TimedOut(t) \/ WakeDue(t)
       PROVE  KeepsStore
  BY <1>11 DEF Call, prvLockQueue, CheckState, vTaskPlaceOnEventList, UnlockTx,
               UnlockRx, TimedOut, WakeDue, KeepsStore, ring
<1>12. Tick \/ UNCHANGED vars => KeepsStore
  BY DEF Tick, vars, KeepsStore, ring
<1> QED
  BY <1>3, <1>4, <1>5, <1>6, <1>7, <1>8, <1>9, <1>10, <1>11, <1>12
     DEF Next, Continue, StoreStep

-----------------------------------------------------------------------------
(* The waiting tasks.                                                       *)

LEMMA RestType ==
  ASSUME NEW S, NEW list \in Seq(S), NEW n \in Nat
  PROVE  Rest(list, n) \in Seq(S) /\ FirstOf(list, n) \subseteq S
<1>1. Len(list) \in Nat /\ \A i \in 1..Len(list) : list[i] \in S
  BY LenProperties
<1>2. \A i \in (n + 1)..Len(list) : list[i] \in S
  BY <1>1
<1>3. SubSeq(list, n + 1, Len(list)) \in Seq(S)
  BY <1>1, <1>2, SubSeqProperties
<1>4. Rest(list, n) \in Seq(S)
  BY <1>3 DEF Rest
<1>5. FirstOf(list, n) \subseteq S
  BY <1>1 DEF FirstOf
<1> QED
  BY <1>4, <1>5

LEMMA RemoveType ==
  ASSUME NEW S, NEW list \in Seq(S), NEW e
  PROVE  uxListRemove(list, e) \in Seq(S)
<1>1. CASE \E i \in 1..Len(list) : list[i] = e
  <2>1. PICK k \in 1..Len(list) : k = CHOOSE i \in 1..Len(list) : list[i] = e
    BY <1>1
  <2>2. RemoveAt(list, k) \in Seq(S)
    BY <2>1, RemoveAtSeq
  <2>3. Without(list, e) \in {RemoveAt(list, k), list}
    BY <2>1 DEF Without
  <2> QED
    BY <2>2, <2>3 DEF uxListRemove
<1>2. CASE ~ \E i \in 1..Len(list) : list[i] = e
  BY <1>2 DEF uxListRemove, Without, Contains
<1> QED
  BY <1>1, <1>2

(* A wake-up keeps the types of the waiting tasks.                          *)
LEMMA WakeType ==
  ASSUME WaitType, NEW n \in Nat, WakeReceivers(n) \/ WakeSenders(n)
  PROVE  WaitType'
<1>1. CASE WakeReceivers(n)
  <2>1. xTasksWaitingToReceive' \in Seq(Tasks)
    BY <1>1, RestType DEF WakeReceivers, WaitType
  <2> QED
    BY <1>1, <2>1 DEF WakeReceivers, Awake, WaitType
<1>2. CASE WakeSenders(n)
  <2>1. xTasksWaitingToSend' \in Seq(Tasks)
    BY <1>2, RestType DEF WakeSenders, WaitType
  <2> QED
    BY <1>2, <2>1 DEF WakeSenders, Awake, WaitType
<1> QED
  BY <1>1, <1>2

LEMMA CountOfTasks ==
  Cardinality(Tasks) \in Nat
BY ConstantsAssumption, FS_CardinalityType

LEMMA WaitTypeStep ==
  ASSUME IInv, [Next]_vars
  PROVE  WaitType'
<1>1. WaitType
  BY DEF IInv
<1>2. UNCHANGED waiting => WaitType'
  BY <1>1 DEF WaitType, waiting
<1>3. \A n \in Nat : WakeReceivers(n) \/ WakeSenders(n) => WaitType'
  BY <1>1, WakeType
<1>4. WakeReceivers(1) \/ WakeSenders(1) => WaitType'
  BY <1>3
<1>5. ASSUME NEW t \in Tasks, Call(t) PROVE WaitType'
  BY <1>2, <1>5 DEF Call
<1>6. ASSUME NEW t \in Tasks, GiveUpOrWait(t) PROVE WaitType'
  BY <1>2, <1>6 DEF GiveUpOrWait
<1>7. ASSUME NEW t \in Tasks, xQueueGenericSend(t) PROVE WaitType'
  BY <1>4, <1>6, <1>7 DEF xQueueGenericSend
<1>8. ASSUME NEW t \in Tasks, xQueueReceive(t) PROVE WaitType'
  BY <1>4, <1>6, <1>8 DEF xQueueReceive
<1>9. ASSUME NEW t \in Tasks, xQueueSemaphoreTake(t) PROVE WaitType'
  BY <1>4, <1>6, <1>9 DEF xQueueSemaphoreTake
<1>10. ASSUME NEW t \in Tasks, xQueuePeek(t) PROVE WaitType'
  BY <1>4, <1>6, <1>10 DEF xQueuePeek
<1>11. ASSUME NEW t \in Tasks, prvLockQueue(t) \/ CheckState(t) \/ TimedOut(t)
       PROVE  WaitType'
  BY <1>2, <1>11 DEF prvLockQueue, CheckState, TimedOut
<1>12. ASSUME NEW t \in Tasks, vTaskPlaceOnEventList(t) PROVE WaitType'
  <2>1. EventValue \in [Tasks -> Int]
    BY ConstantsAssumption
  <2>2. /\ vListInsert(xTasksWaitingToSend, EventValue, t) \in Seq(Tasks)
        /\ vListInsert(xTasksWaitingToReceive, EventValue, t) \in Seq(Tasks)
    BY <1>1, <2>1, ListInsertProperties DEF WaitType
  <2>3. xTasksWaitingToSend' \in Seq(Tasks) /\ xTasksWaitingToReceive' \in Seq(Tasks)
    BY <1>1, <1>12, <2>2 DEF WaitType, vTaskPlaceOnEventList
  <2>4. (xTickCount + xTicksToWait[t]) % (MaxDelay + 1) \in 0..MaxDelay
    <3>1. xTickCount \in Nat /\ xTicksToWait[t] \in Nat /\ MaxDelay \in Nat
      BY ConstantsAssumption DEF IInv, TickType, CallType
    <3> QED
      BY <3>1
  <2>5. wakeTime' \in [Tasks -> 0..MaxDelay \union {NULL}]
    BY <1>1, <1>12, <2>4 DEF WaitType, vTaskPlaceOnEventList
  <2>6. asleep' \in SUBSET Tasks
    BY <1>1, <1>12 DEF WaitType, vTaskPlaceOnEventList
  <2> QED
    BY <2>3, <2>5, <2>6 DEF WaitType
<1>13. ASSUME NEW t \in Tasks, UnlockTx(t) PROVE WaitType'
  <2>1. cTxLock \in Nat
    BY <1>13, CountOfTasks DEF UnlockTx, IInv, Locked, LockType, queueUNLOCKED
  <2> QED
    BY <1>3, <1>13, <2>1 DEF UnlockTx
<1>14. ASSUME NEW t \in Tasks, UnlockRx(t) PROVE WaitType'
  <2>1. cRxLock \in Nat
    BY <1>14, CountOfTasks DEF UnlockRx, IInv, Locked, LockType, queueUNLOCKED
  <2> QED
    BY <1>3, <1>14, <2>1 DEF UnlockRx
<1>15. ASSUME NEW t \in Tasks, xQueueGenericReset(t) PROVE WaitType'
  BY <1>4, <1>15 DEF xQueueGenericReset
<1>16. ASSUME NEW t \in Tasks, WakeDue(t) PROVE WaitType'
  <2>1. xTasksWaitingToSend' \in Seq(Tasks) /\ xTasksWaitingToReceive' \in Seq(Tasks)
    BY <1>1, <1>16, RemoveType DEF WaitType, WakeDue
  <2> QED
    BY <1>1, <1>16, <2>1 DEF WaitType, WakeDue, Awake
<1>17. WakeReceiverOrCount \/ WakeSenderOrCount => WaitType'
  BY <1>2, <1>4 DEF WakeReceiverOrCount, WakeSenderOrCount
<1>18. xQueueGenericSendFromISR \/ xQueueGiveFromISR \/ xQueueReceiveFromISR => WaitType'
  BY <1>17 DEF xQueueGenericSendFromISR, xQueueGiveFromISR, xQueueReceiveFromISR
<1>19. Tick \/ UNCHANGED vars => WaitType'
  BY <1>2 DEF Tick, vars
<1> QED
  BY <1>5, <1>7, <1>8, <1>9, <1>10, <1>11, <1>12, <1>13, <1>14, <1>15, <1>16, <1>18,
     <1>19 DEF Next, Continue

-----------------------------------------------------------------------------
(* The locks and the clock.                                                 *)

LEMMA LockTypeStep ==
  ASSUME IInv, [Next]_vars
  PROVE  LockType'
<1>1. LockType /\ Cardinality(Tasks) \in Nat
  BY CountOfTasks DEF IInv
<1>2. UNCHANGED <<locks, suspended>> => LockType'
  BY <1>1 DEF LockType, locks
<1>3. ASSUME NEW lock \in queueUNLOCKED..(Cardinality(Tasks) + 1)
      PROVE  Increment(lock) \in queueUNLOCKED..(Cardinality(Tasks) + 1)
  BY <1>1 DEF Increment, queueUNLOCKED
<1>4. ASSUME NEW t \in Tasks,
             \/ Call(t) \/ xQueueGenericSend(t) \/ xQueueReceive(t)
             \/ xQueueSemaphoreTake(t) \/ xQueuePeek(t) \/ CheckState(t)
             \/ vTaskPlaceOnEventList(t) \/ TimedOut(t) \/ WakeDue(t)
      PROVE  LockType'
  BY <1>2, <1>4 DEF Call, xQueueGenericSend, xQueueReceive, xQueueSemaphoreTake,
                    xQueuePeek, Attempts, CheckState, vTaskPlaceOnEventList, TimedOut,
                    WakeDue
<1>5. ASSUME NEW t \in Tasks, prvLockQueue(t) PROVE LockType'
  BY <1>1, <1>5 DEF prvLockQueue, LockType, queueUNLOCKED, queueLOCKED_UNMODIFIED
<1>6. ASSUME NEW t \in Tasks, UnlockTx(t) \/ UnlockRx(t) \/ xQueueGenericReset(t)
      PROVE  LockType'
  BY <1>1, <1>6 DEF UnlockTx, UnlockRx, xQueueGenericReset, LockType, queueUNLOCKED
<1>7. WakeReceiverOrCount /\ UNCHANGED suspended => LockType'
  BY <1>1, <1>3 DEF WakeReceiverOrCount, LockType, locks
<1>8. WakeSenderOrCount /\ UNCHANGED suspended => LockType'
  BY <1>1, <1>3 DEF WakeSenderOrCount, LockType, locks
<1>9. xQueueGenericSendFromISR \/ xQueueGiveFromISR \/ xQueueReceiveFromISR => LockType'
  BY <1>7, <1>8 DEF xQueueGenericSendFromISR, xQueueGiveFromISR, xQueueReceiveFromISR
<1>10. Tick \/ UNCHANGED vars => LockType'
  BY <1>2 DEF Tick, vars
<1> QED
  BY <1>4, <1>5, <1>6, <1>9, <1>10 DEF Next, Continue

LEMMA TickTypeStep ==
  ASSUME IInv, [Next]_vars
  PROVE  TickType'
<1>1. TickType /\ MaxDelay \in Nat /\ NumOverflows \in Nat \ {0}
  BY ConstantsAssumption DEF IInv
<1>2. ASSUME Tick PROVE TickType'
  <2>1. xTickCount' \in 0..MaxDelay
    BY <1>1, <1>2 DEF Tick, TickType
  <2>2. (xNumOfOverflows + 1) % NumOverflows \in 0..(NumOverflows - 1)
    <3>1. xNumOfOverflows + 1 \in Nat
      BY <1>1 DEF TickType
    <3> QED
      BY <1>1, <3>1
  <2>3. xNumOfOverflows' \in 0..(NumOverflows - 1)
    BY <1>1, <1>2, <2>2 DEF Tick, TickType
  <2> QED
    BY <2>1, <2>3 DEF TickType
<1>3. ASSUME NEW t \in Tasks,
             \/ Call(t) \/ Continue(t) \/ xQueueGenericReset(t) \/ WakeDue(t)
      PROVE  UNCHANGED ticks
  BY <1>3 DEF Call, Continue, xQueueGenericSend, xQueueReceive, xQueueSemaphoreTake,
              xQueuePeek, Attempts, prvLockQueue, CheckState, vTaskPlaceOnEventList,
              UnlockTx, UnlockRx, TimedOut, xQueueGenericReset, WakeDue
<1>4. \/ xQueueGenericSendFromISR \/ xQueueGiveFromISR \/ xQueueReceiveFromISR
      \/ UNCHANGED vars
      => UNCHANGED ticks
  BY DEF xQueueGenericSendFromISR, xQueueGiveFromISR, xQueueReceiveFromISR, vars
<1>5. UNCHANGED ticks => TickType'
  BY <1>1 DEF TickType, ticks
<1> QED
  BY <1>2, <1>3, <1>4, <1>5 DEF Next

-----------------------------------------------------------------------------
(* The calls.                                                               *)

LEMMA ReturnType ==
  ASSUME CallType, NEW t \in Tasks, Return(t)
  PROVE  CallType'
<1>1. MaxDelay \in Nat /\ MaxLate \in Nat
  BY ConstantsAssumption
<1>2. NULL \in Elems /\ "application" \in Labels /\ 0 \in 0..MaxDelay
      /\ 0 \in (- MaxLate)..MaxDelay
  BY <1>1 DEF Elems, Labels
<1> QED
  BY <1>2 DEF Return, CallType

LEMMA GoToType ==
  ASSUME CallType, NEW t \in Tasks, NEW label \in Labels, GoTo(t, label)
  PROVE  CallType'
BY DEF GoTo, CallType, callVars

LEMMA NowType ==
  ASSUME TickType
  PROVE  Now \in TimeOuts
BY DEF TickType, Now, TimeOuts

LEMMA GiveUpOrWaitType ==
  ASSUME CallType, TickType, NEW t \in Tasks, GiveUpOrWait(t)
  PROVE  CallType'
<1>1. CASE Return(t)
  BY <1>1, ReturnType
<1>2. CASE ~ Return(t)
  <2>1. /\ pc' = [pc EXCEPT ![t] = "lock"]
        /\ xTimeOut' = [xTimeOut EXCEPT ![t] = IF @ = NULL THEN Now ELSE @]
        /\ UNCHANGED <<call, item, xTicksToWait, remaining>>
    BY <1>2 DEF GiveUpOrWait
  <2>2. pc' \in [Tasks -> Labels]
    BY <2>1 DEF CallType, Labels
  <2>3. xTimeOut' \in [Tasks -> TimeOuts \union {NULL}]
    BY <2>1, NowType DEF CallType
  <2> QED
    BY <2>1, <2>2, <2>3 DEF CallType
<1> QED
  BY <1>1, <1>2

LEMMA CallTypeStep ==
  ASSUME IInv, [Next]_vars
  PROVE  CallType'
<1>1. /\ CallType /\ TickType /\ kind \in Kinds
      /\ MaxDelay \in Nat /\ MaxLate \in Nat
  BY ConstantsAssumption DEF IInv, StoreType
<1>2. UNCHANGED <<pc, callVars>> => CallType'
  BY <1>1 DEF CallType, callVars
<1>3. \A t \in Tasks : Return(t) => CallType'
  BY <1>1, ReturnType
<1>4. \A t \in Tasks, label \in Labels : GoTo(t, label) => CallType'
  BY <1>1, GoToType
<1>5. \A t \in Tasks : GiveUpOrWait(t) => CallType'
  BY <1>1, GiveUpOrWaitType
<1>6. ASSUME NEW t \in Tasks, Call(t) PROVE CallType'
  <2>1. PICK c \in kind.calls \ {"reset"} : call' = [call EXCEPT ![t] = c]
    BY <1>6 DEF Call
  <2>2. c \in SendCalls \union ReceiveCalls
    BY <1>1, KindFacts DEF TaskCalls
  <2>3. call' \in [Tasks -> SendCalls \union ReceiveCalls \union {NULL}]
    BY <1>1, <2>1, <2>2 DEF CallType
  <2>4. PICK x \in Elems : item' = [item EXCEPT ![t] = x]
    BY <1>6 DEF Call, Elems
  <2>5. item' \in [Tasks -> Elems]
    BY <1>1, <2>4 DEF CallType
  <2>6. PICK w \in kind.waits : /\ xTicksToWait' = [xTicksToWait EXCEPT ![t] = w]
                                /\ remaining' = [remaining EXCEPT ![t] = w]
    BY <1>6 DEF Call
  <2>7. w \in 0..MaxDelay /\ w \in (- MaxLate)..MaxDelay
    BY <1>1, KindFacts
  <2>8. /\ xTicksToWait' \in [Tasks -> 0..MaxDelay]
        /\ remaining' \in [Tasks -> (- MaxLate)..MaxDelay]
    BY <1>1, <2>6, <2>7 DEF CallType
  <2>9. pc' \in [Tasks -> Labels] /\ UNCHANGED xTimeOut
    BY <1>1, <1>6 DEF Call, CallType, Labels
  <2> QED
    BY <1>1, <2>3, <2>5, <2>8, <2>9 DEF CallType
<1>7. ASSUME NEW t \in Tasks,
             \/ xQueueGenericSend(t) \/ xQueueReceive(t) \/ xQueueSemaphoreTake(t)
             \/ xQueuePeek(t)
      PROVE  CallType'
  BY <1>3, <1>5, <1>7 DEF xQueueGenericSend, xQueueReceive, xQueueSemaphoreTake,
                          xQueuePeek
<1>8. ASSUME NEW t \in Tasks, prvLockQueue(t) PROVE CallType'
  <2>1. pc' \in [Tasks -> Labels] /\ UNCHANGED <<call, item, remaining>>
    BY <1>1, <1>8 DEF prvLockQueue, CallType, Labels
  <2>2. CASE TimeIsOver(t)
    <3>1. xTicksToWait' \in [Tasks -> 0..MaxDelay] /\ UNCHANGED xTimeOut
      BY <1>1, <1>8, <2>2 DEF prvLockQueue, xTaskCheckForTimeOut, CallType
    <3> QED
      BY <1>1, <2>1, <3>1 DEF CallType
  <2>3. CASE ~ TimeIsOver(t) /\ xTicksToWait[t] = MaxDelay
    BY <1>1, <1>8, <2>1, <2>3 DEF prvLockQueue, xTaskCheckForTimeOut, CallType
  <2>4. CASE ~ TimeIsOver(t) /\ xTicksToWait[t] # MaxDelay
    <3>1. PICK elapsed :
            elapsed = (xTickCount - xTimeOut[t].xTimeOnEntering) % (MaxDelay + 1)
      OBVIOUS
    <3>2. xTimeOut[t] \in TimeOuts
      BY <1>8 DEF prvLockQueue, IInv, Legal
    <3>3. xTimeOut[t].xTimeOnEntering \in Int /\ xTickCount \in Int
      BY <1>1, <3>2 DEF TimeOuts, TickType
    <3>4. elapsed \in Nat
      BY <1>1, <3>1, <3>3
    <3>5. xTicksToWait[t] \in 0..MaxDelay
      BY <1>1 DEF CallType
    <3>6. ~ (elapsed >= xTicksToWait[t])
      BY <2>4, <3>1 DEF TimeIsOver
    <3>7. xTicksToWait[t] - elapsed \in 0..MaxDelay
      BY <1>1, <3>4, <3>5, <3>6
    <3>8. /\ xTicksToWait' = [xTicksToWait EXCEPT ![t] = @ - elapsed]
          /\ xTimeOut' = [xTimeOut EXCEPT ![t] = Now]
      BY <1>8, <2>4, <3>1 DEF prvLockQueue, xTaskCheckForTimeOut
    <3>9. xTicksToWait' \in [Tasks -> 0..MaxDelay]
      BY <1>1, <3>7, <3>8 DEF CallType
    <3>10. xTimeOut' \in [Tasks -> TimeOuts \union {NULL}]
      BY <1>1, <3>8, NowType DEF CallType
    <3> QED
      BY <1>1, <2>1, <3>9, <3>10 DEF CallType
  <2> QED
    BY <2>2, <2>3, <2>4
<1>9. ASSUME NEW t \in Tasks,
             \/ CheckState(t) \/ vTaskPlaceOnEventList(t) \/ UnlockTx(t)
             \/ UnlockRx(t) \/ TimedOut(t)
      PROVE  CallType'
  <2>1. {"place", "unlockTx", "unlockRx", "attempt", "timedOut"} \subseteq Labels
    BY DEF Labels
  <2>2. \E label \in Labels : GoTo(t, label) \/ Return(t)
    BY <1>9, <2>1 DEF CheckState, vTaskPlaceOnEventList, UnlockTx, UnlockRx, TimedOut
  <2> QED
    BY <1>3, <1>4, <2>2
<1>10. ASSUME NEW t \in Tasks, xQueueGenericReset(t) \/ WakeDue(t) PROVE CallType'
  BY <1>2, <1>10 DEF xQueueGenericReset, WakeDue
<1>11. \/ xQueueGenericSendFromISR \/ xQueueGiveFromISR \/ xQueueReceiveFromISR
       \/ UNCHANGED vars
       => CallType'
  BY <1>2 DEF xQueueGenericSendFromISR, xQueueGiveFromISR, xQueueReceiveFromISR, vars
<1>12. ASSUME Tick PROVE CallType'
  <2>1. UNCHANGED <<pc, call, item, xTicksToWait, xTimeOut>>
    BY <1>12 DEF Tick
  <2>2. \A t \in Tasks : Timed(t) => remaining[t] - 1 \in (- MaxLate)..MaxDelay
    BY <1>1, <1>12 DEF Tick, CallType
  <2>3. remaining' \in [Tasks -> (- MaxLate)..MaxDelay]
    BY <1>1, <1>12, <2>2 DEF Tick, CallType
  <2> QED
    BY <1>1, <2>1, <2>3 DEF CallType
<1> QED
  BY <1>6, <1>7, <1>8, <1>9, <1>10, <1>11, <1>12 DEF Next, Continue

-----------------------------------------------------------------------------
(* Who is where.                                                            *)

LockedLabels == {"checkState", "place", "unlockTx", "unlockRx"}

(* While a task executes, no other task has the queue locked.               *)
LEMMA OthersUnlocked ==
  ASSUME NEW t \in Tasks, NEW u \in Tasks, u # t, Runs(t), Locked(u)
  PROVE  pc[u] \notin LockedLabels
BY ConstantsAssumption DEF Runs, Locked, LockedLabels

(* Where the locks change only from one state of being locked to another,   *)
(* Locked is kept.                                                          *)
LEMMA LockedKept ==
  ASSUME NEW u \in Tasks, Locked(u), pc'[u] = pc[u], UNCHANGED suspended,
         cTxLock # queueUNLOCKED => cTxLock' # queueUNLOCKED,
         cRxLock # queueUNLOCKED => cRxLock' # queueUNLOCKED
  PROVE  Locked(u)'
BY DEF Locked

LEMMA LockedStep ==
  ASSUME IInv, [Next]_vars
  PROVE  \A u \in Tasks : Locked(u)'
<1> SUFFICES ASSUME NEW u \in Tasks
             PROVE  Locked(u)'
  OBVIOUS
<1>1. /\ Locked(u) /\ CallType /\ LockType /\ NULL \notin Tasks
      /\ Cardinality(Tasks) \in Nat
  BY ConstantsAssumption, CountOfTasks DEF IInv
<1>2. UNCHANGED <<pc, suspended, locks>> => Locked(u)'
  BY <1>1 DEF Locked, locks
<1>3. ASSUME NEW t \in Tasks, u # t,
             Call(t) \/ Continue(t) \/ xQueueGenericReset(t)
      PROVE  Locked(u)'
  <2>1. Runs(t)
    BY <1>3 DEF Call, Continue, xQueueGenericSend, xQueueReceive, xQueueSemaphoreTake,
                xQueuePeek, Attempts, prvLockQueue, CheckState, vTaskPlaceOnEventList,
                UnlockTx, UnlockRx, TimedOut, xQueueGenericReset
  <2>2. pc'[u] = pc[u]
    BY <1>1, <1>3
       DEF Call, Continue, xQueueGenericSend, xQueueReceive, xQueueSemaphoreTake,
           xQueuePeek, GiveUpOrWait, prvLockQueue, CheckState, vTaskPlaceOnEventList,
           UnlockTx, UnlockRx, TimedOut, xQueueGenericReset, Return, GoTo, CallType
  <2>3. pc[u] \notin LockedLabels
    BY <1>1, <1>3, <2>1, OthersUnlocked
  <2> QED
    BY <2>2, <2>3 DEF Locked, LockedLabels
<1>4. ASSUME pc'[u] \notin LockedLabels
      PROVE  Locked(u)'
  BY <1>4 DEF Locked, LockedLabels
<1>5. ASSUME Return(u) \/ GoTo(u, "attempt") \/ GoTo(u, "timedOut") \/ GiveUpOrWait(u)
      PROVE  Locked(u)'
  <2>1. pc'[u] \in {"application", "attempt", "timedOut", "lock"}
    BY <1>1, <1>5 DEF Return, GoTo, GiveUpOrWait, CallType
  <2> QED
    BY <1>4, <2>1 DEF LockedLabels
<1>6. ASSUME Call(u) PROVE Locked(u)'
  <2>1. pc'[u] = "attempt"
    BY <1>1, <1>6 DEF Call, CallType
  <2> QED
    BY <1>4, <2>1 DEF LockedLabels
<1>7. ASSUME \/ xQueueGenericSend(u) \/ xQueueReceive(u) \/ xQueueSemaphoreTake(u)
             \/ xQueuePeek(u) \/ UnlockRx(u) \/ TimedOut(u)
      PROVE  Locked(u)'
  <2>1. Return(u) \/ GoTo(u, "attempt") \/ GoTo(u, "timedOut") \/ GiveUpOrWait(u)
    BY <1>7 DEF xQueueGenericSend, xQueueReceive, xQueueSemaphoreTake, xQueuePeek,
                UnlockRx, TimedOut
  <2> QED
    BY <1>5, <2>1
<1>8. ASSUME prvLockQueue(u) PROVE Locked(u)'
  BY <1>1, <1>8 DEF prvLockQueue, Locked, CallType, queueUNLOCKED,
                    queueLOCKED_UNMODIFIED
<1>9. ASSUME CheckState(u) PROVE Locked(u)'
  <2>1. pc[u] = "checkState" /\ UNCHANGED <<suspended, cTxLock, cRxLock>>
    BY <1>9 DEF CheckState, locks
  <2> QED
    BY <1>1, <2>1 DEF Locked
<1>10. ASSUME vTaskPlaceOnEventList(u) PROVE Locked(u)'
  <2>1. pc[u] = "place" /\ UNCHANGED <<suspended, cTxLock, cRxLock>>
    BY <1>10 DEF vTaskPlaceOnEventList, locks
  <2> QED
    BY <1>1, <2>1 DEF Locked
<1>11. ASSUME UnlockTx(u) PROVE Locked(u)'
  <2>1. pc[u] = "unlockTx" /\ UNCHANGED <<suspended, cRxLock>>
    BY <1>11 DEF UnlockTx
  <2>2. pc'[u] = "unlockRx"
    BY <1>1, <1>11 DEF UnlockTx, GoTo, CallType
  <2> QED
    BY <1>1, <2>1, <2>2 DEF Locked
<1>12. ASSUME xQueueGenericReset(u) PROVE Locked(u)'
  <2>1. pc[u] = "application" /\ UNCHANGED pc
    BY <1>12 DEF xQueueGenericReset
  <2> QED
    BY <1>4, <2>1 DEF LockedLabels
<1>13. ASSUME NEW t \in Tasks, WakeDue(t) PROVE Locked(u)'
  BY <1>2, <1>13 DEF WakeDue
<1>14. ASSUME xQueueGenericSendFromISR \/ xQueueGiveFromISR \/ xQueueReceiveFromISR
       PROVE  Locked(u)'
  <2>1. UNCHANGED <<pc, suspended>> /\ (WakeReceiverOrCount \/ WakeSenderOrCount)
    BY <1>14 DEF xQueueGenericSendFromISR, xQueueGiveFromISR, xQueueReceiveFromISR
  <2>2. /\ cTxLock # queueUNLOCKED => Increment(cTxLock) # queueUNLOCKED
        /\ cRxLock # queueUNLOCKED => Increment(cRxLock) # queueUNLOCKED
    BY <1>1 DEF LockType, Increment, queueUNLOCKED
  <2>3. /\ cTxLock # queueUNLOCKED => cTxLock' # queueUNLOCKED
        /\ cRxLock # queueUNLOCKED => cRxLock' # queueUNLOCKED
    BY <2>1, <2>2 DEF WakeReceiverOrCount, WakeSenderOrCount, locks
  <2> QED
    BY <1>1, <2>1, <2>3, LockedKept
<1>15. Tick \/ UNCHANGED vars => Locked(u)'
  BY <1>2 DEF Tick, vars
<1> QED
  BY <1>3, <1>6, <1>7, <1>8, <1>9, <1>10, <1>11, <1>12, <1>13, <1>14, <1>15
     DEF Next, Continue

LEMMA LegalStep ==
  ASSUME IInv, [Next]_vars
  PROVE  \A u \in Tasks : Legal(u)'
<1> SUFFICES ASSUME NEW u \in Tasks
             PROVE  Legal(u)'
  OBVIOUS
<1>1. Legal(u) /\ CallType /\ TickType
  BY DEF IInv
<1>2. UNCHANGED kind
  <2>1. StoreStep
    BY StoreChanges
  <2> QED
    BY <2>1 DEF StoreStep, Sends, Receives, Peeks, Resets, KeepsStore
<1>3. UNCHANGED <<pc, call, xTimeOut>> => Legal(u)'
  BY <1>1, <1>2 DEF Legal, TimeOuts
<1>4. ASSUME NEW t \in Tasks, u # t,
             \/ Call(t) \/ Continue(t) \/ xQueueGenericReset(t)
      PROVE  Legal(u)'
  <2>1. pc'[u] = pc[u] /\ call'[u] = call[u] /\ xTimeOut'[u] = xTimeOut[u]
    BY <1>1, <1>4
       DEF Call, Continue, xQueueGenericSend, xQueueReceive, xQueueSemaphoreTake,
           xQueuePeek, GiveUpOrWait, prvLockQueue, xTaskCheckForTimeOut, CheckState,
           vTaskPlaceOnEventList, UnlockTx, UnlockRx, TimedOut, xQueueGenericReset,
           Return, GoTo, CallType, callVars
  <2> QED
    BY <1>1, <1>2, <2>1 DEF Legal, TimeOuts
<1>5. ASSUME Return(u) PROVE Legal(u)'
  <2>1. pc'[u] = "application"
    BY <1>1, <1>5 DEF Return, CallType
  <2> QED
    BY <2>1 DEF Legal
<1>6. ASSUME pc[u] # "application", NEW label, label # "lock", GoTo(u, label)
      PROVE  Legal(u)'
  <2>1. pc'[u] = label /\ call'[u] = call[u]
    BY <1>1, <1>6 DEF GoTo, CallType, callVars
  <2> QED
    BY <1>1, <1>2, <1>6, <2>1 DEF Legal
<1>7. ASSUME pc[u] = "attempt", GiveUpOrWait(u) PROVE Legal(u)'
  <2>1. CASE Return(u)
    BY <1>5, <2>1
  <2>2. CASE ~ Return(u)
    <3>1. pc'[u] = "lock" /\ call'[u] = call[u]
      BY <1>1, <1>7, <2>2 DEF GiveUpOrWait, CallType
    <3>2. xTimeOut'[u] \in TimeOuts
      BY <1>1, <1>7, <2>2, NowType DEF GiveUpOrWait, CallType
    <3>3. TimeOuts' = TimeOuts
      BY DEF TimeOuts
    <3> QED
      BY <1>1, <1>2, <1>7, <3>1, <3>2, <3>3 DEF Legal
  <2> QED
    BY <2>1, <2>2
<1>8. ASSUME Call(u) PROVE Legal(u)'
  <2>1. pc'[u] = "attempt" /\ call'[u] \in kind.calls
    BY <1>1, <1>8 DEF Call, CallType
  <2> QED
    BY <1>2, <2>1 DEF Legal
<1>9. ASSUME \/ xQueueGenericSend(u) \/ xQueueReceive(u) \/ xQueueSemaphoreTake(u)
             \/ xQueuePeek(u)
      PROVE  Legal(u)'
  BY <1>5, <1>7, <1>9 DEF xQueueGenericSend, xQueueReceive, xQueueSemaphoreTake,
                          xQueuePeek, Attempts
<1>10. ASSUME prvLockQueue(u) PROVE Legal(u)'
  <2>1. pc[u] = "lock" /\ pc'[u] \in {"unlockTx", "checkState"} /\ call'[u] = call[u]
    BY <1>1, <1>10 DEF prvLockQueue, CallType
  <2> QED
    BY <1>1, <1>2, <2>1 DEF Legal
<1>11. ASSUME \/ CheckState(u) \/ vTaskPlaceOnEventList(u) \/ UnlockTx(u)
              \/ UnlockRx(u) \/ TimedOut(u)
       PROVE  Legal(u)'
  <2>1. /\ pc[u] # "application"
        /\ \/ Return(u)
           \/ \E label \in {"place", "unlockTx", "unlockRx", "attempt", "timedOut"} :
                GoTo(u, label)
    BY <1>11 DEF CheckState, vTaskPlaceOnEventList, UnlockTx, UnlockRx, TimedOut
  <2> QED
    BY <1>5, <1>6, <2>1
<1>12. ASSUME xQueueGenericReset(u) PROVE Legal(u)'
  BY <1>3, <1>12 DEF xQueueGenericReset, callVars
<1>13. ASSUME NEW t \in Tasks, WakeDue(t) PROVE Legal(u)'
  BY <1>3, <1>13 DEF WakeDue, callVars
<1>14. \/ xQueueGenericSendFromISR \/ xQueueGiveFromISR \/ xQueueReceiveFromISR
       \/ Tick \/ UNCHANGED vars
       => Legal(u)'
  BY <1>3 DEF xQueueGenericSendFromISR, xQueueGiveFromISR, xQueueReceiveFromISR, Tick,
              vars, callVars
<1> QED
  BY <1>4, <1>8, <1>9, <1>10, <1>11, <1>12, <1>13, <1>14 DEF Next, Continue

-----------------------------------------------------------------------------
(* The theorems.                                                            *)

LEMMA InitInv ==
  ASSUME Init
  PROVE  IInv
<1>1. /\ uxLength \in Nat \ {0} /\ uxItemSize \in Nat
      /\ MaxDelay \in Nat /\ MaxLate \in Nat /\ NumOverflows \in Nat \ {0}
      /\ NULL \notin Tasks /\ Cardinality(Tasks) \in Nat
  BY ConstantsAssumption, KindFacts, CountOfTasks DEF Init
<1>2. StoreType
  BY <1>1 DEF Init, StoreType, Elems
<1>3. WaitType
  BY <1>1 DEF Init, WaitType
<1>4. LockType
  BY <1>1 DEF Init, LockType, queueUNLOCKED
<1>5. CallType
  BY <1>1 DEF Init, CallType, Labels, Elems
<1>6. TickType
  BY <1>1 DEF Init, TickType
<1>7. \A t \in Tasks : Locked(t) /\ Legal(t)
  BY DEF Init, Locked, Legal
<1>8. RingOK
  BY <1>1 DEF Init, RingOK, Slot
<1> QED
  BY <1>2, <1>3, <1>4, <1>5, <1>6, <1>7, <1>8 DEF IInv

LEMMA StepInv ==
  ASSUME IInv, [Next]_vars
  PROVE  IInv'
<1>1. StoreType' /\ RingOK'
  BY StoreChanges, StoreRefines DEF IInv
<1> QED
  BY <1>1, WaitTypeStep, LockTypeStep, CallTypeStep, TickTypeStep, LockedStep, LegalStep
     DEF IInv

THEOREM Invariance == Spec => []IInv
<1>1. Init => IInv
  BY InitInv
<1>2. IInv /\ [Next]_vars => IInv'
  BY StepInv
<1> QED
  BY <1>1, <1>2, PTL DEF Spec

(* For any tasks, messages and kinds of queue every variable keeps its      *)
(* type.  This includes that the counters of a locked queue stay below the  *)
(* number of tasks, with the idle task, whatever interrupts send.           *)
THEOREM TypeCorrect == Spec => []TypeOK
<1>1. IInv => TypeOK
  BY DEF IInv, StoreType, WaitType, LockType, CallType, TickType, TypeOK, Elems
<1> QED
  BY <1>1, Invariance, PTL

(* A queue of queue.c of any length is a bounded queue, whoever sends and   *)
(* receives at either end between the steps of others.                      *)
THEOREM QueueIsImplemented == Spec => ImplementsQueue
<1>1. Init => Abstract!Init
  <2> SUFFICES ASSUME Init PROVE Abstract!Init
    OBVIOUS
  <2>1. StoreType /\ uxLength \in Nat \ {0}
    BY InitInv, KindFacts DEF IInv, StoreType
  <2>2. uxMessagesWaiting <= uxLength
    BY <2>1 DEF StoreType
  <2> QED
    BY <2>1, <2>2, ContentFacts DEF Abstract!Init, Init, Elems
<1>2. IInv /\ [Next]_vars => [Abstract!Next]_(Abstract!vars)
  BY StoreChanges, StoreRefines DEF IInv
<1> QED
  BY <1>1, <1>2, Invariance, PTL DEF Spec, ImplementsQueue, Abstract!Spec
-----------------------------------------------------------------------------
(* The timeouts.  TimeInv says what remaining, the ticks that are truly     *)
(* left, is to the code's xTicksToWait and xTimeOut: xTaskCheckForTimeOut   *)
(* sees the tick count modulo its width and one difference of overflow      *)
(* counts.                                                                  *)

(* The ticks since the call began to wait, as far as they can be seen.      *)
Elapsed(t) ==
  LET entered == xTimeOut[t].xTimeOnEntering
  IN  IF xTickCount >= entered THEN xTickCount - entered
      ELSE xTickCount - entered + (MaxDelay + 1)

(* At least the ticks seen have passed, and more than the clock can show    *)
(* when it has wrapped and is past the time of entering again.              *)
Spent(t) ==
  /\ remaining[t] <= xTicksToWait[t] - Elapsed(t)
  /\ /\ xNumOfOverflows # xTimeOut[t].xOverflowCount
     /\ xTickCount >= xTimeOut[t].xTimeOnEntering
     => remaining[t] <= xTicksToWait[t] - (MaxDelay + 1)

TimeInv(t) ==
  /\ pc[t] = "application" => xTimeOut[t] = NULL
  /\ xTimeOut[t] = NULL => remaining[t] = xTicksToWait[t]
  /\ Timed(t) /\ xTicksToWait[t] = 0 => remaining[t] <= 0
  /\ Timed(t) /\ xTicksToWait[t] # 0 => Spent(t)

-----------------------------------------------------------------------------
LEMMA ElapsedIsSeen ==
  ASSUME IInv, NEW t \in Tasks, xTimeOut[t] \in TimeOuts
  PROVE  /\ Elapsed(t) = (xTickCount - xTimeOut[t].xTimeOnEntering) % (MaxDelay + 1)
         /\ Elapsed(t) \in 0..MaxDelay
<1>1. /\ MaxDelay \in Nat /\ xTickCount \in 0..MaxDelay
      /\ xTimeOut[t].xTimeOnEntering \in 0..MaxDelay
  BY ConstantsAssumption DEF IInv, TickType, TimeOuts
<1>2. PICK b \in 0..MaxDelay : b = xTimeOut[t].xTimeOnEntering
  BY <1>1
<1>3. (xTickCount - b) % (MaxDelay + 1) =
        IF xTickCount >= b THEN xTickCount - b ELSE xTickCount - b + (MaxDelay + 1)
  BY <1>1
<1>4. Elapsed(t) = IF xTickCount >= b THEN xTickCount - b
                   ELSE xTickCount - b + (MaxDelay + 1)
  BY <1>2 DEF Elapsed
<1>5. Elapsed(t) \in 0..MaxDelay
  BY <1>1, <1>4
<1> QED
  BY <1>2, <1>3, <1>4, <1>5

(* A time stamp is not mistaken for none.                                   *)
LEMMA TimeOutsFact ==
  NULL \notin TimeOuts
<1>1. /\ MaxDelay \in Nat /\ NumOverflows \in Nat
      /\ NULL \notin [xOverflowCount : Nat, xTimeOnEntering : Nat]
  BY ConstantsAssumption
<1>2. TimeOuts \subseteq [xOverflowCount : Nat, xTimeOnEntering : Nat]
  BY <1>1 DEF TimeOuts
<1> QED
  BY <1>1, <1>2

-----------------------------------------------------------------------------
(* What a step does to the times of a task's call is one of these.          *)

Keeps(u) ==
  /\ xTicksToWait'[u] = xTicksToWait[u] /\ xTimeOut'[u] = xTimeOut[u]
  /\ remaining'[u] = remaining[u]
  /\ pc'[u] = "application" => pc[u] = "application"
  /\ UNCHANGED ticks

Returns(u) ==
  /\ xTicksToWait'[u] = 0 /\ xTimeOut'[u] = NULL /\ remaining'[u] = 0
  /\ UNCHANGED ticks

Begins(u) ==
  /\ pc[u] = "application" /\ pc'[u] # "application"
  /\ xTicksToWait'[u] \in kind.waits /\ remaining'[u] = xTicksToWait'[u]
  /\ xTimeOut'[u] = xTimeOut[u]
  /\ UNCHANGED ticks

StartsToWait(u) ==
  /\ xTicksToWait[u] # 0
  /\ xTicksToWait'[u] = xTicksToWait[u] /\ remaining'[u] = remaining[u]
  /\ xTimeOut'[u] = IF xTimeOut[u] = NULL THEN Now ELSE xTimeOut[u]
  /\ pc'[u] = "lock"
  /\ UNCHANGED ticks

CallStep(u) ==
  Keeps(u) \/ Returns(u) \/ Begins(u) \/ StartsToWait(u) \/ prvLockQueue(u) \/ Tick

LEMMA TicksKept ==
  ASSUME [Next]_vars, ~ Tick
  PROVE  UNCHANGED ticks
<1>1. ASSUME NEW t \in Tasks,
             \/ Call(t) \/ Continue(t) \/ xQueueGenericReset(t) \/ WakeDue(t)
      PROVE  UNCHANGED ticks
  BY <1>1 DEF Call, Continue, xQueueGenericSend, xQueueReceive, xQueueSemaphoreTake,
              xQueuePeek, Attempts, prvLockQueue, CheckState, vTaskPlaceOnEventList,
              UnlockTx, UnlockRx, TimedOut, xQueueGenericReset, WakeDue
<1>2. \/ xQueueGenericSendFromISR \/ xQueueGiveFromISR \/ xQueueReceiveFromISR
      \/ UNCHANGED vars
      => UNCHANGED ticks
  BY DEF xQueueGenericSendFromISR, xQueueGiveFromISR, xQueueReceiveFromISR, vars
<1> QED
  BY <1>1, <1>2 DEF Next

LEMMA CallChanges ==
  ASSUME IInv, [Next]_vars, NEW u \in Tasks
  PROVE  CallStep(u)
<1> SUFFICES ASSUME ~ Tick
             PROVE  CallStep(u)
  BY DEF CallStep
<1>1. UNCHANGED ticks /\ CallType
  BY TicksKept DEF IInv
<1>2. UNCHANGED <<pc, callVars>> => Keeps(u)
  BY <1>1 DEF Keeps, callVars
<1>3. Return(u) => Returns(u)
  BY <1>1 DEF Return, Returns, CallType
<1>4. ASSUME NEW label, label # "application", GoTo(u, label)
      PROVE  Keeps(u)
  BY <1>1, <1>4 DEF GoTo, callVars, Keeps, CallType
<1>5. GiveUpOrWait(u) => Returns(u) \/ StartsToWait(u)
  BY <1>1, <1>3 DEF GiveUpOrWait, StartsToWait, CallType
<1>6. ASSUME NEW t \in Tasks, t # u, Call(t) \/ Continue(t)
      PROVE  Keeps(u)
  BY <1>1, <1>6
     DEF Call, Continue, xQueueGenericSend, xQueueReceive, xQueueSemaphoreTake,
         xQueuePeek, GiveUpOrWait, prvLockQueue, xTaskCheckForTimeOut, CheckState,
         vTaskPlaceOnEventList, UnlockTx, UnlockRx, TimedOut, Return, GoTo, CallType,
         callVars, Keeps
<1>7. Call(u) => Begins(u)
  BY <1>1 DEF Call, Begins, CallType
<1>8. \/ xQueueGenericSend(u) \/ xQueueReceive(u) \/ xQueueSemaphoreTake(u)
      \/ xQueuePeek(u)
      => Returns(u) \/ StartsToWait(u)
  BY <1>3, <1>5 DEF xQueueGenericSend, xQueueReceive, xQueueSemaphoreTake, xQueuePeek
<1>9. ASSUME \/ CheckState(u) \/ vTaskPlaceOnEventList(u) \/ UnlockTx(u)
             \/ UnlockRx(u) \/ TimedOut(u)
      PROVE  Returns(u) \/ Keeps(u)
  <2>1. \/ Return(u)
        \/ \E label \in {"place", "unlockTx", "unlockRx", "attempt", "timedOut"} :
             GoTo(u, label)
    BY <1>9 DEF CheckState, vTaskPlaceOnEventList, UnlockTx, UnlockRx, TimedOut
  <2> QED
    BY <1>3, <1>4, <2>1
<1>10. ASSUME NEW t \in Tasks, xQueueGenericReset(t) \/ WakeDue(t)
       PROVE  Keeps(u)
  BY <1>2, <1>10 DEF xQueueGenericReset, WakeDue
<1>11. \/ xQueueGenericSendFromISR \/ xQueueGiveFromISR \/ xQueueReceiveFromISR
       \/ UNCHANGED vars
       => Keeps(u)
  BY <1>2 DEF xQueueGenericSendFromISR, xQueueGiveFromISR, xQueueReceiveFromISR, vars
<1> QED
  BY <1>6, <1>7, <1>8, <1>9, <1>10, <1>11 DEF Next, Continue, CallStep

LEMMA TimeStep ==
  ASSUME IInv, [Next]_vars, NEW u \in Tasks, TimeInv(u)
  PROVE  TimeInv(u)'
<1>1. /\ MaxDelay \in Nat \ {0} /\ xTickCount \in 0..MaxDelay
      /\ xTicksToWait[u] \in 0..MaxDelay /\ remaining[u] \in Int
      /\ CallType /\ TickType
  BY ConstantsAssumption DEF IInv, CallType, TickType
<1>2. CASE Keeps(u)
  BY <1>2 DEF TimeInv, Keeps, Timed, Spent, Elapsed, ticks
<1>3. CASE Returns(u)
  BY <1>3 DEF TimeInv, Returns, Timed
<1>4. CASE Begins(u)
  BY <1>4 DEF TimeInv, Begins, Timed
<1>5. CASE StartsToWait(u)
  <2>1. CASE xTimeOut[u] # NULL
    BY <1>5, <2>1 DEF TimeInv, StartsToWait, Timed, Spent, Elapsed, ticks
  <2>2. CASE xTimeOut[u] = NULL
    <3>1. /\ xTimeOut'[u].xTimeOnEntering = xTickCount'
          /\ xTimeOut'[u].xOverflowCount = xNumOfOverflows'
          /\ xTickCount' = xTickCount
      BY <1>5, <2>2 DEF StartsToWait, Now, ticks
    <3>2. Elapsed(u)' = 0
      BY <1>1, <3>1 DEF Elapsed
    <3>3. xTimeOut'[u] # NULL
      BY <1>1, <1>5, <2>2, TimeOutsFact, NowType DEF StartsToWait
    <3>4. remaining'[u] = xTicksToWait'[u] /\ xTicksToWait'[u] = xTicksToWait[u]
      BY <1>5, <2>2 DEF StartsToWait, TimeInv
    <3>5. Spent(u)'
      BY <1>1, <3>1, <3>2, <3>4 DEF Spent
    <3> QED
      BY <1>5, <3>3, <3>4, <3>5 DEF TimeInv, StartsToWait
  <2> QED
    BY <2>1, <2>2
<1>6. CASE prvLockQueue(u)
  <2>1. /\ xTimeOut[u] \in TimeOuts /\ xTimeOut[u] # NULL
        /\ UNCHANGED <<remaining, ticks>> /\ pc'[u] # "application"
    BY <1>1, <1>6, TimeOutsFact DEF prvLockQueue, IInv, Legal, CallType
  <2>2. PICK e \in 0..MaxDelay :
          /\ e = Elapsed(u)
          /\ e = (xTickCount - xTimeOut[u].xTimeOnEntering) % (MaxDelay + 1)
    BY <2>1, ElapsedIsSeen
  <2>3. CASE TimeIsOver(u)
    <3>1. xTicksToWait'[u] = 0 /\ xTimeOut'[u] = xTimeOut[u]
      BY <1>1, <1>6, <2>3 DEF prvLockQueue, xTaskCheckForTimeOut, CallType
    <3>2. Timed(u)
      BY <2>1, <2>3 DEF Timed, TimeIsOver
    <3>3. \/ /\ xNumOfOverflows # xTimeOut[u].xOverflowCount
             /\ xTickCount >= xTimeOut[u].xTimeOnEntering
          \/ e >= xTicksToWait[u]
      BY <2>2, <2>3 DEF TimeIsOver
    <3>4. remaining[u] <= 0
      <4>1. CASE xTicksToWait[u] = 0
        BY <3>2, <4>1 DEF TimeInv
      <4>2. CASE xTicksToWait[u] # 0
        BY <1>1, <2>2, <3>2, <3>3, <4>2 DEF TimeInv, Spent
      <4> QED
        BY <4>1, <4>2
    <3> QED
      BY <2>1, <3>1, <3>4 DEF TimeInv
  <2>4. CASE ~ TimeIsOver(u) /\ xTicksToWait[u] = MaxDelay
    <3>1. xTicksToWait'[u] = MaxDelay /\ xTimeOut'[u] = xTimeOut[u]
      BY <1>6, <2>4 DEF prvLockQueue, xTaskCheckForTimeOut
    <3> QED
      BY <1>1, <2>1, <3>1 DEF TimeInv, Timed
  <2>5. CASE ~ TimeIsOver(u) /\ xTicksToWait[u] # MaxDelay
    <3>1. /\ xTicksToWait' = [xTicksToWait EXCEPT ![u] = @ - e]
          /\ xTimeOut' = [xTimeOut EXCEPT ![u] = Now]
      BY <1>6, <2>2, <2>5 DEF prvLockQueue, xTaskCheckForTimeOut
    <3>2. xTicksToWait'[u] = xTicksToWait[u] - e /\ xTimeOut'[u] = Now
      BY <1>1, <3>1 DEF CallType
    <3>3. ~ (e >= xTicksToWait[u])
      BY <2>2, <2>5 DEF TimeIsOver
    <3>4. xTicksToWait[u] # 0 /\ xTicksToWait'[u] # 0
      BY <1>1, <2>2, <3>2, <3>3
    <3>5. Timed(u)
      BY <2>1, <2>5 DEF Timed
    <3>6. remaining'[u] <= xTicksToWait'[u]
      BY <1>1, <2>1, <2>2, <3>2, <3>4, <3>5 DEF TimeInv, Spent
    <3>7. /\ xTimeOut'[u].xTimeOnEntering = xTickCount'
          /\ xTimeOut'[u].xOverflowCount = xNumOfOverflows'
          /\ xTickCount' = xTickCount
      BY <2>1, <3>2 DEF Now, ticks
    <3>8. Elapsed(u)' = 0
      BY <1>1, <3>7 DEF Elapsed
    <3>9. xTicksToWait'[u] \in Int
      BY <1>1, <3>2
    <3>10. Spent(u)'
      BY <3>6, <3>7, <3>8, <3>9 DEF Spent
    <3>11. xTimeOut'[u] # NULL
      BY <1>1, <3>2, NowType, TimeOutsFact
    <3> QED
      BY <2>1, <3>4, <3>10, <3>11 DEF TimeInv
  <2> QED
    BY <2>3, <2>4, <2>5
<1>7. CASE Tick
  <2>1. /\ UNCHANGED <<pc, xTicksToWait, xTimeOut>>
        /\ xTickCount' = (xTickCount + 1) % (MaxDelay + 1)
        /\ xNumOfOverflows' # xNumOfOverflows => xTickCount' = 0
        /\ remaining'[u] = IF Timed(u) THEN remaining[u] - 1 ELSE remaining[u]
    BY <1>7 DEF Tick
  <2>2. xTickCount' = IF xTickCount = MaxDelay THEN 0 ELSE xTickCount + 1
    <3>1. \A m \in Nat : \A a \in 0..m : (a + 1) % (m + 1) = IF a = m THEN 0 ELSE a + 1
      OBVIOUS
    <3> QED
      BY <1>1, <2>1, <3>1
  <2>3. Timed(u)' <=> Timed(u)
    BY <2>1 DEF Timed
  <2>4. CASE ~ Timed(u)
    BY <2>1, <2>3, <2>4 DEF TimeInv
  <2>5. CASE Timed(u) /\ xTicksToWait[u] = 0
    BY <1>1, <2>1, <2>3, <2>5 DEF TimeInv, Timed
  <2>6. CASE Timed(u) /\ xTicksToWait[u] # 0
    <3>1. PICK entered \in 0..MaxDelay : entered = xTimeOut[u].xTimeOnEntering
      BY <1>1, <2>6 DEF Timed, CallType, TimeOuts
    <3>2. /\ remaining[u] <= xTicksToWait[u] - Elapsed(u)
          /\ xNumOfOverflows # xTimeOut[u].xOverflowCount /\ xTickCount >= entered
               => remaining[u] <= xTicksToWait[u] - (MaxDelay + 1)
      BY <2>6, <3>1 DEF TimeInv, Spent
    <3>3. Elapsed(u) = IF xTickCount >= entered THEN xTickCount - entered
                       ELSE xTickCount - entered + (MaxDelay + 1)
      BY <3>1 DEF Elapsed
    <3>4. Elapsed(u)' = IF xTickCount' >= entered THEN xTickCount' - entered
                        ELSE xTickCount' - entered + (MaxDelay + 1)
      BY <2>1, <3>1 DEF Elapsed
    <3>5. remaining'[u] = remaining[u] - 1
      BY <2>1, <2>6
    <3>6. remaining'[u] <= xTicksToWait[u] - Elapsed(u)'
      BY <1>1, <2>2, <3>2, <3>3, <3>4, <3>5
    <3>7. xNumOfOverflows' # xTimeOut[u].xOverflowCount /\ xTickCount' >= entered
            => remaining'[u] <= xTicksToWait[u] - (MaxDelay + 1)
      BY <1>1, <2>1, <2>2, <3>2, <3>3, <3>5
    <3>8. Spent(u)'
      BY <2>1, <3>1, <3>6, <3>7 DEF Spent
    <3> QED
      BY <2>1, <2>6, <3>8 DEF TimeInv, Timed
  <2> QED
    BY <2>4, <2>5, <2>6
<1> QED
  BY <1>2, <1>3, <1>4, <1>5, <1>6, <1>7, CallChanges DEF CallStep

(* For any width of the tick count and of xNumOfOverflows, however late a   *)
(* task runs, xTaskCheckForTimeOut ends no call before its time.            *)
THEOREM TimeoutsAreGenuine == Spec => []TimeoutIsGenuine
<1> DEFINE Inv == IInv /\ \A t \in Tasks : TimeInv(t)
<1>1. Init => Inv
  <2> SUFFICES ASSUME Init, NEW t \in Tasks PROVE TimeInv(t)
    BY InitInv
  <2> QED
    BY DEF Init, TimeInv, Timed
<1>2. Inv /\ [Next]_vars => Inv'
  BY StepInv, TimeStep
<1>3. Inv => TimeoutIsGenuine
  BY DEF TimeInv, TimeoutIsGenuine
<1> QED
  BY <1>1, <1>2, <1>3, PTL DEF Spec

-----------------------------------------------------------------------------
(* How long a task sleeps.  Here lateness matters: if a task could be late  *)
(* by more than the clock can show, the time left would be too long.        *)

NeverTooLate ==
  \A k \in Kinds : \A w \in k.waits \ {0, MaxDelay} : w + MaxLate <= MaxDelay

Exact(t) ==
  /\ xTicksToWait[t] \notin {0, MaxDelay} => xTicksToWait[t] + MaxLate <= MaxDelay
  /\ Timed(t) /\ xTicksToWait[t] # 0 => remaining[t] = xTicksToWait[t] - Elapsed(t)

(* A task that is asleep was put to sleep by the call it is still in; that  *)
(* it has time left when it goes to sleep is known since prvLockQueue.      *)
SleepInv(t) ==
  /\ suspended = t => pc[t] \in LockedLabels
  /\ pc[t] \in {"checkState", "place"} =>
       /\ xTicksToWait[t] # 0 /\ xTimeOut[t] # NULL
       /\ xTicksToWait[t] # MaxDelay => remaining[t] = xTicksToWait[t]
  /\ t \in asleep =>
       /\ pc[t] \in {"unlockTx", "unlockRx", "attempt"}
       /\ xTicksToWait[t] # 0 /\ xTimeOut[t] # NULL
       /\ wakeTime[t] # NULL =>
            /\ xTicksToWait[t] # MaxDelay
            /\ remaining[t] = (wakeTime[t] - xTickCount) % (MaxDelay + 1)

SleepIInv == IInv /\ \A t \in Tasks : TimeInv(t) /\ Exact(t) /\ SleepInv(t)

(* What prvLockQueue does to a call whose time is not over.                 *)
LEMMA LockStep ==
  ASSUME SleepIInv, NEW u \in Tasks, prvLockQueue(u), ~ TimeIsOver(u)
  PROVE  /\ xTicksToWait'[u] # 0 /\ xTimeOut'[u] # NULL
         /\ xTicksToWait'[u] <= xTicksToWait[u]
         /\ xTicksToWait'[u] = MaxDelay <=> xTicksToWait[u] = MaxDelay
         /\ xTicksToWait'[u] # MaxDelay =>
              remaining'[u] = xTicksToWait'[u] /\ Elapsed(u)' = 0
<1>1. /\ MaxDelay \in Nat \ {0} /\ xTickCount \in 0..MaxDelay
      /\ xTicksToWait[u] \in 0..MaxDelay
      /\ IInv /\ CallType /\ TickType /\ TimeInv(u) /\ Exact(u)
  BY ConstantsAssumption DEF SleepIInv, IInv, CallType, TickType
<1>2. /\ xTimeOut[u] \in TimeOuts /\ xTimeOut[u] # NULL
      /\ UNCHANGED <<remaining, ticks>>
  BY <1>1, TimeOutsFact DEF prvLockQueue, IInv, Legal
<1>3. PICK e \in 0..MaxDelay :
        /\ e = Elapsed(u)
        /\ e = (xTickCount - xTimeOut[u].xTimeOnEntering) % (MaxDelay + 1)
  BY <1>1, <1>2, ElapsedIsSeen
<1>4. CASE xTicksToWait[u] = MaxDelay
  <2>1. xTicksToWait'[u] = MaxDelay /\ xTimeOut'[u] = xTimeOut[u]
    BY <1>4 DEF prvLockQueue, xTaskCheckForTimeOut
  <2> QED
    BY <1>1, <1>2, <1>4, <2>1
<1>5. CASE xTicksToWait[u] # MaxDelay
  <2>1. /\ xTicksToWait' = [xTicksToWait EXCEPT ![u] = @ - e]
        /\ xTimeOut' = [xTimeOut EXCEPT ![u] = Now]
    BY <1>3, <1>5 DEF prvLockQueue, xTaskCheckForTimeOut
  <2>2. xTicksToWait'[u] = xTicksToWait[u] - e /\ xTimeOut'[u] = Now
    BY <1>1, <2>1 DEF CallType
  <2>3. ~ (e >= xTicksToWait[u])
    BY <1>3, <1>5 DEF TimeIsOver
  <2>4. /\ xTicksToWait[u] # 0 /\ xTicksToWait'[u] # 0
        /\ xTicksToWait'[u] <= xTicksToWait[u] /\ xTicksToWait'[u] # MaxDelay
    BY <1>1, <1>3, <1>5, <2>2, <2>3
  <2>5. Timed(u)
    BY <1>2, <1>5 DEF Timed
  <2>6. remaining'[u] = xTicksToWait'[u]
    BY <1>1, <1>2, <1>3, <2>2, <2>4, <2>5 DEF Exact
  <2>7. xTimeOut'[u].xTimeOnEntering = xTickCount' /\ xTickCount' = xTickCount
    BY <1>2, <2>2 DEF Now, ticks
  <2>8. Elapsed(u)' = 0
    BY <1>1, <2>7 DEF Elapsed
  <2>9. xTimeOut'[u] # NULL
    BY <1>1, <2>2, NowType, TimeOutsFact
  <2> QED
    BY <1>5, <2>4, <2>6, <2>8, <2>9
<1> QED
  BY <1>4, <1>5

LEMMA ExactStep ==
  ASSUME NeverTooLate, SleepIInv, [Next]_vars, NEW u \in Tasks
  PROVE  Exact(u)'
<1>0. /\ kind \in Kinds /\ CallType /\ TickType
      /\ IInv /\ TimeInv(u) /\ Exact(u)
  BY DEF SleepIInv, IInv, StoreType
<1>1. /\ MaxDelay \in Nat \ {0} /\ MaxLate \in Nat /\ xTickCount \in 0..MaxDelay
      /\ xTicksToWait[u] \in 0..MaxDelay /\ remaining[u] \in Int
      /\ kind \in Kinds /\ CallType /\ TickType /\ IInv /\ TimeInv(u) /\ Exact(u)
  BY <1>0, ConstantsAssumption DEF CallType, TickType
<1>2. CASE Keeps(u)
  BY <1>1, <1>2 DEF Exact, Keeps, Timed, Elapsed, ticks
<1>3. CASE Returns(u)
  BY <1>3 DEF Exact, Returns, Timed
<1>4. CASE Begins(u)
  <2>1. xTicksToWait'[u] \notin {0, MaxDelay} => xTicksToWait'[u] + MaxLate <= MaxDelay
    BY <1>1, <1>4 DEF Begins, NeverTooLate
  <2>2. xTimeOut'[u] = NULL
    BY <1>1, <1>4 DEF Begins, TimeInv
  <2> QED
    BY <2>1, <2>2 DEF Exact, Timed
<1>5. CASE StartsToWait(u)
  <2>1. CASE xTimeOut[u] # NULL
    BY <1>1, <1>5, <2>1 DEF Exact, StartsToWait, Timed, Elapsed, ticks
  <2>2. CASE xTimeOut[u] = NULL
    <3>1. xTimeOut'[u].xTimeOnEntering = xTickCount' /\ xTickCount' = xTickCount
      BY <1>5, <2>2 DEF StartsToWait, Now, ticks
    <3>2. Elapsed(u)' = 0
      BY <1>1, <3>1 DEF Elapsed
    <3>3. remaining'[u] = xTicksToWait'[u] /\ xTicksToWait'[u] = xTicksToWait[u]
      BY <1>1, <1>5, <2>2 DEF StartsToWait, TimeInv
    <3> QED
      BY <1>1, <3>2, <3>3 DEF Exact
  <2> QED
    BY <2>1, <2>2
<1>6. CASE prvLockQueue(u)
  <2>1. CASE TimeIsOver(u)
    <3>1. xTicksToWait'[u] = 0
      BY <1>1, <1>6, <2>1 DEF prvLockQueue, xTaskCheckForTimeOut, CallType
    <3> QED
      BY <3>1 DEF Exact
  <2>2. CASE ~ TimeIsOver(u)
    <3>1. /\ xTicksToWait'[u] # 0 /\ xTicksToWait'[u] <= xTicksToWait[u]
          /\ xTicksToWait'[u] = MaxDelay <=> xTicksToWait[u] = MaxDelay
          /\ xTicksToWait'[u] # MaxDelay =>
               remaining'[u] = xTicksToWait'[u] /\ Elapsed(u)' = 0
      BY <1>6, <2>2, LockStep
    <3>2. xTicksToWait'[u] \in Int
      <4>1. CallType'
        BY CallTypeStep, <1>1
      <4> QED
        BY <1>1, <4>1 DEF CallType
    <3>3. xTicksToWait'[u] # MaxDelay => xTicksToWait'[u] + MaxLate <= MaxDelay
      <4>1. ASSUME xTicksToWait[u] + MaxLate <= MaxDelay
            PROVE  xTicksToWait'[u] + MaxLate <= MaxDelay
        BY <1>1, <3>1, <3>2, <4>1
      <4>2. xTicksToWait'[u] # MaxDelay => xTicksToWait[u] \notin {0, MaxDelay}
        <5>1. xTicksToWait[u] = 0 => TimeIsOver(u)
          <6>1. xTimeOut[u] \in TimeOuts
            BY <1>1, <1>6 DEF prvLockQueue, IInv, Legal
          <6>2. (xTickCount - xTimeOut[u].xTimeOnEntering) % (MaxDelay + 1) >= 0
            BY <1>1, <6>1, ElapsedIsSeen
          <6> QED
            BY <1>1, <6>2 DEF TimeIsOver
        <5> QED
          BY <2>2, <3>1, <5>1
      <4> QED
        BY <1>1, <4>1, <4>2 DEF Exact
    <3> QED
      BY <3>1, <3>2, <3>3 DEF Exact, Timed
  <2> QED
    BY <2>1, <2>2
<1>7. CASE Tick
  <2>1. /\ UNCHANGED <<xTicksToWait, xTimeOut>>
        /\ xTickCount' = (xTickCount + 1) % (MaxDelay + 1)
        /\ remaining'[u] = IF Timed(u) THEN remaining[u] - 1 ELSE remaining[u]
        /\ Timed(u) => remaining[u] > - MaxLate
    BY <1>7 DEF Tick
  <2>2. xTickCount' = IF xTickCount = MaxDelay THEN 0 ELSE xTickCount + 1
    <3>1. \A m \in Nat : \A a \in 0..m : (a + 1) % (m + 1) = IF a = m THEN 0 ELSE a + 1
      OBVIOUS
    <3> QED
      BY <1>1, <2>1, <3>1
  <2>3. Timed(u)' <=> Timed(u)
    BY <2>1 DEF Timed
  <2>4. ASSUME Timed(u), xTicksToWait[u] # 0
        PROVE  remaining'[u] = xTicksToWait[u] - Elapsed(u)'
    <3>1. PICK entered \in 0..MaxDelay : entered = xTimeOut[u].xTimeOnEntering
      BY <1>1, <2>4 DEF Timed, CallType, TimeOuts
    <3>2. /\ remaining[u] = xTicksToWait[u] - Elapsed(u)
          /\ xTicksToWait[u] + MaxLate <= MaxDelay
      BY <2>4 DEF Exact, Timed, SleepIInv
    <3>3. Elapsed(u) = IF xTickCount >= entered THEN xTickCount - entered
                       ELSE xTickCount - entered + (MaxDelay + 1)
      BY <3>1 DEF Elapsed
    <3>4. Elapsed(u)' = IF xTickCount' >= entered THEN xTickCount' - entered
                        ELSE xTickCount' - entered + (MaxDelay + 1)
      BY <2>1, <3>1 DEF Elapsed
    <3>5. Elapsed(u) < MaxDelay
      BY <1>1, <2>1, <2>4, <3>2, <3>3
    <3>6. Elapsed(u)' = Elapsed(u) + 1
      BY <1>1, <2>2, <3>3, <3>4, <3>5
    <3> QED
      BY <1>1, <2>1, <2>4, <3>2, <3>3, <3>6
  <2> QED
    BY <1>1, <2>1, <2>3, <2>4 DEF Exact
<1> QED
  BY <1>1, <1>2, <1>3, <1>4, <1>5, <1>6, <1>7, CallChanges DEF CallStep

(* What a step of another task or of an interrupt does to task u.           *)
Undisturbed(u) ==
  /\ pc'[u] = pc[u]
  /\ xTicksToWait'[u] = xTicksToWait[u] /\ xTimeOut'[u] = xTimeOut[u]
  /\ remaining'[u] = remaining[u]
  /\ UNCHANGED ticks
  /\ suspended' = u => suspended = u
  /\ u \in asleep' => u \in asleep /\ wakeTime'[u] = wakeTime[u]

LEMMA UndisturbedStep ==
  ASSUME NEW u \in Tasks, SleepInv(u), Undisturbed(u)
  PROVE  SleepInv(u)'
BY DEF Undisturbed, SleepInv, LockedLabels, ticks

(* Waking tasks leaves the others as they are.                              *)
OnlyWakes == \A u \in Tasks : u \in asleep' => u \in asleep /\ wakeTime'[u] = wakeTime[u]

LEMMA WakesOnly ==
  /\ \A n : WakeReceivers(n) \/ WakeSenders(n) => OnlyWakes
  /\ UNCHANGED waiting => OnlyWakes
  /\ \A t : WakeDue(t) => OnlyWakes
<1>1. ASSUME NEW woken, Awake(woken)
      PROVE  OnlyWakes
  BY <1>1 DEF Awake, OnlyWakes
<1>2. UNCHANGED waiting => OnlyWakes
  BY DEF waiting, OnlyWakes
<1> QED
  BY <1>1, <1>2 DEF WakeReceivers, WakeSenders, WakeDue

LEMMA OthersUndisturbed ==
  ASSUME IInv, [Next]_vars, NEW u \in Tasks, ~ Tick, ~ Call(u), ~ Continue(u)
  PROVE  Undisturbed(u)
<1>1. UNCHANGED ticks /\ CallType /\ WaitType /\ NULL \notin Tasks
  BY TicksKept, ConstantsAssumption DEF IInv
<1>2. ASSUME UNCHANGED <<pc, callVars, suspended>>, OnlyWakes
      PROVE  Undisturbed(u)
  BY <1>1, <1>2 DEF Undisturbed, callVars, OnlyWakes
<1>3. UNCHANGED waiting => OnlyWakes
  BY WakesOnly
<1>4. ASSUME NEW t \in Tasks, t # u, Call(t) \/ Continue(t)
      PROVE  Undisturbed(u)
  <2>1. /\ pc'[u] = pc[u]
        /\ xTicksToWait'[u] = xTicksToWait[u] /\ xTimeOut'[u] = xTimeOut[u]
        /\ remaining'[u] = remaining[u]
    BY <1>1, <1>4
       DEF Call, Continue, xQueueGenericSend, xQueueReceive, xQueueSemaphoreTake,
           xQueuePeek, GiveUpOrWait, prvLockQueue, xTaskCheckForTimeOut, CheckState,
           vTaskPlaceOnEventList, UnlockTx, UnlockRx, TimedOut, Return, GoTo, CallType,
           callVars
  <2>2. suspended' \in {suspended, t, NULL}
    BY <1>4 DEF Call, Continue, xQueueGenericSend, xQueueReceive, xQueueSemaphoreTake,
                xQueuePeek, Attempts, prvLockQueue, CheckState, vTaskPlaceOnEventList,
                UnlockTx, UnlockRx, TimedOut
  <2>3. OnlyWakes \/ vTaskPlaceOnEventList(t)
    BY <1>4, <1>3, WakesOnly
       DEF Call, Continue, xQueueGenericSend, xQueueReceive, xQueueSemaphoreTake,
           xQueuePeek, GiveUpOrWait, prvLockQueue, CheckState, UnlockTx, UnlockRx,
           TimedOut
  <2>4. u \in asleep' => u \in asleep /\ wakeTime'[u] = wakeTime[u]
    BY <1>1, <1>4, <2>3 DEF OnlyWakes, vTaskPlaceOnEventList, WaitType
  <2> QED
    BY <1>1, <1>4, <2>1, <2>2, <2>4 DEF Undisturbed
<1>5. ASSUME NEW t \in Tasks, xQueueGenericReset(t) \/ WakeDue(t)
      PROVE  Undisturbed(u)
  BY <1>2, <1>5, WakesOnly DEF xQueueGenericReset, WakeDue
<1>6. WakeReceiverOrCount \/ WakeSenderOrCount => OnlyWakes
  BY <1>3, WakesOnly DEF WakeReceiverOrCount, WakeSenderOrCount
<1>7. ASSUME xQueueGenericSendFromISR \/ xQueueGiveFromISR \/ xQueueReceiveFromISR
      PROVE  Undisturbed(u)
  BY <1>2, <1>6, <1>7
     DEF xQueueGenericSendFromISR, xQueueGiveFromISR, xQueueReceiveFromISR
<1>8. UNCHANGED vars => Undisturbed(u)
  BY <1>2, <1>3 DEF vars
<1> QED
  BY <1>4, <1>5, <1>7, <1>8 DEF Next

LEMMA SleepStep ==
  ASSUME SleepIInv, [Next]_vars, NEW u \in Tasks
  PROVE  SleepInv(u)'
<1>1. /\ IInv /\ CallType /\ WaitType /\ SleepInv(u) /\ TimeInv(u) /\ Exact(u)
      /\ NULL \notin Tasks
  BY ConstantsAssumption DEF SleepIInv, IInv
<1>2. CASE ~ Tick /\ ~ Call(u) /\ ~ Continue(u)
  BY <1>1, <1>2, OthersUndisturbed, UndisturbedStep
<1>3. ASSUME pc[u] \in {"application", "attempt"}, Runs(u), UNCHANGED suspended, OnlyWakes,
             pc'[u] \in {"application", "attempt", "lock"}
      PROVE  SleepInv(u)'
  <2>1. suspended # u
    BY <1>1, <1>3 DEF SleepInv, LockedLabels
  <2>2. u \notin asleep
    BY <1>3, <2>1 DEF Runs
  <2>3. u \notin asleep' /\ suspended' # u
    BY <1>3, <2>1, <2>2 DEF OnlyWakes
  <2> QED
    BY <1>3, <2>3 DEF SleepInv
<1>4. CASE Call(u)
  <2>1. pc[u] = "application" /\ pc'[u] = "attempt" /\ Runs(u) /\ UNCHANGED suspended
    BY <1>1, <1>4 DEF Call, CallType
  <2>2. OnlyWakes
    BY <1>4, WakesOnly DEF Call
  <2> QED
    BY <1>3, <2>1, <2>2
<1>5. CASE \/ xQueueGenericSend(u) \/ xQueueReceive(u) \/ xQueueSemaphoreTake(u)
           \/ xQueuePeek(u)
  <2>1. pc[u] = "attempt" /\ Runs(u) /\ UNCHANGED suspended
    BY <1>5 DEF xQueueGenericSend, xQueueReceive, xQueueSemaphoreTake, xQueuePeek, Attempts
  <2>2. OnlyWakes /\ (Return(u) \/ GiveUpOrWait(u))
    BY <1>5, WakesOnly DEF xQueueGenericSend, xQueueReceive, xQueueSemaphoreTake,
                           xQueuePeek, GiveUpOrWait
  <2>3. pc'[u] \in {"application", "lock"}
    BY <1>1, <2>2 DEF Return, GiveUpOrWait, CallType
  <2> QED
    BY <1>3, <2>1, <2>2, <2>3
<1>6. CASE prvLockQueue(u)
  <2>1. /\ pc[u] = "lock" /\ UNCHANGED waiting
        /\ pc'[u] = IF TimeIsOver(u) THEN "unlockTx" ELSE "checkState"
    BY <1>1, <1>6 DEF prvLockQueue, CallType
  <2>2. u \notin asleep'
    BY <1>1, <2>1 DEF SleepInv, waiting
  <2>3. CASE TimeIsOver(u)
    BY <2>1, <2>2, <2>3 DEF SleepInv, LockedLabels
  <2>4. CASE ~ TimeIsOver(u)
    <3>1. /\ xTicksToWait'[u] # 0 /\ xTimeOut'[u] # NULL
          /\ xTicksToWait'[u] # MaxDelay => remaining'[u] = xTicksToWait'[u]
      BY <1>6, <2>4, LockStep
    <3> QED
      BY <2>1, <2>2, <2>4, <3>1 DEF SleepInv, LockedLabels
  <2> QED
    BY <2>3, <2>4
<1>7. CASE CheckState(u)
  <2>1. /\ pc[u] = "checkState" /\ pc'[u] \in {"place", "unlockTx"}
        /\ UNCHANGED <<callVars, waiting, suspended>>
    BY <1>1, <1>7 DEF CheckState, GoTo, CallType
  <2> QED
    BY <1>1, <2>1 DEF SleepInv, LockedLabels, callVars, waiting
<1>8. CASE vTaskPlaceOnEventList(u)
  <2>1. /\ pc[u] = "place" /\ pc'[u] = "unlockTx"
        /\ UNCHANGED <<callVars, suspended, ticks>>
        /\ wakeTime'[u] = IF xTicksToWait[u] = MaxDelay THEN NULL
                          ELSE (xTickCount + xTicksToWait[u]) % (MaxDelay + 1)
    BY <1>1, <1>8 DEF vTaskPlaceOnEventList, GoTo, CallType, WaitType
  <2>2. /\ xTicksToWait[u] # 0 /\ xTimeOut[u] # NULL
        /\ xTicksToWait[u] # MaxDelay => remaining[u] = xTicksToWait[u]
    BY <1>1, <2>1 DEF SleepInv
  <2>3. ASSUME wakeTime'[u] # NULL
        PROVE  /\ xTicksToWait[u] # MaxDelay
               /\ remaining[u] = (wakeTime'[u] - xTickCount) % (MaxDelay + 1)
    <3>1. /\ xTicksToWait[u] # MaxDelay
          /\ wakeTime'[u] = (xTickCount + xTicksToWait[u]) % (MaxDelay + 1)
      BY <2>1, <2>3
    <3>2. MaxDelay \in Nat /\ xTickCount \in 0..MaxDelay /\ xTicksToWait[u] \in 0..MaxDelay
      BY <1>1, ConstantsAssumption DEF IInv, TickType, CallType
    <3>3. PICK w \in 0..MaxDelay : w = xTicksToWait[u]
      BY <3>2
    <3>4. (xTickCount + w) % (MaxDelay + 1)
            = IF xTickCount + w <= MaxDelay THEN xTickCount + w
              ELSE xTickCount + w - (MaxDelay + 1)
      BY <3>2
    <3>5. wakeTime'[u] - xTickCount = w \/ wakeTime'[u] - xTickCount = w - (MaxDelay + 1)
      BY <3>1, <3>2, <3>3, <3>4
    <3>6. w % (MaxDelay + 1) = w /\ (w - (MaxDelay + 1)) % (MaxDelay + 1) = w
      BY <3>2
    <3> QED
      BY <2>2, <3>1, <3>3, <3>5, <3>6
  <2> QED
    BY <1>1, <2>1, <2>2, <2>3 DEF SleepInv, LockedLabels, callVars, ticks
<1>9. CASE UnlockTx(u)
  <2>1. /\ pc[u] = "unlockTx" /\ pc'[u] = "unlockRx"
        /\ UNCHANGED <<callVars, suspended, ticks>> /\ OnlyWakes
    BY <1>1, <1>9, WakesOnly DEF UnlockTx, GoTo, CallType
  <2> QED
    BY <1>1, <2>1 DEF SleepInv, LockedLabels, callVars, ticks, OnlyWakes
<1>10. CASE UnlockRx(u)
  <2>1. pc[u] = "unlockRx" /\ suspended' = NULL /\ UNCHANGED ticks /\ OnlyWakes
    BY <1>10, WakesOnly DEF UnlockRx
  <2>2. pc'[u] \in {"attempt", "application", "timedOut"}
    BY <1>1, <1>10 DEF UnlockRx, GoTo, Return, CallType
  <2>3. CASE u \in asleep'
    <3>1. u \in asleep /\ wakeTime'[u] = wakeTime[u]
      BY <2>1, <2>3 DEF OnlyWakes
    <3>2. pc'[u] = "attempt" /\ UNCHANGED callVars
      BY <1>1, <1>10, <3>1 DEF SleepInv, UnlockRx, GoTo, CallType
    <3> QED
      BY <1>1, <2>1, <3>1, <3>2 DEF SleepInv, callVars, ticks
  <2>4. CASE u \notin asleep'
    BY <1>1, <2>1, <2>2, <2>4 DEF SleepInv
  <2> QED
    BY <2>3, <2>4
<1>11. CASE TimedOut(u)
  <2>1. /\ pc[u] = "timedOut" /\ pc'[u] \in {"application", "attempt"}
        /\ UNCHANGED <<suspended, waiting>>
    BY <1>1, <1>11 DEF TimedOut, GoTo, Return, CallType
  <2>2. u \notin asleep' /\ suspended' # u
    BY <1>1, <2>1 DEF SleepInv, LockedLabels, waiting
  <2> QED
    BY <2>1, <2>2 DEF SleepInv
<1>12. CASE Tick
  <2>1. /\ UNCHANGED <<pc, xTicksToWait, xTimeOut, suspended, waiting>>
        /\ suspended = NULL /\ Due = {}
        /\ xTickCount' = (xTickCount + 1) % (MaxDelay + 1)
        /\ remaining'[u] = IF Timed(u) THEN remaining[u] - 1 ELSE remaining[u]
    BY <1>12 DEF Tick, NoTick
  <2>2. pc[u] \notin LockedLabels
    BY <1>1, <2>1 DEF IInv, Locked, LockedLabels
  <2>3. ASSUME u \in asleep, wakeTime[u] # NULL
        PROVE  remaining'[u] = (wakeTime[u] - xTickCount') % (MaxDelay + 1)
    <3>1. /\ MaxDelay \in Nat /\ xTickCount \in 0..MaxDelay
          /\ wakeTime[u] \in 0..MaxDelay
      BY <1>1, <2>3, ConstantsAssumption DEF IInv, TickType, WaitType
    <3>2. wakeTime[u] # xTickCount
      BY <2>1, <2>3 DEF Due
    <3>3. remaining'[u] = ((wakeTime[u] - xTickCount) % (MaxDelay + 1)) - 1
      BY <1>1, <2>1, <2>3 DEF SleepInv, Timed
    <3>4. PICK w \in 0..MaxDelay : w = wakeTime[u]
      BY <3>1
    <3>5. xTickCount' = IF xTickCount = MaxDelay THEN 0 ELSE xTickCount + 1
      <4>1. \A m \in Nat : \A a \in 0..m :
              (a + 1) % (m + 1) = IF a = m THEN 0 ELSE a + 1
        OBVIOUS
      <4> QED
        BY <2>1, <3>1, <4>1
    <3>6. (w - xTickCount) % (MaxDelay + 1)
            = IF w >= xTickCount THEN w - xTickCount ELSE w - xTickCount + MaxDelay + 1
      BY <3>1
    <3>7. PICK c \in 0..MaxDelay : c = xTickCount'
      BY <3>1, <3>5
    <3>8. (w - c) % (MaxDelay + 1)
            = IF w >= c THEN w - c ELSE w - c + MaxDelay + 1
      BY <3>1
    <3>9. remaining'[u] = (w - c) % (MaxDelay + 1)
      BY <3>1, <3>2, <3>3, <3>4, <3>5, <3>6, <3>7, <3>8
    <3> QED
      BY <3>4, <3>7, <3>9
  <2>4. UNCHANGED <<pc, xTicksToWait, xTimeOut, suspended, asleep, wakeTime>>
    BY <2>1 DEF waiting
  <2>5. /\ suspended' # u /\ pc'[u] \notin {"checkState", "place"}
        /\ pc'[u] = pc[u] /\ xTicksToWait'[u] = xTicksToWait[u]
        /\ xTimeOut'[u] = xTimeOut[u] /\ wakeTime'[u] = wakeTime[u]
    BY <1>1, <2>1, <2>2, <2>4 DEF LockedLabels
  <2> QED
    BY <1>1, <2>3, <2>4, <2>5 DEF SleepInv
<1> QED
  BY <1>2, <1>4, <1>5, <1>6, <1>7, <1>8, <1>9, <1>10, <1>11, <1>12 DEF Continue

(* Unless a task can be late by more than the clock can show, it sleeps for *)
(* what is left of its time, however often it was woken before.             *)
THEOREM SleepsAreRight ==
  ASSUME NeverTooLate
  PROVE  Spec => []SleepsForTheRest
<1>1. Init => SleepIInv
  <2> SUFFICES ASSUME Init, NEW t \in Tasks PROVE TimeInv(t) /\ Exact(t) /\ SleepInv(t)
    BY InitInv DEF SleepIInv
  <2>1. NULL \notin Tasks
    BY ConstantsAssumption
  <2> QED
    BY <2>1 DEF Init, TimeInv, Exact, SleepInv, Timed
<1>2. SleepIInv /\ [Next]_vars => SleepIInv'
  <2> SUFFICES ASSUME SleepIInv, [Next]_vars PROVE SleepIInv'
    OBVIOUS
  <2>1. IInv'
    BY StepInv DEF SleepIInv
  <2>2. ASSUME NEW t \in Tasks
        PROVE  TimeInv(t)' /\ Exact(t)' /\ SleepInv(t)'
    BY TimeStep, ExactStep, SleepStep DEF SleepIInv
  <2> QED
    BY <2>1, <2>2 DEF SleepIInv
<1>3. SleepIInv => SleepsForTheRest
  BY DEF SleepIInv, IInv, WaitType, SleepInv, SleepsForTheRest
<1> QED
  BY <1>1, <1>2, <1>3, PTL DEF Spec

-----------------------------------------------------------------------------
(***************************************************************************)
(* No wake-up is lost.  AwaitInv and ListsInv say that whoever is in a list *)
(* sleeps there once and has time left.  Covers is WaitersAreWoken at every *)
(* moment: while the queue is locked the lock count stands for wake-ups     *)
(* that are still to come, unless it is at its limit and wakes everybody,   *)
(* and a task that has found the queue empty (or full) under the lock       *)
(* counts as waiting already.                                               *)
(***************************************************************************)

AwaitInv(t) ==
  /\ suspended = t => pc[t] \in LockedLabels
  /\ pc[t] \in {"checkState", "place"} => xTicksToWait[t] # 0 /\ xTimeOut[t] # NULL
  /\ t \in asleep =>
       /\ pc[t] \in {"unlockTx", "unlockRx", "attempt"}
       /\ xTicksToWait[t] # 0 /\ xTimeOut[t] # NULL

Calling(t) == pc[t] # "application" => call[t] \in SendCalls \union ReceiveCalls

ListsInv ==
  /\ NoDuplicates(xTasksWaitingToReceive) /\ NoDuplicates(xTasksWaitingToSend)
  /\ \A t \in Items(xTasksWaitingToReceive) : t \in asleep /\ call[t] \in ReceiveCalls
  /\ \A t \in Items(xTasksWaitingToSend) : t \in asleep /\ call[t] \in SendCalls

Places(calls) == \E t \in Tasks : pc[t] = "place" /\ call[t] \in calls

(* The wake-ups a lock stands for.                                          *)
Pending(lock) == IF lock = queueUNLOCKED THEN 0 ELSE lock
MaxLock == Cardinality(Tasks) + 1

Covers(waits, needed, woken, lock) ==
  waits => (needed <= Cardinality(woken) + Pending(lock) \/ lock = MaxLock)

ReceiversWait == xTasksWaitingToReceive # <<>> \/ Places(ReceiveCalls)
SendersWait == xTasksWaitingToSend # <<>> \/ Places(SendCalls)

ReceiversCovered ==
  Covers(ReceiversWait, uxMessagesWaiting, Woken(ReceiveCalls), cTxLock)

Free == uxLength - uxMessagesWaiting

SendersCovered ==
  uxLength = 1 \/ "reset" \notin kind.calls =>
    Covers(SendersWait, Free, Woken(SendCalls), cRxLock)

AwaitIInv == IInv /\ (\A t \in Tasks : AwaitInv(t) /\ Calling(t)) /\ ListsInv
WakeIInv == AwaitIInv /\ ReceiversCovered /\ SendersCovered

-----------------------------------------------------------------------------
(* The lists: what waking the first n tasks does.                           *)

LEMMA RestFacts ==
  ASSUME NEW S, NEW list \in Seq(S), NEW n \in Nat, NoDuplicates(list)
  PROVE  /\ NoDuplicates(Rest(list, n))
         /\ Items(Rest(list, n)) \subseteq Items(list) \ FirstOf(list, n)
         /\ FirstOf(list, n) \subseteq Items(list)
         /\ n > 0 /\ list # <<>> => FirstOf(list, n) # {}
<1>1. Len(list) \in Nat /\ \A i \in 1..Len(list) : list[i] \in S
  BY LenProperties
<1>2. \A i, j \in 1..Len(list) : i # j => list[i] # list[j]
  BY <1>1 DEF NoDuplicates
<1>3. FirstOf(list, n) \subseteq Items(list)
  BY <1>1 DEF FirstOf, Items
<1>4. n > 0 /\ list # <<>> => list[1] \in FirstOf(list, n)
  BY <1>1, EmptySeq DEF FirstOf
<1>5. CASE n >= Len(list)
  <2>1. Rest(list, n) = <<>> /\ Len(<<>>) = 0
    BY <1>1, <1>5 DEF Rest
  <2> QED
    BY <1>3, <1>4, <2>1 DEF Items, NoDuplicates
<1>6. CASE n < Len(list)
  <2>1. PICK rest : rest = Rest(list, n)
    OBVIOUS
  <2>2. rest = SubSeq(list, n + 1, Len(list))
    BY <1>6, <2>1 DEF Rest
  <2>3. /\ Len(rest) = Len(list) - n
        /\ \A i \in 1..Len(rest) : rest[i] = list[n + i]
    BY <1>1, <1>6, <2>2, SubSeqProperties
  <2>4. \A i \in 1..Len(rest) : n + i \in 1..Len(list) /\ n + i > n
    BY <1>1, <1>6, <2>3
  <2>5. NoDuplicates(rest)
    BY <1>2, <2>3, <2>4 DEF NoDuplicates
  <2>6. FirstOf(list, n) = {list[i] : i \in 1..n}
    BY <1>6 DEF FirstOf
  <2>7. ASSUME NEW i \in 1..Len(rest), NEW k \in 1..n PROVE rest[i] # list[k]
    BY <1>1, <1>2, <1>6, <2>3, <2>4
  <2>8. Items(rest) \subseteq Items(list) \ FirstOf(list, n)
    BY <2>3, <2>4, <2>6, <2>7 DEF Items
  <2> QED
    BY <1>3, <1>4, <2>1, <2>5, <2>8
<1> QED
  BY <1>1, <1>5, <1>6

(* Unless all are woken, there are n of them.                               *)
LEMMA FirstOfCount ==
  ASSUME NEW S, NEW list \in Seq(S), NEW n \in Nat, NoDuplicates(list),
         n < Len(list)
  PROVE  Cardinality(FirstOf(list, n)) = n
<1>1. Len(list) \in Nat /\ \A i \in 1..Len(list) : list[i] \in S
  BY LenProperties
<1>2. FirstOf(list, n) = {list[i] : i \in 1..n}
  BY DEF FirstOf
<1>3. PICK f : f = [i \in 1..n |-> list[i]]
  OBVIOUS
<1>4. \A i, j \in 1..n : i # j => f[i] # f[j]
  BY <1>1, <1>3 DEF NoDuplicates
<1>5. f \in Bijection(1..n, FirstOf(list, n))
  BY <1>2, <1>3, <1>4, Fun_IsBij
<1> QED
  BY <1>5, FS_CountingElements DEF ExistsBijection

LEMMA ListLength ==
  ASSUME NEW list \in Seq(Tasks), NoDuplicates(list)
  PROVE  Len(list) <= Cardinality(Tasks)
<1>1. Len(list) \in Nat /\ \A i \in 1..Len(list) : list[i] \in Tasks
  BY LenProperties
<1>2. \A i, j \in 1..Len(list) : list[i] = list[j] => i = j
  BY <1>1 DEF NoDuplicates
<1>3. list \in [1..Len(list) -> Tasks]
  BY SeqDef
<1>4. list \in Injection(1..Len(list), Tasks)
  BY <1>2, <1>3, Fun_IsInj
<1>5. IsFiniteSet(Tasks)
  BY ConstantsAssumption
<1>6. Cardinality(1..Len(list)) <= Cardinality(Tasks)
  BY <1>4, <1>5, FS_Injection
<1>7. Cardinality(1..Len(list)) = Len(list)
  <2>1. 1 \in Int /\ Len(list) \in Int
    BY <1>1
  <2>2. Cardinality(1..Len(list)) = IF 1 > Len(list) THEN 0 ELSE Len(list) - 1 + 1
    BY <2>1, FS_Interval
  <2> QED
    BY <1>1, <2>2
<1> QED
  BY <1>6, <1>7

-----------------------------------------------------------------------------
(* Who sleeps.                                                              *)

(* A task that is not over its time when it checks has time left.           *)
LEMMA TimeIsLeft ==
  ASSUME IInv, NEW u \in Tasks, prvLockQueue(u), ~ TimeIsOver(u)
  PROVE  xTicksToWait'[u] # 0 /\ xTimeOut'[u] # NULL
<1>1. /\ xTimeOut[u] \in TimeOuts /\ xTicksToWait[u] \in 0..MaxDelay
      /\ CallType /\ MaxDelay \in Nat \ {0}
  BY ConstantsAssumption DEF IInv, Legal, prvLockQueue, CallType
<1>2. Elapsed(u) \in 0..MaxDelay
      /\ Elapsed(u) = (xTickCount - xTimeOut[u].xTimeOnEntering) % (MaxDelay + 1)
  BY <1>1, ElapsedIsSeen
<1>3. CASE xTicksToWait[u] = MaxDelay
  <2>1. xTicksToWait'[u] = MaxDelay /\ xTimeOut'[u] = xTimeOut[u]
    BY <1>3 DEF prvLockQueue, xTaskCheckForTimeOut
  <2> QED
    BY <1>1, <2>1, TimeOutsFact
<1>4. CASE xTicksToWait[u] # MaxDelay
  <2>1. ~ (Elapsed(u) >= xTicksToWait[u])
    BY <1>2, <1>4 DEF TimeIsOver
  <2>2. xTicksToWait'[u] = xTicksToWait[u] - Elapsed(u) /\ xTimeOut'[u] = Now
    BY <1>1, <1>2, <1>4 DEF prvLockQueue, xTaskCheckForTimeOut, CallType
  <2>3. Now \in TimeOuts
    BY DEF IInv, TickType, Now, TimeOuts
  <2> QED
    BY <1>1, <1>2, <2>1, <2>2, <2>3, TimeOutsFact
<1> QED
  BY <1>3, <1>4

LEMMA AwaitStep ==
  ASSUME IInv, NEW u \in Tasks, AwaitInv(u), [Next]_vars
  PROVE  AwaitInv(u)'
<1>1. /\ CallType /\ WaitType /\ NULL \notin Tasks
  BY ConstantsAssumption DEF IInv
<1>2. CASE ~ Tick /\ ~ Call(u) /\ ~ Continue(u)
  <2>1. Undisturbed(u)
    BY <1>2, OthersUndisturbed
  <2> QED
    BY <2>1 DEF Undisturbed, AwaitInv, LockedLabels
<1>3. ASSUME pc[u] \in {"application", "attempt"}, Runs(u), UNCHANGED suspended, OnlyWakes,
             pc'[u] \in {"application", "attempt", "lock"}
      PROVE  AwaitInv(u)'
  <2>1. suspended # u
    BY <1>3 DEF AwaitInv, LockedLabels
  <2>2. u \notin asleep
    BY <1>3, <2>1 DEF Runs
  <2>3. u \notin asleep' /\ suspended' # u
    BY <1>3, <2>1, <2>2 DEF OnlyWakes
  <2> QED
    BY <1>3, <2>3 DEF AwaitInv
<1>4. CASE Call(u)
  <2>1. pc[u] = "application" /\ pc'[u] = "attempt" /\ Runs(u) /\ UNCHANGED suspended
    BY <1>1, <1>4 DEF Call, CallType
  <2>2. OnlyWakes
    BY <1>4, WakesOnly DEF Call
  <2> QED
    BY <1>3, <2>1, <2>2
<1>5. CASE \/ xQueueGenericSend(u) \/ xQueueReceive(u) \/ xQueueSemaphoreTake(u)
           \/ xQueuePeek(u)
  <2>1. pc[u] = "attempt" /\ Runs(u) /\ UNCHANGED suspended
    BY <1>5 DEF xQueueGenericSend, xQueueReceive, xQueueSemaphoreTake, xQueuePeek, Attempts
  <2>2. OnlyWakes /\ (Return(u) \/ GiveUpOrWait(u))
    BY <1>5, WakesOnly DEF xQueueGenericSend, xQueueReceive, xQueueSemaphoreTake,
                           xQueuePeek, GiveUpOrWait
  <2>3. pc'[u] \in {"application", "lock"}
    BY <1>1, <2>2 DEF Return, GiveUpOrWait, CallType
  <2> QED
    BY <1>3, <2>1, <2>2, <2>3
<1>6. CASE prvLockQueue(u)
  <2>1. /\ pc[u] = "lock" /\ UNCHANGED waiting
        /\ pc'[u] = IF TimeIsOver(u) THEN "unlockTx" ELSE "checkState"
    BY <1>1, <1>6 DEF prvLockQueue, CallType
  <2>2. u \notin asleep'
    BY <2>1 DEF AwaitInv, waiting
  <2>3. ~ TimeIsOver(u) => xTicksToWait'[u] # 0 /\ xTimeOut'[u] # NULL
    BY <1>6, TimeIsLeft
  <2> QED
    BY <2>1, <2>2, <2>3 DEF AwaitInv, LockedLabels
<1>7. CASE CheckState(u)
  <2>1. /\ pc[u] = "checkState" /\ pc'[u] \in {"place", "unlockTx"}
        /\ UNCHANGED <<callVars, waiting, suspended>>
    BY <1>1, <1>7 DEF CheckState, GoTo, CallType
  <2> QED
    BY <2>1 DEF AwaitInv, LockedLabels, callVars, waiting
<1>8. CASE vTaskPlaceOnEventList(u)
  <2>1. /\ pc[u] = "place" /\ pc'[u] = "unlockTx" /\ UNCHANGED <<callVars, suspended>>
    BY <1>1, <1>8 DEF vTaskPlaceOnEventList, GoTo, CallType
  <2> QED
    BY <2>1 DEF AwaitInv, LockedLabels, callVars
<1>9. CASE UnlockTx(u)
  <2>1. /\ pc[u] = "unlockTx" /\ pc'[u] = "unlockRx"
        /\ UNCHANGED <<callVars, suspended>> /\ OnlyWakes
    BY <1>1, <1>9, WakesOnly DEF UnlockTx, GoTo, CallType
  <2> QED
    BY <2>1 DEF AwaitInv, LockedLabels, callVars, OnlyWakes
<1>10. CASE UnlockRx(u)
  <2>1. pc[u] = "unlockRx" /\ suspended' = NULL /\ OnlyWakes
    BY <1>10, WakesOnly DEF UnlockRx
  <2>2. pc'[u] \in {"attempt", "application", "timedOut"}
    BY <1>1, <1>10 DEF UnlockRx, GoTo, Return, CallType
  <2>3. CASE u \in asleep'
    <3>1. u \in asleep
      BY <2>1, <2>3 DEF OnlyWakes
    <3>2. pc'[u] = "attempt" /\ UNCHANGED callVars
      BY <1>1, <1>10, <3>1 DEF AwaitInv, UnlockRx, GoTo, CallType
    <3> QED
      BY <1>1, <2>1, <3>1, <3>2 DEF AwaitInv, callVars
  <2>4. CASE u \notin asleep'
    BY <1>1, <2>1, <2>2, <2>4 DEF AwaitInv
  <2> QED
    BY <2>3, <2>4
<1>11. CASE TimedOut(u)
  <2>1. /\ pc[u] = "timedOut" /\ pc'[u] \in {"application", "attempt"}
        /\ UNCHANGED <<suspended, waiting>>
    BY <1>1, <1>11 DEF TimedOut, GoTo, Return, CallType
  <2>2. u \notin asleep' /\ suspended' # u
    BY <2>1 DEF AwaitInv, LockedLabels, waiting
  <2> QED
    BY <2>1, <2>2 DEF AwaitInv
<1>12. CASE Tick
  BY <1>12 DEF Tick, AwaitInv, LockedLabels, waiting
<1> QED
  BY <1>2, <1>4, <1>5, <1>6, <1>7, <1>8, <1>9, <1>10, <1>11, <1>12 DEF Continue

(* A task that executes the call's code outside of the locked part is       *)
(* awake.                                                                   *)
LEMMA RunnersAreAwake ==
  ASSUME NEW u \in Tasks, AwaitInv(u), Runs(u), pc[u] \notin LockedLabels
  PROVE  u \notin asleep /\ suspended = NULL
BY ConstantsAssumption DEF AwaitInv, Runs

(* Nobody's call changes unless he makes a step of it himself.              *)
LEMMA CallKept ==
  ASSUME IInv, [Next]_vars, NEW u \in Tasks, ~ Call(u), ~ Continue(u)
  PROVE  call'[u] = call[u] /\ pc'[u] = pc[u]
<1>1. CallType
  BY DEF IInv
<1>2. ASSUME NEW t \in Tasks, t # u, Call(t) \/ Continue(t)
      PROVE  call'[u] = call[u] /\ pc'[u] = pc[u]
  BY <1>1, <1>2
     DEF Call, Continue, xQueueGenericSend, xQueueReceive, xQueueSemaphoreTake,
         xQueuePeek, GiveUpOrWait, prvLockQueue, CheckState, vTaskPlaceOnEventList,
         UnlockTx, UnlockRx, TimedOut, Return, GoTo, CallType, callVars
<1>3. ASSUME NEW t \in Tasks, xQueueGenericReset(t) \/ WakeDue(t)
      PROVE  call'[u] = call[u] /\ pc'[u] = pc[u]
  BY <1>3 DEF xQueueGenericReset, WakeDue, callVars
<1>4. \/ xQueueGenericSendFromISR \/ xQueueGiveFromISR \/ xQueueReceiveFromISR \/ Tick
      \/ UNCHANGED vars
      => call'[u] = call[u] /\ pc'[u] = pc[u]
  BY DEF xQueueGenericSendFromISR, xQueueGiveFromISR, xQueueReceiveFromISR, Tick, vars,
         callVars
<1> QED
  BY <1>2, <1>3, <1>4 DEF Next

LEMMA CallingStep ==
  ASSUME IInv, [Next]_vars, NEW u \in Tasks, Calling(u)
  PROVE  Calling(u)'
<1>1. CallType /\ kind.calls \subseteq TaskCalls
  BY KindFacts DEF IInv, StoreType
<1>2. CASE ~ Call(u) /\ ~ Continue(u)
  BY <1>2, CallKept DEF Calling
<1>3. CASE Call(u)
  <2>1. PICK c \in kind.calls \ {"reset"} : call' = [call EXCEPT ![u] = c]
    BY <1>3 DEF Call
  <2> QED
    BY <1>1, <2>1 DEF Calling, CallType, TaskCalls
<1>4. CASE Continue(u)
  <2>1. pc[u] # "application"
    BY <1>4 DEF Continue, xQueueGenericSend, xQueueReceive, xQueueSemaphoreTake,
                xQueuePeek, Attempts, prvLockQueue, CheckState, vTaskPlaceOnEventList,
                UnlockTx, UnlockRx, TimedOut
  <2>2. UNCHANGED call \/ Return(u)
    BY <1>4 DEF Continue, xQueueGenericSend, xQueueReceive, xQueueSemaphoreTake,
                xQueuePeek, GiveUpOrWait, prvLockQueue, CheckState,
                vTaskPlaceOnEventList, UnlockTx, UnlockRx, TimedOut, GoTo, callVars
  <2>3. CASE Return(u)
    BY <1>1, <2>3 DEF Return, Calling, CallType
  <2> QED
    BY <2>1, <2>2, <2>3 DEF Calling
<1> QED
  BY <1>2, <1>3, <1>4

(* Nobody's call changes while he sleeps.                                   *)
LEMMA SleepersCalls ==
  ASSUME AwaitIInv, [Next]_vars, NEW u \in asleep
  PROVE  call'[u] = call[u]
<1>1. IInv /\ u \in Tasks /\ AwaitInv(u)
  BY DEF AwaitIInv, IInv, WaitType
<1>2. ~ Call(u)
  BY <1>1, RunnersAreAwake DEF Call, LockedLabels
<1>3. ASSUME Continue(u)
      PROVE  call'[u] = call[u]
  <2>1. ~ (Runs(u) /\ pc[u] \in {"attempt", "lock", "timedOut"})
    BY <1>1, RunnersAreAwake DEF LockedLabels
  <2>2. \/ CheckState(u) \/ vTaskPlaceOnEventList(u) \/ UnlockTx(u) \/ UnlockRx(u)
    BY <1>3, <2>1 DEF Continue, xQueueGenericSend, xQueueReceive, xQueueSemaphoreTake,
                      xQueuePeek, Attempts, prvLockQueue, TimedOut
  <2>3. xTicksToWait[u] # 0
    BY <1>1 DEF AwaitInv
  <2> QED
    BY <2>2, <2>3 DEF CheckState, vTaskPlaceOnEventList, UnlockTx, UnlockRx, GoTo, callVars
<1> QED
  BY <1>1, <1>2, <1>3, CallKept

LEMMA ListsKept ==
  ASSUME IInv, ListsInv, \A t \in asleep : call'[t] = call[t],
         NEW n \in Nat, WakeReceivers(n) \/ WakeSenders(n) \/ UNCHANGED waiting
  PROVE  ListsInv'
<1>1. WaitType /\ ReceiveCalls \intersect SendCalls = {}
  BY DEF IInv, ReceiveCalls, SendCalls
<1>2. CASE WakeReceivers(n)
  <2>1. /\ NoDuplicates(xTasksWaitingToReceive')
        /\ Items(xTasksWaitingToReceive')
             \subseteq Items(xTasksWaitingToReceive)
                         \ FirstOf(xTasksWaitingToReceive, n)
        /\ FirstOf(xTasksWaitingToReceive, n) \subseteq Items(xTasksWaitingToReceive)
    BY <1>1, <1>2, RestFacts DEF WakeReceivers, WaitType, ListsInv
  <2>2. /\ xTasksWaitingToSend' = xTasksWaitingToSend
        /\ asleep' = asleep \ FirstOf(xTasksWaitingToReceive, n)
    BY <1>2 DEF WakeReceivers, Awake
  <2>3. Items(xTasksWaitingToSend) \intersect Items(xTasksWaitingToReceive) = {}
    BY <1>1 DEF ListsInv
  <2> QED
    BY <2>1, <2>2, <2>3 DEF ListsInv
<1>3. CASE WakeSenders(n)
  <2>1. /\ NoDuplicates(xTasksWaitingToSend')
        /\ Items(xTasksWaitingToSend')
             \subseteq Items(xTasksWaitingToSend) \ FirstOf(xTasksWaitingToSend, n)
        /\ FirstOf(xTasksWaitingToSend, n) \subseteq Items(xTasksWaitingToSend)
    BY <1>1, <1>3, RestFacts DEF WakeSenders, WaitType, ListsInv
  <2>2. /\ xTasksWaitingToReceive' = xTasksWaitingToReceive
        /\ asleep' = asleep \ FirstOf(xTasksWaitingToSend, n)
    BY <1>3 DEF WakeSenders, Awake
  <2>3. Items(xTasksWaitingToSend) \intersect Items(xTasksWaitingToReceive) = {}
    BY <1>1 DEF ListsInv
  <2> QED
    BY <2>1, <2>2, <2>3 DEF ListsInv
<1>4. CASE UNCHANGED waiting
  BY <1>4 DEF waiting, ListsInv
<1> QED
  BY <1>2, <1>3, <1>4

(* The counts of a locked queue.                                            *)
LEMMA LockedCounts ==
  ASSUME IInv, NEW t \in Tasks
  PROVE  /\ UnlockTx(t) => cTxLock \in Nat /\ cTxLock # queueUNLOCKED
         /\ UnlockRx(t) => cRxLock \in Nat /\ cRxLock # queueUNLOCKED
BY CountOfTasks DEF UnlockTx, UnlockRx, IInv, Locked, LockType, queueUNLOCKED

LEMMA ListsStep ==
  ASSUME AwaitIInv, [Next]_vars
  PROVE  ListsInv'
<1>1. /\ IInv /\ WaitType /\ CallType /\ ListsInv
      /\ \A t \in asleep : call'[t] = call[t]
  BY SleepersCalls DEF AwaitIInv, IInv
<1>2. ASSUME NEW n \in Nat, WakeReceivers(n) \/ WakeSenders(n) \/ UNCHANGED waiting
      PROVE  ListsInv'
  BY <1>1, <1>2, ListsKept
<1>3. WakeReceivers(1) \/ WakeSenders(1) \/ UNCHANGED waiting => ListsInv'
  BY <1>2
<1>4. EventValue \in [Tasks -> Int]
  BY ConstantsAssumption
<1>5. ASSUME NEW t \in Tasks, vTaskPlaceOnEventList(t)
      PROVE  ListsInv'
  <2>1. t \notin asleep /\ pc[t] = "place"
    BY <1>1, <1>5 DEF AwaitIInv, AwaitInv, vTaskPlaceOnEventList
  <2>2. call[t] \in SendCalls \union ReceiveCalls
    BY <2>1 DEF AwaitIInv, Calling
  <2>3. /\ t \notin Items(xTasksWaitingToSend) /\ t \notin Items(xTasksWaitingToReceive)
    BY <1>1, <2>1 DEF ListsInv
  <2>4. asleep' = asleep \union {t} /\ call' = call
    BY <1>5 DEF vTaskPlaceOnEventList, GoTo, callVars
  <2>5. CASE call[t] \in SendCalls
    <3>1. /\ xTasksWaitingToSend' = vListInsert(xTasksWaitingToSend, EventValue, t)
          /\ xTasksWaitingToReceive' = xTasksWaitingToReceive
      BY <1>5, <2>5 DEF vTaskPlaceOnEventList
    <3>2. /\ NoDuplicates(xTasksWaitingToSend')
          /\ Items(xTasksWaitingToSend') = Items(xTasksWaitingToSend) \union {t}
      <4>1. xTasksWaitingToSend \in Seq(Tasks) /\ NoDuplicates(xTasksWaitingToSend)
        BY <1>1 DEF WaitType, ListsInv
      <4> QED
        BY <1>4, <2>3, <3>1, <4>1, ListInsertProperties
    <3> QED
      BY <1>1, <2>4, <2>5, <3>1, <3>2 DEF ListsInv
  <2>6. CASE call[t] \notin SendCalls
    <3>1. /\ xTasksWaitingToReceive' = vListInsert(xTasksWaitingToReceive, EventValue, t)
          /\ xTasksWaitingToSend' = xTasksWaitingToSend
      BY <1>5, <2>6 DEF vTaskPlaceOnEventList
    <3>2. /\ NoDuplicates(xTasksWaitingToReceive')
          /\ Items(xTasksWaitingToReceive') = Items(xTasksWaitingToReceive) \union {t}
      <4>1. xTasksWaitingToReceive \in Seq(Tasks) /\ NoDuplicates(xTasksWaitingToReceive)
        BY <1>1 DEF WaitType, ListsInv
      <4> QED
        BY <1>4, <2>3, <3>1, <4>1, ListInsertProperties
    <3> QED
      BY <1>1, <2>2, <2>4, <2>6, <3>1, <3>2 DEF ListsInv
  <2> QED
    BY <2>5, <2>6
<1>6. ASSUME NEW t \in Tasks, WakeDue(t)
      PROVE  ListsInv'
  <2>1. /\ xTasksWaitingToSend' = uxListRemove(xTasksWaitingToSend, t)
        /\ xTasksWaitingToReceive' = uxListRemove(xTasksWaitingToReceive, t)
        /\ asleep' = asleep \ {t} /\ call' = call
    BY <1>6 DEF WakeDue, Awake, callVars
  <2>2. /\ NoDuplicates(xTasksWaitingToSend')
        /\ Items(xTasksWaitingToSend') = Items(xTasksWaitingToSend) \ {t}
    BY <1>1, <1>4, <2>1, ListRemoveProperties DEF WaitType, ListsInv
  <2>3. /\ NoDuplicates(xTasksWaitingToReceive')
        /\ Items(xTasksWaitingToReceive') = Items(xTasksWaitingToReceive) \ {t}
    BY <1>1, <1>4, <2>1, ListRemoveProperties DEF WaitType, ListsInv
  <2> QED
    BY <1>1, <2>1, <2>2, <2>3 DEF ListsInv
<1>7. ASSUME NEW t \in Tasks,
             \/ Call(t) \/ xQueueGenericSend(t) \/ xQueueReceive(t)
             \/ xQueueSemaphoreTake(t) \/ xQueuePeek(t) \/ prvLockQueue(t)
             \/ CheckState(t) \/ TimedOut(t) \/ xQueueGenericReset(t)
      PROVE  ListsInv'
  BY <1>3, <1>7 DEF Call, xQueueGenericSend, xQueueReceive, xQueueSemaphoreTake, xQueuePeek,
                    GiveUpOrWait, prvLockQueue, CheckState, TimedOut, xQueueGenericReset
<1>8. ASSUME NEW t \in Tasks, UnlockTx(t) \/ UnlockRx(t)
      PROVE  ListsInv'
  <2>1. \E n \in Nat : WakeReceivers(n) \/ WakeSenders(n)
    BY <1>1, <1>8, LockedCounts DEF UnlockTx, UnlockRx
  <2> QED
    BY <1>2, <2>1
<1>9. xQueueGenericSendFromISR \/ xQueueGiveFromISR \/ xQueueReceiveFromISR => ListsInv'
  BY <1>3 DEF xQueueGenericSendFromISR, xQueueGiveFromISR, xQueueReceiveFromISR,
              WakeReceiverOrCount, WakeSenderOrCount
<1>10. Tick \/ UNCHANGED vars => ListsInv'
  BY <1>3 DEF Tick, vars
<1> QED
  BY <1>5, <1>6, <1>7, <1>8, <1>9, <1>10 DEF Next, Continue

LEMMA AwaitIStep ==
  ASSUME AwaitIInv, [Next]_vars
  PROVE  AwaitIInv'
<1>1. IInv'
  BY StepInv DEF AwaitIInv
<1>2. \A t \in Tasks : AwaitInv(t)' /\ Calling(t)'
  BY AwaitStep, CallingStep DEF AwaitIInv
<1>3. ListsInv'
  BY ListsStep
<1> QED
  BY <1>1, <1>2, <1>3 DEF AwaitIInv

-----------------------------------------------------------------------------
(* Counting: how Covers is kept.                                            *)

LockRange == queueUNLOCKED..MaxLock

LEMMA PendingType ==
  ASSUME NEW lock \in LockRange
  PROVE  Pending(lock) \in Nat /\ MaxLock \in Nat \ {0}
BY CountOfTasks DEF LockRange, MaxLock, Pending, queueUNLOCKED

(* Nothing to cover, or nothing that waits.                                 *)
LEMMA NothingToCover ==
  ASSUME NEW waits \in BOOLEAN, NEW n \in Nat, NEW woken \in SUBSET Tasks,
         NEW lock \in LockRange, n = 0 \/ ~ waits
  PROVE  Covers(waits, n, woken, lock)
BY PendingType, ConstantsAssumption, FS_Subset, FS_CardinalityType DEF Covers

LEMMA CoversKept ==
  ASSUME NEW waits \in BOOLEAN, NEW waits2 \in BOOLEAN, waits2 => waits,
         NEW n \in Nat, NEW n2 \in Nat, n2 <= n,
         NEW woken \in SUBSET Tasks, NEW woken2 \in SUBSET Tasks, woken \subseteq woken2,
         NEW lock \in LockRange, NEW lock2 \in LockRange,
         Pending(lock2) = Pending(lock), lock = MaxLock => lock2 = MaxLock,
         Covers(waits, n, woken, lock)
  PROVE  Covers(waits2, n2, woken2, lock2)
<1>1. IsFiniteSet(woken2) /\ IsFiniteSet(woken)
  BY ConstantsAssumption, FS_Subset
<1>2. /\ Cardinality(woken) \in Nat /\ Cardinality(woken2) \in Nat
      /\ Cardinality(woken) <= Cardinality(woken2)
  BY <1>1, FS_CardinalityType, FS_Subset
<1> QED
  BY <1>2, PendingType DEF Covers

(* A woken task has come, for one message.                                  *)
LEMMA CoversOneLess ==
  ASSUME NEW waits \in BOOLEAN, NEW waits2 \in BOOLEAN, waits2 => waits,
         NEW n \in Nat, NEW n2 \in Nat, n2 = n - 1,
         NEW woken \in SUBSET Tasks, NEW woken2 \in SUBSET Tasks,
         NEW t \in Tasks, woken \ {t} \subseteq woken2,
         NEW lock \in LockRange,
         Covers(waits, n, woken, lock)
  PROVE  Covers(waits2, n2, woken2, lock)
<1>1. /\ IsFiniteSet(woken) /\ IsFiniteSet(woken2) /\ IsFiniteSet(woken \ {t})
      /\ Cardinality(woken) \in Nat /\ Cardinality(woken2) \in Nat
      /\ Cardinality(woken \ {t}) \in Nat
  BY ConstantsAssumption, FS_Subset, FS_CardinalityType
<1>2. Cardinality(woken) <= Cardinality(woken \ {t}) + 1
  BY <1>1, FS_RemoveElement
<1>3. Cardinality(woken \ {t}) <= Cardinality(woken2)
  BY <1>1, FS_Subset
<1> QED
  BY <1>1, <1>2, <1>3, PendingType DEF Covers

(* One more is woken.                                                       *)
LEMMA CoversOneMore ==
  ASSUME NEW waits \in BOOLEAN, NEW waits2 \in BOOLEAN, waits,
         NEW n \in Nat, NEW n2 \in Nat, n2 <= n + 1,
         NEW woken \in SUBSET Tasks, NEW woken2 \in SUBSET Tasks,
         woken \subseteq woken2, NEW x \in woken2, x \notin woken,
         NEW lock \in LockRange,
         Covers(waits, n, woken, lock)
  PROVE  Covers(waits2, n2, woken2, lock)
<1>1. /\ IsFiniteSet(woken) /\ IsFiniteSet(woken2)
      /\ IsFiniteSet(woken \union {x}) /\ woken \union {x} \subseteq woken2
      /\ Cardinality(woken) \in Nat /\ Cardinality(woken2) \in Nat
      /\ Cardinality(woken \union {x}) = Cardinality(woken) + 1
  BY ConstantsAssumption, FS_Subset, FS_CardinalityType, FS_AddElement
<1>2. Cardinality(woken \union {x}) <= Cardinality(woken2)
  BY <1>1, FS_Subset
<1> QED
  BY <1>1, <1>2, PendingType DEF Covers

(* One takes the place of another.                                          *)
LEMMA CoversReplaced ==
  ASSUME NEW waits \in BOOLEAN, NEW waits2 \in BOOLEAN, waits,
         NEW n \in Nat,
         NEW woken \in SUBSET Tasks, NEW woken2 \in SUBSET Tasks,
         NEW t \in Tasks, woken \ {t} \subseteq woken2, NEW x \in woken2, x \notin woken,
         NEW lock \in LockRange,
         Covers(waits, n, woken, lock)
  PROVE  Covers(waits2, n, woken2, lock)
<1> DEFINE others == woken \ {t}
<1>1. /\ IsFiniteSet(woken) /\ IsFiniteSet(woken2) /\ IsFiniteSet(others)
      /\ IsFiniteSet(others \union {x}) /\ others \union {x} \subseteq woken2
      /\ Cardinality(woken) \in Nat /\ Cardinality(woken2) \in Nat
      /\ Cardinality(others) \in Nat
      /\ Cardinality(others \union {x}) = Cardinality(others) + 1
  <2>1. others \subseteq Tasks /\ x \in Tasks /\ x \notin others /\ others \union {x} \subseteq woken2
    OBVIOUS
  <2>2. IsFiniteSet(woken) /\ IsFiniteSet(woken2) /\ IsFiniteSet(others)
    BY <2>1, ConstantsAssumption, FS_Subset
  <2>3. /\ IsFiniteSet(others \union {x})
        /\ Cardinality(others \union {x}) = Cardinality(others) + 1
    BY <2>1, <2>2, FS_AddElement
  <2> QED
    BY <2>1, <2>2, <2>3, FS_CardinalityType
<1>2. Cardinality(woken) <= Cardinality(others) + 1
  BY <1>1, FS_RemoveElement
<1>3. Cardinality(others \union {x}) <= Cardinality(woken2)
  BY <1>1, FS_Subset
<1> QED
  BY <1>1, <1>2, <1>3, PendingType DEF Covers

(* An interrupt counts instead of waking.                                   *)
LEMMA CoversCounted ==
  ASSUME NEW waits \in BOOLEAN, NEW waits2 \in BOOLEAN, waits2 => waits,
         NEW n \in Nat, NEW n2 \in Nat, n2 <= n + 1,
         NEW woken \in SUBSET Tasks, NEW woken2 \in SUBSET Tasks, woken \subseteq woken2,
         NEW lock \in LockRange, lock # queueUNLOCKED,
         Covers(waits, n, woken, lock)
  PROVE  Covers(waits2, n2, woken2, Increment(lock))
<1>1. /\ IsFiniteSet(woken) /\ IsFiniteSet(woken2)
      /\ Cardinality(woken) \in Nat /\ Cardinality(woken2) \in Nat
      /\ Cardinality(woken) <= Cardinality(woken2)
  BY ConstantsAssumption, FS_Subset, FS_CardinalityType
<1>2. CASE lock = MaxLock
  BY <1>2, PendingType DEF Increment, MaxLock, Covers
<1>3. CASE lock # MaxLock
  <2>1. Increment(lock) = lock + 1 /\ Pending(lock) = lock /\ Pending(lock + 1) = lock + 1
    BY <1>3, CountOfTasks DEF Increment, LockRange, MaxLock, Pending, queueUNLOCKED
  <2>2. lock \in Nat
    BY CountOfTasks DEF LockRange, MaxLock, queueUNLOCKED
  <2> QED
    BY <1>1, <1>3, <2>1, <2>2 DEF Covers
<1> QED
  BY <1>2, <1>3

(* Unlocking wakes as many as were counted, or all.                         *)
LEMMA CoversUnlocked ==
  ASSUME NEW waits \in BOOLEAN, NEW n \in Nat,
         NEW list \in Seq(Tasks), NoDuplicates(list), waits,
         NEW lock \in LockRange, lock # queueUNLOCKED,
         NEW woken \in SUBSET Tasks, NEW woken2 \in SUBSET Tasks,
         woken \union FirstOf(list, lock) \subseteq woken2,
         woken \intersect FirstOf(list, lock) = {},
         Covers(waits, n, woken, lock)
  PROVE  Covers(Rest(list, lock) # <<>>, n, woken2, queueUNLOCKED)
<1>1. lock \in Nat /\ MaxLock \in Nat /\ Pending(lock) = lock /\ Pending(queueUNLOCKED) = 0
  BY CountOfTasks DEF LockRange, MaxLock, Pending, queueUNLOCKED
<1>2. CASE ~ (lock < Len(list))
  BY <1>2 DEF Covers, Rest
<1>3. CASE lock < Len(list)
  <2>1. Cardinality(FirstOf(list, lock)) = lock
    BY <1>1, <1>3, FirstOfCount
  <2>2. lock # MaxLock
    BY <1>1, <1>3, ListLength, LenProperties, CountOfTasks DEF MaxLock
  <2>3. /\ IsFiniteSet(woken) /\ IsFiniteSet(woken2) /\ IsFiniteSet(FirstOf(list, lock))
        /\ Cardinality(woken) \in Nat /\ Cardinality(woken2) \in Nat
    BY ConstantsAssumption, FS_Subset, FS_CardinalityType
  <2>4. /\ IsFiniteSet(woken \union FirstOf(list, lock))
        /\ Cardinality(woken \union FirstOf(list, lock))
             = Cardinality(woken) + Cardinality(FirstOf(list, lock))
                 - Cardinality(woken \intersect FirstOf(list, lock))
    BY <2>3, FS_Union
  <2>5. Cardinality(woken \intersect FirstOf(list, lock)) = 0
    BY FS_EmptySet
  <2>6. Cardinality(woken \union FirstOf(list, lock)) <= Cardinality(woken2)
    BY <2>3, FS_Subset
  <2> QED
    BY <1>1, <2>1, <2>2, <2>3, <2>4, <2>5, <2>6 DEF Covers
<1> QED
  BY <1>2, <1>3

-----------------------------------------------------------------------------
(* Who is woken, and who begins to wait.                                    *)

(* A woken task stays woken until it looks.                                 *)
LEMMA WokenStay ==
  ASSUME AwaitIInv, [Next]_vars, NEW calls, NEW u \in Woken(calls),
         pc[u] = "attempt" => pc'[u] = "attempt"
  PROVE  u \in Woken(calls)'
<1>1. /\ IInv /\ CallType /\ u \in Tasks /\ call[u] \in calls /\ u \notin asleep
      /\ xTimeOut[u] # NULL
      /\ pc[u] = "attempt" \/ (pc[u] = "unlockRx" /\ xTicksToWait[u] # 0)
  BY DEF AwaitIInv, IInv, Woken
<1>2. CASE Tick
  BY <1>1, <1>2 DEF Tick, Woken, waiting
<1>3. CASE ~ Tick /\ ~ Call(u) /\ ~ Continue(u)
  <2>1. Undisturbed(u) /\ call'[u] = call[u]
    BY <1>1, <1>3, OthersUndisturbed, CallKept
  <2> QED
    BY <1>1, <2>1 DEF Undisturbed, Woken
<1>4. ~ Call(u)
  BY <1>1 DEF Call
<1>5. CASE Continue(u)
  <2>0. ~ (\/ xQueueGenericSend(u) \/ xQueueReceive(u) \/ xQueueSemaphoreTake(u)
           \/ xQueuePeek(u))
    BY <1>1 DEF xQueueGenericSend, xQueueReceive, xQueueSemaphoreTake, xQueuePeek,
                GiveUpOrWait, Return, Attempts, CallType
  <2>1. UnlockRx(u) /\ pc[u] = "unlockRx" /\ xTicksToWait[u] # 0
    BY <1>1, <1>5, <2>0
       DEF Continue, prvLockQueue, CheckState, vTaskPlaceOnEventList, UnlockTx, UnlockRx,
           TimedOut
  <2>2. pc'[u] = "attempt" /\ UNCHANGED callVars
    BY <1>1, <2>1 DEF UnlockRx, GoTo, CallType
  <2>3. u \notin asleep'
    BY <1>1, <2>1, WakesOnly DEF UnlockRx, OnlyWakes
  <2> QED
    BY <1>1, <2>2, <2>3 DEF Woken, callVars
<1> QED
  BY <1>2, <1>3, <1>4, <1>5

LEMMA WokenJoin ==
  ASSUME AwaitIInv, [Next]_vars, NEW calls, NEW u \in asleep, u \notin asleep',
         call[u] \in calls, pc[u] = "unlockTx" => UnlockTx(u)
  PROVE  u \in Woken(calls)'
<1>1. /\ IInv /\ CallType /\ u \in Tasks /\ AwaitInv(u)
      /\ xTicksToWait[u] # 0 /\ xTimeOut[u] # NULL
      /\ pc[u] \in {"unlockTx", "unlockRx", "attempt"}
  BY DEF AwaitIInv, IInv, WaitType, AwaitInv
<1>2. ~ Tick
  BY DEF Tick, waiting
<1>3. ~ Call(u)
  BY <1>1 DEF Call
<1>4. CASE ~ Continue(u)
  <2>1. Undisturbed(u) /\ call'[u] = call[u]
    BY <1>1, <1>2, <1>3, <1>4, OthersUndisturbed, CallKept
  <2>2. pc[u] # "unlockTx"
    BY <1>4 DEF Continue
  <2> QED
    BY <1>1, <2>1, <2>2 DEF Undisturbed, Woken
<1>5. CASE Continue(u)
  <2>1. ~ (Runs(u) /\ pc[u] = "attempt")
    BY <1>1, RunnersAreAwake DEF LockedLabels
  <2>2. \/ pc[u] = "unlockTx" /\ UnlockTx(u)
        \/ pc[u] = "unlockRx" /\ UnlockRx(u)
    BY <1>1, <1>5, <2>1
       DEF Continue, xQueueGenericSend, xQueueReceive, xQueueSemaphoreTake, xQueuePeek,
           Attempts, prvLockQueue, CheckState, vTaskPlaceOnEventList, UnlockTx, UnlockRx,
           TimedOut
  <2>3. pc'[u] \in {"unlockRx", "attempt"} /\ UNCHANGED callVars
    BY <1>1, <2>2 DEF UnlockTx, UnlockRx, GoTo, CallType
  <2> QED
    BY <1>1, <2>3 DEF Woken, callVars
<1> QED
  BY <1>4, <1>5

(* Those a step wakes were not counted before and are now.                  *)
LEMMA ReceiversWoken ==
  ASSUME AwaitIInv, [Next]_vars, NEW n \in Nat, WakeReceivers(n),
         \A t \in asleep : pc[t] = "unlockTx" => UnlockTx(t)
  PROVE  /\ FirstOf(xTasksWaitingToReceive, n) \subseteq Woken(ReceiveCalls)'
         /\ FirstOf(xTasksWaitingToReceive, n) \intersect Woken(ReceiveCalls) = {}
         /\ n > 0 /\ xTasksWaitingToReceive # <<>>
              => FirstOf(xTasksWaitingToReceive, n) # {}
<1>1. WaitType /\ ListsInv
  BY DEF AwaitIInv, IInv
<1>2. /\ FirstOf(xTasksWaitingToReceive, n) \subseteq Items(xTasksWaitingToReceive)
      /\ n > 0 /\ xTasksWaitingToReceive # <<>>
           => FirstOf(xTasksWaitingToReceive, n) # {}
  BY <1>1, RestFacts DEF WaitType, ListsInv
<1>3. ASSUME NEW u \in FirstOf(xTasksWaitingToReceive, n)
      PROVE  u \in Woken(ReceiveCalls)' /\ u \notin Woken(ReceiveCalls)
  <2>1. u \in asleep /\ call[u] \in ReceiveCalls
    BY <1>1, <1>2, <1>3 DEF ListsInv
  <2>2. u \notin asleep'
    BY <1>3 DEF WakeReceivers, Awake
  <2>3. u \in Woken(ReceiveCalls)'
    BY <2>1, <2>2, WokenJoin
  <2> QED
    BY <2>1, <2>3 DEF Woken
<1> QED
  BY <1>2, <1>3

LEMMA SendersWoken ==
  ASSUME AwaitIInv, [Next]_vars, NEW n \in Nat, WakeSenders(n),
         \A t \in asleep : pc[t] = "unlockTx" => UnlockTx(t)
  PROVE  /\ FirstOf(xTasksWaitingToSend, n) \subseteq Woken(SendCalls)'
         /\ FirstOf(xTasksWaitingToSend, n) \intersect Woken(SendCalls) = {}
         /\ n > 0 /\ xTasksWaitingToSend # <<>>
              => FirstOf(xTasksWaitingToSend, n) # {}
<1>1. WaitType /\ ListsInv
  BY DEF AwaitIInv, IInv
<1>2. /\ FirstOf(xTasksWaitingToSend, n) \subseteq Items(xTasksWaitingToSend)
      /\ n > 0 /\ xTasksWaitingToSend # <<>> => FirstOf(xTasksWaitingToSend, n) # {}
  BY <1>1, RestFacts DEF WaitType, ListsInv
<1>3. ASSUME NEW u \in FirstOf(xTasksWaitingToSend, n)
      PROVE  u \in Woken(SendCalls)' /\ u \notin Woken(SendCalls)
  <2>1. u \in asleep /\ call[u] \in SendCalls
    BY <1>1, <1>2, <1>3 DEF ListsInv
  <2>2. u \notin asleep'
    BY <1>3 DEF WakeSenders, Awake
  <2>3. u \in Woken(SendCalls)'
    BY <2>1, <2>2, WokenJoin
  <2> QED
    BY <2>1, <2>3 DEF Woken
<1> QED
  BY <1>2, <1>3

LEMMA NobodyUnlocks ==
  ASSUME IInv, suspended = NULL \/ cTxLock = queueUNLOCKED \/ cRxLock = queueUNLOCKED
  PROVE  \A t \in asleep : pc[t] = "unlockTx" => UnlockTx(t)
BY ConstantsAssumption DEF IInv, Locked, WaitType

LEMMA PlacesKept ==
  ASSUME IInv, [Next]_vars, NEW calls,
         \A t \in Tasks : CheckState(t) /\ pc'[t] = "place" => call[t] \notin calls
  PROVE  Places(calls)' => Places(calls)
<1> SUFFICES ASSUME NEW u \in Tasks, pc'[u] = "place", call'[u] \in calls
             PROVE  Places(calls)
  BY DEF Places
<1>1. CallType
  BY DEF IInv
<1>2. CASE ~ Call(u) /\ ~ Continue(u)
  BY <1>2, CallKept DEF Places
<1>3. ~ Call(u)
  BY <1>1 DEF Call, CallType
<1>4. ASSUME Continue(u)
      PROVE  FALSE
  <2>1. CheckState(u)
    BY <1>1, <1>4
       DEF Continue, xQueueGenericSend, xQueueReceive, xQueueSemaphoreTake, xQueuePeek,
           GiveUpOrWait, Return, prvLockQueue, vTaskPlaceOnEventList, UnlockTx, UnlockRx,
           TimedOut, GoTo, CallType
  <2>2. call' = call
    BY <2>1 DEF CheckState, GoTo, callVars
  <2> QED
    BY <2>1, <2>2
<1> QED
  BY <1>2, <1>3, <1>4

(* Nobody is about to be placed unless the queue is locked by a task that   *)
(* has not passed this point.                                               *)
LEMMA NobodyPlaces ==
  ASSUME IInv, [Next]_vars, NEW calls,
         \/ suspended = NULL
         \/ cTxLock = queueUNLOCKED \/ cRxLock = queueUNLOCKED
         \/ \E t \in Tasks : pc[t] \in {"unlockTx", "unlockRx"}
  PROVE  ~ Places(calls) /\ ~ Places(calls)'
<1>1. \A t \in Tasks : pc[t] \notin {"checkState", "place"}
  BY ConstantsAssumption DEF IInv, Locked
<1>2. ~ Places(calls)
  BY <1>1 DEF Places
<1>3. \A t \in Tasks : ~ CheckState(t)
  BY <1>1 DEF CheckState
<1> QED
  BY <1>2, <1>3, PlacesKept

LEMMA RemoveOfEmpty ==
  ASSUME NEW e
  PROVE  uxListRemove(<<>>, e) = <<>>
<1>1. ~ \E i \in 1..Len(<<>>) : <<>>[i] = e
  OBVIOUS
<1> QED
  BY <1>1 DEF uxListRemove, Without, Contains

(* Only a task that was about to be placed enters a list.                   *)
LEMMA ListsFilled ==
  ASSUME AwaitIInv, [Next]_vars
  PROVE  /\ xTasksWaitingToReceive' # <<>> => ReceiversWait
         /\ xTasksWaitingToSend' # <<>> => SendersWait
<1>1. IInv /\ WaitType
  BY DEF AwaitIInv, IInv
<1>2. \A n \in Nat : Rest(<<>>, n) = <<>>
  BY DEF Rest
<1>3. ASSUME NEW n \in Nat, WakeReceivers(n) \/ WakeSenders(n) \/ UNCHANGED waiting
      PROVE  /\ xTasksWaitingToReceive' # <<>> => xTasksWaitingToReceive # <<>>
             /\ xTasksWaitingToSend' # <<>> => xTasksWaitingToSend # <<>>
  BY <1>2, <1>3 DEF WakeReceivers, WakeSenders, waiting
<1>4. WakeReceivers(1) \/ WakeSenders(1) \/ UNCHANGED waiting
      => /\ xTasksWaitingToReceive' # <<>> => xTasksWaitingToReceive # <<>>
         /\ xTasksWaitingToSend' # <<>> => xTasksWaitingToSend # <<>>
  BY <1>3
<1>5. ASSUME NEW t \in Tasks, vTaskPlaceOnEventList(t)
      PROVE  /\ xTasksWaitingToReceive' # <<>> => ReceiversWait
             /\ xTasksWaitingToSend' # <<>> => SendersWait
  <2>1. call[t] \in SendCalls \union ReceiveCalls /\ pc[t] = "place"
    BY <1>5 DEF AwaitIInv, Calling, vTaskPlaceOnEventList
  <2> QED
    BY <1>5, <2>1 DEF vTaskPlaceOnEventList, ReceiversWait, SendersWait, Places
<1>6. ASSUME NEW t \in Tasks, WakeDue(t)
      PROVE  /\ xTasksWaitingToReceive' # <<>> => xTasksWaitingToReceive # <<>>
             /\ xTasksWaitingToSend' # <<>> => xTasksWaitingToSend # <<>>
  BY <1>1, <1>6, RemoveOfEmpty DEF WakeDue
<1>7. ASSUME NEW t \in Tasks,
             \/ Call(t) \/ xQueueGenericSend(t) \/ xQueueReceive(t)
             \/ xQueueSemaphoreTake(t) \/ xQueuePeek(t) \/ prvLockQueue(t)
             \/ CheckState(t) \/ TimedOut(t) \/ xQueueGenericReset(t)
      PROVE  WakeReceivers(1) \/ WakeSenders(1) \/ UNCHANGED waiting
  BY <1>7 DEF Call, xQueueGenericSend, xQueueReceive, xQueueSemaphoreTake, xQueuePeek,
              GiveUpOrWait, prvLockQueue, CheckState, TimedOut, xQueueGenericReset
<1>8. ASSUME NEW t \in Tasks, UnlockTx(t) \/ UnlockRx(t)
      PROVE  \E n \in Nat : WakeReceivers(n) \/ WakeSenders(n)
  BY <1>1, <1>8, LockedCounts DEF UnlockTx, UnlockRx
<1>9. xQueueGenericSendFromISR \/ xQueueGiveFromISR \/ xQueueReceiveFromISR \/ Tick
      \/ UNCHANGED vars
      => WakeReceivers(1) \/ WakeSenders(1) \/ UNCHANGED waiting
  BY DEF xQueueGenericSendFromISR, xQueueGiveFromISR, xQueueReceiveFromISR,
         WakeReceiverOrCount, WakeSenderOrCount, Tick, vars
<1> QED
  BY <1>3, <1>4, <1>5, <1>6, <1>7, <1>8, <1>9
     DEF Next, Continue, ReceiversWait, SendersWait

-----------------------------------------------------------------------------
(* The receivers.                                                           *)

LEMMA CoverTypes ==
  ASSUME IInv
  PROVE  /\ uxMessagesWaiting \in 0..uxLength /\ uxLength \in Nat \ {0}
         /\ cTxLock \in LockRange /\ cRxLock \in LockRange
         /\ \A calls : Woken(calls) \in SUBSET Tasks
         /\ ReceiversWait \in BOOLEAN /\ SendersWait \in BOOLEAN
BY ConstantsAssumption DEF IInv, StoreType, LockType, LockRange, MaxLock, Woken,
                           ReceiversWait, SendersWait, uxLength

LEMMA CoverTypesNext ==
  ASSUME IInv'
  PROVE  /\ uxMessagesWaiting' \in 0..uxLength' /\ uxLength' \in Nat \ {0}
         /\ cTxLock' \in LockRange /\ cRxLock' \in LockRange
         /\ Woken(ReceiveCalls)' \in SUBSET Tasks /\ Woken(SendCalls)' \in SUBSET Tasks
         /\ ReceiversWait' \in BOOLEAN /\ SendersWait' \in BOOLEAN
BY ConstantsAssumption DEF IInv, StoreType, LockType, LockRange, MaxLock, Woken,
                           ReceiversWait, SendersWait, uxLength

(* One message more and one receiver woken, if any waits.                   *)
LEMMA WakingReceiverCovers ==
  ASSUME WakeIInv, [Next]_vars, WakeReceivers(1), UNCHANGED cTxLock,
         uxMessagesWaiting' <= uxMessagesWaiting + 1,
         ~ Places(ReceiveCalls)',
         \A t \in asleep : pc[t] = "unlockTx" => UnlockTx(t),
         NEW u,
         \/ Woken(ReceiveCalls) \subseteq Woken(ReceiveCalls)'
         \/ /\ u \in Tasks /\ uxMessagesWaiting' = uxMessagesWaiting
            /\ Woken(ReceiveCalls) \ {u} \subseteq Woken(ReceiveCalls)'
  PROVE  ReceiversCovered'
<1>1. /\ AwaitIInv /\ IInv /\ IInv' /\ WaitType /\ ReceiversCovered
  BY AwaitIStep DEF WakeIInv, AwaitIInv, IInv
<1>2. /\ uxMessagesWaiting \in Nat /\ uxMessagesWaiting' \in Nat
      /\ cTxLock \in LockRange
      /\ Woken(ReceiveCalls) \in SUBSET Tasks /\ Woken(ReceiveCalls)' \in SUBSET Tasks
      /\ ReceiversWait \in BOOLEAN /\ ReceiversWait' \in BOOLEAN
  BY <1>1, CoverTypes, CoverTypesNext
<1>3. /\ FirstOf(xTasksWaitingToReceive, 1) \subseteq Woken(ReceiveCalls)'
      /\ FirstOf(xTasksWaitingToReceive, 1) \intersect Woken(ReceiveCalls) = {}
      /\ xTasksWaitingToReceive # <<>> => FirstOf(xTasksWaitingToReceive, 1) # {}
  BY <1>1, ReceiversWoken
<1>4. CASE xTasksWaitingToReceive = <<>>
  <2>1. ~ ReceiversWait'
    <3>1. xTasksWaitingToReceive' = <<>>
      BY <1>4 DEF WakeReceivers, Rest
    <3> QED
      BY <3>1 DEF ReceiversWait
  <2> QED
    BY <1>2, <2>1, NothingToCover DEF ReceiversCovered
<1>5. CASE xTasksWaitingToReceive # <<>>
  <2>1. PICK x : x \in Woken(ReceiveCalls)' /\ x \notin Woken(ReceiveCalls)
    BY <1>3, <1>5
  <2>2. ReceiversWait
    BY <1>5 DEF ReceiversWait
  <2>3. CASE Woken(ReceiveCalls) \subseteq Woken(ReceiveCalls)'
    BY <1>1, <1>2, <2>1, <2>2, <2>3, CoversOneMore DEF ReceiversCovered
  <2>4. CASE /\ u \in Tasks /\ uxMessagesWaiting' = uxMessagesWaiting
             /\ Woken(ReceiveCalls) \ {u} \subseteq Woken(ReceiveCalls)'
    BY <1>1, <1>2, <2>1, <2>2, <2>4, CoversReplaced DEF ReceiversCovered
  <2> QED
    BY <2>3, <2>4
<1> QED
  BY <1>4, <1>5

LEMMA ReceiversStep ==
  ASSUME WakeIInv, [Next]_vars
  PROVE  ReceiversCovered'
<1>1. /\ AwaitIInv /\ IInv /\ IInv' /\ WaitType /\ CallType /\ ListsInv
      /\ ReceiversCovered /\ ReceiveCalls \intersect SendCalls = {}
      /\ (\A t \in Tasks : AwaitInv(t) /\ Calling(t) /\ Locked(t))
  BY AwaitIStep DEF WakeIInv, AwaitIInv, IInv, ReceiveCalls, SendCalls
<1>2. /\ uxMessagesWaiting \in Nat /\ uxMessagesWaiting' \in Nat
      /\ cTxLock \in LockRange /\ cTxLock' \in LockRange
      /\ Woken(ReceiveCalls) \in SUBSET Tasks /\ Woken(ReceiveCalls)' \in SUBSET Tasks
      /\ ReceiversWait \in BOOLEAN /\ ReceiversWait' \in BOOLEAN
  BY <1>1, CoverTypes, CoverTypesNext
<1>3. uxMessagesWaiting' = 0 => ReceiversCovered'
  BY <1>2, NothingToCover DEF ReceiversCovered
<1>4. ASSUME NEW t \in Tasks, CheckState(t), pc'[t] = "place", call[t] \in ReceiveCalls
      PROVE  ReceiversCovered'
  <2>1. IsEmpty /\ uxMessagesWaiting' = uxMessagesWaiting
    BY <1>1, <1>4 DEF CheckState, GoTo, CallType
  <2> QED
    BY <1>3, <2>1 DEF IsEmpty
<1> SUFFICES ASSUME \A t \in Tasks : CheckState(t) /\ pc'[t] = "place"
                                       => call[t] \notin ReceiveCalls
             PROVE  ReceiversCovered'
  BY <1>4
<1>5. ReceiversWait' => ReceiversWait
  BY <1>1, PlacesKept, ListsFilled DEF ReceiversWait
<1>6. ASSUME NEW u \in Tasks, pc' = [pc EXCEPT ![u] = pc'[u]]
      PROVE  Woken(ReceiveCalls) \ {u} \subseteq Woken(ReceiveCalls)'
  <2>1. \A t \in Tasks \ {u} : pc'[t] = pc[t]
    BY <1>1, <1>6 DEF CallType
  <2> QED
    BY <1>1, <1>2, <2>1, WokenStay
<1>7. ASSUME \A t \in Tasks : pc[t] = "attempt" /\ call[t] \in ReceiveCalls
                              => pc'[t] = "attempt"
      PROVE  Woken(ReceiveCalls) \subseteq Woken(ReceiveCalls)'
  BY <1>1, <1>2, <1>7, WokenStay DEF Woken
<1>8. ASSUME uxMessagesWaiting' <= uxMessagesWaiting,
             Woken(ReceiveCalls) \subseteq Woken(ReceiveCalls)',
             Pending(cTxLock') = Pending(cTxLock), cTxLock = MaxLock => cTxLock' = MaxLock
      PROVE  ReceiversCovered'
  BY <1>1, <1>2, <1>5, <1>8, CoversKept DEF ReceiversCovered
<1>9. ASSUME UNCHANGED <<pc, cTxLock>>, uxMessagesWaiting' <= uxMessagesWaiting
      PROVE  ReceiversCovered'
  BY <1>7, <1>8, <1>9
<1>10. ASSUME NEW u \in Tasks,
              \/ Call(u) \/ prvLockQueue(u) \/ CheckState(u) \/ vTaskPlaceOnEventList(u)
              \/ UnlockRx(u) \/ TimedOut(u)
       PROVE  ReceiversCovered'
  <2>1. \A t \in Tasks : pc[t] = "attempt" => pc'[t] = "attempt"
    BY <1>1, <1>10 DEF Call, prvLockQueue, CheckState, vTaskPlaceOnEventList, UnlockRx,
                       TimedOut, Return, GoTo, CallType
  <2>2. /\ uxMessagesWaiting' = uxMessagesWaiting
        /\ cTxLock' = cTxLock \/ (cTxLock = queueUNLOCKED /\ cTxLock' = 0)
    BY <1>10 DEF Call, prvLockQueue, CheckState, vTaskPlaceOnEventList, UnlockRx, TimedOut,
                 locks, queueLOCKED_UNMODIFIED
  <2>3. /\ Pending(cTxLock') = Pending(cTxLock)
        /\ cTxLock = MaxLock => cTxLock' = MaxLock
    BY <2>2, CountOfTasks DEF Pending, queueUNLOCKED, MaxLock
  <2> QED
    BY <1>2, <1>7, <1>8, <2>1, <2>2, <2>3
<1>11. ASSUME NEW u \in Tasks, Runs(u), pc[u] = "attempt"
       PROVE  /\ ~ Places(ReceiveCalls)'
              /\ \A t \in asleep : pc[t] = "unlockTx" => UnlockTx(t)
  <2>1. suspended = NULL
    BY <1>1, <1>11, RunnersAreAwake DEF LockedLabels
  <2> QED
    BY <1>1, <2>1, NobodyPlaces, NobodyUnlocks
<1>12. ASSUME NEW u \in Tasks, NEW calls, Attempts(u, calls), GiveUpOrWait(u),
              call[u] \in ReceiveCalls => IsEmpty
       PROVE  ReceiversCovered'
  <2>1. uxMessagesWaiting' = uxMessagesWaiting /\ cTxLock' = cTxLock
    BY <1>12 DEF GiveUpOrWait, Attempts, locks
  <2>2. CASE call[u] \in ReceiveCalls
    BY <1>3, <1>12, <2>1, <2>2 DEF IsEmpty
  <2>3. CASE call[u] \notin ReceiveCalls
    <3>1. \A t \in Tasks : pc[t] = "attempt" /\ call[t] \in ReceiveCalls
                           => pc'[t] = "attempt"
      BY <1>1, <1>12, <2>3 DEF GiveUpOrWait, Return, CallType
    <3> QED
      BY <1>2, <1>7, <1>8, <2>1, <3>1
  <2> QED
    BY <2>2, <2>3
<1>13. ASSUME NEW u \in Tasks, xQueueGenericSend(u)
       PROVE  ReceiversCovered'
  <2>1. CASE HasSpace \/ call[u] = "overwrite"
    <3>1. /\ WakeReceivers(1) /\ Return(u) /\ UNCHANGED cTxLock /\ Runs(u)
          /\ pc[u] = "attempt" /\ call[u] \notin ReceiveCalls
      BY <1>1, <1>13, <2>1 DEF xQueueGenericSend, Attempts, locks
    <3>2. uxMessagesWaiting' <= uxMessagesWaiting + 1
      BY <1>2, <1>13, <2>1 DEF xQueueGenericSend, prvCopyDataToQueue
    <3>3. Woken(ReceiveCalls) \subseteq Woken(ReceiveCalls)'
      BY <1>1, <1>7, <3>1 DEF Return, CallType
    <3> QED
      BY <1>11, <3>1, <3>2, <3>3, WakingReceiverCovers
  <2>2. CASE ~ (HasSpace \/ call[u] = "overwrite")
    BY <1>1, <1>12, <1>13, <2>2 DEF xQueueGenericSend, Attempts
  <2> QED
    BY <2>1, <2>2
<1>14. ASSUME NEW u \in Tasks, xQueueReceive(u) \/ xQueueSemaphoreTake(u)
       PROVE  ReceiversCovered'
  <2>1. CASE ~ IsEmpty
    <3>1. /\ uxMessagesWaiting' = uxMessagesWaiting - 1
          /\ pc' = [pc EXCEPT ![u] = pc'[u]] /\ cTxLock' = cTxLock
      BY <1>1, <1>14, <2>1 DEF xQueueReceive, xQueueSemaphoreTake, Attempts, Return,
                               locks, CallType
    <3> QED
      BY <1>1, <1>2, <1>5, <1>6, <3>1, CoversOneLess DEF ReceiversCovered
  <2>2. CASE IsEmpty
    BY <1>12, <1>14, <2>2 DEF xQueueReceive, xQueueSemaphoreTake
  <2> QED
    BY <2>1, <2>2
<1>15. ASSUME NEW u \in Tasks, xQueuePeek(u)
       PROVE  ReceiversCovered'
  <2>1. CASE ~ IsEmpty
    <3>1. /\ uxMessagesWaiting' = uxMessagesWaiting /\ cTxLock' = cTxLock
          /\ pc' = [pc EXCEPT ![u] = pc'[u]] /\ WakeReceivers(1)
          /\ Runs(u) /\ pc[u] = "attempt"
      BY <1>1, <1>15, <2>1 DEF xQueuePeek, Attempts, Return, locks, CallType
    <3>2. uxMessagesWaiting' <= uxMessagesWaiting + 1
      BY <1>2, <3>1
    <3> QED
      BY <1>6, <1>11, <3>1, <3>2, WakingReceiverCovers
  <2>2. CASE IsEmpty
    BY <1>12, <1>15, <2>2 DEF xQueuePeek
  <2> QED
    BY <2>1, <2>2
<1>16. ASSUME NEW u \in Tasks, UnlockTx(u)
       PROVE  ReceiversCovered'
  <2>1. /\ pc[u] = "unlockTx" /\ pc' = [pc EXCEPT ![u] = "unlockRx"]
        /\ WakeReceivers(cTxLock) /\ cTxLock' = queueUNLOCKED
        /\ uxMessagesWaiting' = uxMessagesWaiting
        /\ cTxLock \in Nat /\ cTxLock # queueUNLOCKED
    BY <1>1, <1>16, LockedCounts DEF UnlockTx, GoTo
  <2>2. \A t \in asleep : pc[t] = "unlockTx" => UnlockTx(t)
    BY <1>1, <1>16, <2>1 DEF Locked, WaitType
  <2>3. ~ Places(ReceiveCalls) /\ ~ Places(ReceiveCalls)'
    BY <1>1, <2>1, NobodyPlaces
  <2>4. Woken(ReceiveCalls) \subseteq Woken(ReceiveCalls)'
    BY <1>1, <1>7, <2>1 DEF CallType
  <2>5. /\ FirstOf(xTasksWaitingToReceive, cTxLock) \subseteq Woken(ReceiveCalls)'
        /\ FirstOf(xTasksWaitingToReceive, cTxLock) \intersect Woken(ReceiveCalls) = {}
    BY <1>1, <2>1, <2>2, ReceiversWoken
  <2>6. ReceiversWait' <=> Rest(xTasksWaitingToReceive, cTxLock) # <<>>
    BY <2>1, <2>3 DEF ReceiversWait, WakeReceivers
  <2>7. CASE ReceiversWait'
    <3>1. ReceiversWait /\ xTasksWaitingToReceive \in Seq(Tasks)
          /\ NoDuplicates(xTasksWaitingToReceive)
      BY <1>1, <1>5, <2>7 DEF WaitType, ListsInv
    <3> QED
      BY <1>1, <1>2, <2>1, <2>4, <2>5, <2>6, <2>7, <3>1, CoversUnlocked
         DEF ReceiversCovered
  <2>8. CASE ~ ReceiversWait'
    BY <1>2, <2>8, NothingToCover DEF ReceiversCovered
  <2> QED
    BY <2>7, <2>8
<1>17. ASSUME xQueueGenericSendFromISR \/ xQueueGiveFromISR
       PROVE  ReceiversCovered'
  <2>1. WakeReceiverOrCount /\ pc' = pc
    BY <1>17 DEF xQueueGenericSendFromISR, xQueueGiveFromISR
  <2>2. uxMessagesWaiting' <= uxMessagesWaiting + 1
    BY <1>2, <1>17 DEF xQueueGenericSendFromISR, xQueueGiveFromISR, prvCopyDataToQueue
  <2>3. Woken(ReceiveCalls) \subseteq Woken(ReceiveCalls)'
    BY <1>7, <2>1
  <2>4. CASE cTxLock = queueUNLOCKED
    <3>1. WakeReceivers(1) /\ cTxLock' = cTxLock
      BY <2>1, <2>4 DEF WakeReceiverOrCount, locks
    <3>2. /\ ~ Places(ReceiveCalls)'
          /\ \A t \in asleep : pc[t] = "unlockTx" => UnlockTx(t)
      BY <1>1, <2>4, NobodyPlaces, NobodyUnlocks
    <3> QED
      BY <2>2, <2>3, <3>1, <3>2, WakingReceiverCovers
  <2>5. CASE cTxLock # queueUNLOCKED
    <3>1. cTxLock' = Increment(cTxLock)
      BY <2>1, <2>5 DEF WakeReceiverOrCount
    <3> QED
      BY <1>1, <1>2, <1>5, <2>2, <2>3, <2>5, <3>1, CoversCounted DEF ReceiversCovered
  <2> QED
    BY <2>4, <2>5
<1>18. xQueueReceiveFromISR => ReceiversCovered'
  <2>1. xQueueReceiveFromISR
        => UNCHANGED <<pc, cTxLock>> /\ uxMessagesWaiting' <= uxMessagesWaiting
    BY <1>2 DEF xQueueReceiveFromISR, WakeSenderOrCount, locks
  <2> QED
    BY <1>9, <2>1
<1>19. ASSUME NEW u \in Tasks, xQueueGenericReset(u)
       PROVE  ReceiversCovered'
  BY <1>3, <1>19 DEF xQueueGenericReset
<1>20. ASSUME (\E u \in Tasks : WakeDue(u)) \/ Tick \/ UNCHANGED vars
       PROVE  ReceiversCovered'
  <2>1. UNCHANGED <<pc, cTxLock, uxMessagesWaiting>>
    BY <1>20 DEF WakeDue, Tick, vars, locks
  <2> QED
    BY <1>2, <1>9, <2>1
<1> QED
  BY <1>10, <1>13, <1>14, <1>15, <1>16, <1>17, <1>18, <1>19, <1>20 DEF Next, Continue

-----------------------------------------------------------------------------
(* The senders.                                                             *)

LEMMA KindKept ==
  ASSUME [Next]_vars
  PROVE  kind' = kind /\ uxLength' = uxLength
BY DEF Next, Call, Continue, xQueueGenericSend, xQueueReceive, xQueueSemaphoreTake,
       xQueuePeek, Attempts, prvLockQueue, CheckState, vTaskPlaceOnEventList, UnlockTx,
       UnlockRx, TimedOut, xQueueGenericReset, WakeDue, xQueueGenericSendFromISR,
       xQueueGiveFromISR, xQueueReceiveFromISR, Tick, vars, uxLength

(* One place more and one sender woken, if any waits.                       *)
LEMMA WakingSenderCovers ==
  ASSUME AwaitIInv, Covers(SendersWait, Free, Woken(SendCalls), cRxLock),
         [Next]_vars, WakeSenders(1), UNCHANGED cRxLock, Free' <= Free + 1,
         ~ Places(SendCalls)',
         \A t \in asleep : pc[t] = "unlockTx" => UnlockTx(t),
         Woken(SendCalls) \subseteq Woken(SendCalls)'
  PROVE  SendersCovered'
<1>1. IInv /\ IInv'
  BY AwaitIStep DEF AwaitIInv
<1>2. /\ Free \in Nat /\ Free' \in Nat /\ cRxLock \in LockRange
      /\ Woken(SendCalls) \in SUBSET Tasks /\ Woken(SendCalls)' \in SUBSET Tasks
      /\ SendersWait \in BOOLEAN /\ SendersWait' \in BOOLEAN
  BY <1>1, CoverTypes, CoverTypesNext DEF Free
<1>3. /\ FirstOf(xTasksWaitingToSend, 1) \subseteq Woken(SendCalls)'
      /\ FirstOf(xTasksWaitingToSend, 1) \intersect Woken(SendCalls) = {}
      /\ xTasksWaitingToSend # <<>> => FirstOf(xTasksWaitingToSend, 1) # {}
  BY SendersWoken
<1>4. CASE xTasksWaitingToSend = <<>>
  <2>1. ~ SendersWait'
    BY <1>4 DEF WakeSenders, Rest, SendersWait
  <2> QED
    BY <1>2, <2>1, NothingToCover DEF SendersCovered
<1>5. CASE xTasksWaitingToSend # <<>>
  <2>1. PICK x : x \in Woken(SendCalls)' /\ x \notin Woken(SendCalls)
    BY <1>3, <1>5
  <2>2. SendersWait
    BY <1>5 DEF SendersWait
  <2> QED
    BY <1>2, <2>1, <2>2, CoversOneMore DEF SendersCovered
<1> QED
  BY <1>4, <1>5

LEMMA SendersStep ==
  ASSUME WakeIInv, [Next]_vars
  PROVE  SendersCovered'
<1>1. /\ AwaitIInv /\ IInv /\ IInv' /\ WaitType /\ CallType /\ ListsInv
      /\ ReceiveCalls \intersect SendCalls = {}
      /\ (\A t \in Tasks : AwaitInv(t) /\ Calling(t) /\ Locked(t))
      /\ kind' = kind /\ uxLength' = uxLength
  BY AwaitIStep, KindKept DEF WakeIInv, AwaitIInv, IInv, ReceiveCalls, SendCalls
<1> SUFFICES ASSUME uxLength = 1 \/ "reset" \notin kind.calls
             PROVE  SendersCovered'
  BY <1>1 DEF SendersCovered
<1> DEFINE Covered == Covers(SendersWait, Free, Woken(SendCalls), cRxLock)
<1>2. /\ uxMessagesWaiting \in 0..uxLength /\ uxMessagesWaiting' \in 0..uxLength
      /\ uxLength \in Nat \ {0} /\ Free' = uxLength - uxMessagesWaiting'
      /\ Free \in Nat /\ Free' \in Nat
      /\ cRxLock \in LockRange /\ cRxLock' \in LockRange
      /\ Woken(SendCalls) \in SUBSET Tasks /\ Woken(SendCalls)' \in SUBSET Tasks
      /\ SendersWait \in BOOLEAN /\ SendersWait' \in BOOLEAN
  BY <1>1, CoverTypes, CoverTypesNext DEF Free
<1>3. Covered /\ (Covered' => SendersCovered')
  BY DEF SendersCovered, WakeIInv
<1> HIDE DEF Covered
<1>4. Free' = 0 => SendersCovered'
  BY <1>2, NothingToCover DEF SendersCovered
<1>5. ASSUME NEW t \in Tasks, CheckState(t), pc'[t] = "place", call[t] \in SendCalls
      PROVE  SendersCovered'
  <2>1. ~ HasSpace /\ uxMessagesWaiting' = uxMessagesWaiting
    BY <1>1, <1>5 DEF CheckState, GoTo, CallType
  <2> QED
    BY <1>2, <1>4, <2>1 DEF HasSpace
<1> SUFFICES ASSUME \A t \in Tasks : CheckState(t) /\ pc'[t] = "place"
                                       => call[t] \notin SendCalls
             PROVE  SendersCovered'
  BY <1>5
<1>6. SendersWait' => SendersWait
  BY <1>1, PlacesKept, ListsFilled DEF SendersWait
<1>7. ASSUME NEW u \in Tasks, pc' = [pc EXCEPT ![u] = pc'[u]]
      PROVE  Woken(SendCalls) \ {u} \subseteq Woken(SendCalls)'
  <2>1. \A t \in Tasks \ {u} : pc'[t] = pc[t]
    BY <1>1, <1>7 DEF CallType
  <2> QED
    BY <1>1, <1>2, <2>1, WokenStay
<1>8. ASSUME \A t \in Tasks : pc[t] = "attempt" /\ call[t] \in SendCalls
                              => pc'[t] = "attempt"
      PROVE  Woken(SendCalls) \subseteq Woken(SendCalls)'
  BY <1>1, <1>2, <1>8, WokenStay DEF Woken
<1>9. ASSUME Free' <= Free, Woken(SendCalls) \subseteq Woken(SendCalls)',
             Pending(cRxLock') = Pending(cRxLock), cRxLock = MaxLock => cRxLock' = MaxLock
      PROVE  SendersCovered'
  BY <1>2, <1>3, <1>6, <1>9, CoversKept DEF SendersCovered, Covered
<1>10. ASSUME UNCHANGED <<pc, cRxLock>>, Free' <= Free
       PROVE  SendersCovered'
  BY <1>8, <1>9, <1>10
<1>11. ASSUME NEW u \in Tasks,
              \/ Call(u) \/ prvLockQueue(u) \/ CheckState(u) \/ vTaskPlaceOnEventList(u)
              \/ UnlockTx(u) \/ TimedOut(u)
       PROVE  SendersCovered'
  <2>1. \A t \in Tasks : pc[t] = "attempt" => pc'[t] = "attempt"
    BY <1>1, <1>11 DEF Call, prvLockQueue, CheckState, vTaskPlaceOnEventList, UnlockTx,
                       TimedOut, Return, GoTo, CallType
  <2>2. /\ uxMessagesWaiting' = uxMessagesWaiting
        /\ cRxLock' = cRxLock \/ (cRxLock = queueUNLOCKED /\ cRxLock' = 0)
    BY <1>11 DEF Call, prvLockQueue, CheckState, vTaskPlaceOnEventList, UnlockTx, TimedOut,
                 locks, queueLOCKED_UNMODIFIED
  <2>3. /\ Pending(cRxLock') = Pending(cRxLock)
        /\ cRxLock = MaxLock => cRxLock' = MaxLock
    BY <2>2, CountOfTasks DEF Pending, queueUNLOCKED, MaxLock
  <2>4. Free' <= Free
    BY <1>2, <2>2 DEF Free
  <2> QED
    BY <1>8, <1>9, <2>1, <2>3, <2>4
<1>12. ASSUME NEW u \in Tasks, Runs(u), pc[u] = "attempt"
       PROVE  /\ ~ Places(SendCalls)'
              /\ \A t \in asleep : pc[t] = "unlockTx" => UnlockTx(t)
  <2>1. suspended = NULL
    BY <1>1, <1>12, RunnersAreAwake DEF LockedLabels
  <2> QED
    BY <1>1, <2>1, NobodyPlaces, NobodyUnlocks
<1>13. ASSUME NEW u \in Tasks, NEW calls, Attempts(u, calls), GiveUpOrWait(u),
              call[u] \in SendCalls => ~ HasSpace
       PROVE  SendersCovered'
  <2>1. uxMessagesWaiting' = uxMessagesWaiting /\ cRxLock' = cRxLock
    BY <1>13 DEF GiveUpOrWait, Attempts, locks
  <2>2. CASE call[u] \in SendCalls
    BY <1>2, <1>4, <1>13, <2>1, <2>2 DEF HasSpace
  <2>3. CASE call[u] \notin SendCalls
    <3>1. \A t \in Tasks : pc[t] = "attempt" /\ call[t] \in SendCalls
                           => pc'[t] = "attempt"
      BY <1>1, <1>13, <2>3 DEF GiveUpOrWait, Return, CallType
    <3>2. Free' <= Free
      BY <1>2, <2>1 DEF Free
    <3> QED
      BY <1>8, <1>9, <2>1, <3>1, <3>2
  <2> QED
    BY <2>2, <2>3
<1>14. ASSUME NEW position, NEW x, HasSpace \/ position = "overwrite",
              position = "overwrite" => uxLength = 1 /\ uxItemSize # 0,
              prvCopyDataToQueue(x, position)
       PROVE  Free' = Free - 1 \/ Free' = 0
  BY <1>2, <1>14 DEF prvCopyDataToQueue, HasSpace, IsEmpty, Free
<1>15. "overwrite" \in kind.calls \union kind.isrCalls => uxLength = 1 /\ uxItemSize # 0
  BY <1>1, KindFacts DEF IInv, StoreType
<1>16. ASSUME NEW u \in Tasks, xQueueGenericSend(u)
       PROVE  SendersCovered'
  <2>1. CASE HasSpace \/ call[u] = "overwrite"
    <3>1. /\ Return(u) /\ cRxLock' = cRxLock /\ pc[u] = "attempt"
          /\ prvCopyDataToQueue(item[u], call[u])
      BY <1>1, <1>16, <2>1 DEF xQueueGenericSend, Attempts, locks
    <3>2. call[u] = "overwrite" => uxLength = 1 /\ uxItemSize # 0
      BY <1>1, <1>15, <3>1 DEF IInv, Legal
    <3>3. Free' = Free - 1 \/ Free' = 0
      BY <1>14, <2>1, <3>1, <3>2
    <3>4. Woken(SendCalls) \ {u} \subseteq Woken(SendCalls)'
      BY <1>1, <1>7, <3>1 DEF Return, CallType
    <3>5. CASE Free' = Free - 1
      <4>1. Covers(SendersWait', Free', Woken(SendCalls)', cRxLock)
        <5>1. /\ SendersWait \in BOOLEAN /\ SendersWait' \in BOOLEAN
              /\ SendersWait' => SendersWait
              /\ Free \in Nat /\ Free' \in Nat /\ cRxLock \in LockRange
              /\ Woken(SendCalls) \in SUBSET Tasks
              /\ Woken(SendCalls)' \in SUBSET Tasks
              /\ Covers(SendersWait, Free, Woken(SendCalls), cRxLock)
          BY <1>2, <1>3, <1>6 DEF Covered
        <5> QED
          BY <3>4, <3>5, <5>1, CoversOneLess
      <4> QED
        BY <3>1, <4>1 DEF SendersCovered
    <3> QED
      BY <1>4, <3>3, <3>5
  <2>2. CASE ~ (HasSpace \/ call[u] = "overwrite")
    BY <1>13, <1>16, <2>2 DEF xQueueGenericSend
  <2> QED
    BY <2>1, <2>2
<1>17. ASSUME NEW u \in Tasks, xQueueReceive(u) \/ xQueueSemaphoreTake(u)
       PROVE  SendersCovered'
  <2>1. call[u] \notin SendCalls
    BY <1>17 DEF xQueueReceive, xQueueSemaphoreTake, Attempts, SendCalls
  <2>2. CASE ~ IsEmpty
    <3>1. /\ uxMessagesWaiting' = uxMessagesWaiting - 1 /\ WakeSenders(1) /\ Return(u)
          /\ UNCHANGED cRxLock /\ Runs(u) /\ pc[u] = "attempt"
      BY <1>17, <2>2 DEF xQueueReceive, xQueueSemaphoreTake, Attempts, locks
    <3>2. Woken(SendCalls) \subseteq Woken(SendCalls)'
      BY <1>1, <1>8, <2>1, <3>1 DEF Return, CallType
    <3>3. Free' <= Free + 1
      BY <1>2, <3>1 DEF Free
    <3> QED
      BY <1>1, <1>3, <1>12, <3>1, <3>2, <3>3, WakingSenderCovers DEF Covered
  <2>3. CASE IsEmpty
    BY <1>13, <1>17, <2>1, <2>3 DEF xQueueReceive, xQueueSemaphoreTake
  <2> QED
    BY <2>2, <2>3
<1>18. ASSUME NEW u \in Tasks, xQueuePeek(u)
       PROVE  SendersCovered'
  <2>1. call[u] \notin SendCalls
    BY <1>18 DEF xQueuePeek, Attempts, SendCalls
  <2>2. CASE ~ IsEmpty
    <3>1. uxMessagesWaiting' = uxMessagesWaiting /\ Return(u) /\ cRxLock' = cRxLock
      BY <1>18, <2>2 DEF xQueuePeek, Attempts, locks
    <3>2. Woken(SendCalls) \subseteq Woken(SendCalls)'
      BY <1>1, <1>8, <2>1, <3>1 DEF Return, CallType
    <3>3. Free' <= Free
      BY <1>2, <3>1 DEF Free
    <3> QED
      BY <1>9, <3>1, <3>2, <3>3
  <2>3. CASE IsEmpty
    BY <1>13, <1>18, <2>1, <2>3 DEF xQueuePeek
  <2> QED
    BY <2>2, <2>3
<1>19. ASSUME NEW u \in Tasks, UnlockRx(u)
       PROVE  SendersCovered'
  <2>1. /\ pc[u] = "unlockRx" /\ suspended = u
        /\ WakeSenders(cRxLock) /\ cRxLock' = queueUNLOCKED
        /\ uxMessagesWaiting' = uxMessagesWaiting
        /\ cRxLock \in Nat /\ cRxLock # queueUNLOCKED
    BY <1>1, <1>19, LockedCounts DEF UnlockRx, Locked
  <2>2. \A t \in asleep : pc[t] = "unlockTx" => UnlockTx(t)
    BY <1>1, <2>1 DEF Locked, WaitType
  <2>3. ~ Places(SendCalls) /\ ~ Places(SendCalls)'
    BY <1>1, <2>1, NobodyPlaces
  <2>4. Woken(SendCalls) \subseteq Woken(SendCalls)'
    BY <1>1, <1>8, <1>19, <2>1 DEF UnlockRx, Return, GoTo, CallType
  <2>5. /\ FirstOf(xTasksWaitingToSend, cRxLock) \subseteq Woken(SendCalls)'
        /\ FirstOf(xTasksWaitingToSend, cRxLock) \intersect Woken(SendCalls) = {}
    BY <1>1, <2>1, <2>2, SendersWoken
  <2>6. SendersWait' <=> Rest(xTasksWaitingToSend, cRxLock) # <<>>
    BY <2>1, <2>3 DEF SendersWait, WakeSenders
  <2>7. Free' = Free
    BY <1>2, <2>1 DEF Free
  <2>8. CASE SendersWait'
    <3>1. /\ SendersWait /\ xTasksWaitingToSend \in Seq(Tasks)
          /\ NoDuplicates(xTasksWaitingToSend)
      BY <1>1, <1>6, <2>8 DEF WaitType, ListsInv
    <3> QED
      <4>1. Covers(SendersWait', Free', Woken(SendCalls)', queueUNLOCKED)
        BY <1>2, <1>3, <2>1, <2>4, <2>5, <2>6, <2>7, <2>8, <3>1, CoversUnlocked
           DEF Covered
      <4> QED
        BY <2>1, <4>1 DEF SendersCovered
  <2>9. CASE ~ SendersWait'
    BY <1>2, <2>9, NothingToCover DEF SendersCovered
  <2> QED
    BY <2>8, <2>9
<1>20. ASSUME xQueueGenericSendFromISR \/ xQueueGiveFromISR
       PROVE  SendersCovered'
  <2>1. UNCHANGED <<pc, cRxLock>>
    BY <1>20 DEF xQueueGenericSendFromISR, xQueueGiveFromISR, WakeReceiverOrCount, locks
  <2>2. CASE xQueueGiveFromISR
    <3>1. Free' <= Free
      BY <1>2, <2>2 DEF xQueueGiveFromISR, Free
    <3> QED
      BY <1>10, <2>1, <3>1
  <2>3. CASE xQueueGenericSendFromISR
    <3>1. PICK position \in kind.isrCalls \intersect SendCalls, x \in Messages :
            /\ HasSpace \/ position = "overwrite"
            /\ prvCopyDataToQueue(x, position)
      BY <2>3 DEF xQueueGenericSendFromISR
    <3>2. Free' = Free - 1 \/ Free' = 0
      BY <1>14, <1>15, <3>1
    <3>3. Free \in Nat /\ Free' \in Nat
      BY <1>2
    <3>4. Free' <= Free \/ Free' = 0
      BY <3>2, <3>3
    <3> QED
      BY <1>4, <1>10, <2>1, <3>4
  <2> QED
    BY <1>20, <2>2, <2>3
<1>21. ASSUME xQueueReceiveFromISR
       PROVE  SendersCovered'
  <2>1. WakeSenderOrCount /\ pc' = pc /\ uxMessagesWaiting' = uxMessagesWaiting - 1
    BY <1>21 DEF xQueueReceiveFromISR
  <2>2. Free' <= Free + 1
    BY <1>2, <2>1 DEF Free
  <2>3. Woken(SendCalls) \subseteq Woken(SendCalls)'
    BY <1>8, <2>1
  <2>4. CASE cRxLock = queueUNLOCKED
    <3>1. WakeSenders(1) /\ cRxLock' = cRxLock
      BY <2>1, <2>4 DEF WakeSenderOrCount, locks
    <3>2. /\ ~ Places(SendCalls)'
          /\ \A t \in asleep : pc[t] = "unlockTx" => UnlockTx(t)
      BY <1>1, <2>4, NobodyPlaces, NobodyUnlocks
    <3> QED
      BY <1>1, <1>3, <2>2, <2>3, <3>1, <3>2, WakingSenderCovers DEF Covered
  <2>5. CASE cRxLock # queueUNLOCKED
    <3>1. cRxLock' = Increment(cRxLock)
      BY <2>1, <2>5 DEF WakeSenderOrCount
    <3> QED
      <4>1. Covers(SendersWait', Free', Woken(SendCalls)', Increment(cRxLock))
        BY <1>2, <1>3, <1>6, <2>2, <2>3, <2>5, CoversCounted DEF Covered
      <4> QED
        BY <3>1, <4>1 DEF SendersCovered
  <2> QED
    BY <2>4, <2>5
<1>22. ASSUME NEW u \in Tasks, xQueueGenericReset(u)
       PROVE  SendersCovered'
  <2>1. /\ uxMessagesWaiting' = 0 /\ cRxLock' = queueUNLOCKED /\ WakeSenders(1)
        /\ suspended = NULL /\ uxLength = 1
    BY <1>22 DEF xQueueGenericReset
  <2>2. Free' = 1
    BY <1>2, <2>1
  <2>3. ~ Places(SendCalls)' /\ \A t \in asleep : pc[t] = "unlockTx" => UnlockTx(t)
    BY <1>1, <2>1, NobodyPlaces, NobodyUnlocks
  <2>4. /\ FirstOf(xTasksWaitingToSend, 1) \subseteq Woken(SendCalls)'
        /\ xTasksWaitingToSend # <<>> => FirstOf(xTasksWaitingToSend, 1) # {}
    BY <1>1, <2>1, <2>3, SendersWoken
  <2>5. CASE xTasksWaitingToSend = <<>>
    <3>1. ~ SendersWait'
      BY <2>1, <2>3, <2>5 DEF WakeSenders, Rest, SendersWait
    <3> QED
      BY <1>2, <3>1, NothingToCover DEF SendersCovered
  <2>6. CASE xTasksWaitingToSend # <<>>
    <3>1. Woken(SendCalls)' # {}
      BY <2>4, <2>6
    <3>2. IsFiniteSet(Woken(SendCalls)')
      BY <1>2, ConstantsAssumption, FS_Subset
    <3>3. Cardinality(Woken(SendCalls)') \in Nat \ {0}
      BY <3>1, <3>2, FS_EmptySet, FS_CardinalityType
    <3>4. Pending(cRxLock') \in Nat
      BY <1>2, PendingType
    <3>5. Free' <= Cardinality(Woken(SendCalls)') + Pending(cRxLock')
      BY <2>2, <3>3, <3>4
    <3> QED
      BY <3>5 DEF SendersCovered, Covers
  <2> QED
    BY <2>5, <2>6
<1>23. ASSUME (\E u \in Tasks : WakeDue(u)) \/ Tick \/ UNCHANGED vars
       PROVE  SendersCovered'
  <2>1. UNCHANGED <<pc, cRxLock, uxMessagesWaiting>>
    BY <1>23 DEF WakeDue, Tick, vars, locks
  <2>2. Free' <= Free
    BY <1>2, <2>1 DEF Free
  <2> QED
    BY <1>10, <2>1, <2>2
<1> QED
  BY <1>11, <1>16, <1>17, <1>18, <1>19, <1>20, <1>21, <1>22, <1>23 DEF Next, Continue

-----------------------------------------------------------------------------
LEMMA InitAwaken ==
  ASSUME Init
  PROVE  WakeIInv
<1>1. IInv
  BY InitInv
<1>2. (\A t \in Tasks : AwaitInv(t) /\ Calling(t)) /\ ListsInv
  <2>1. Items(<<>>) = {} /\ NoDuplicates(<<>>)
    BY DEF Items, NoDuplicates
  <2> QED
    BY <2>1, ConstantsAssumption DEF Init, AwaitInv, Calling, ListsInv
<1>3. ~ ReceiversWait /\ ~ SendersWait
  BY DEF Init, ReceiversWait, SendersWait, Places
<1> QED
  BY <1>1, <1>2, <1>3 DEF WakeIInv, AwaitIInv, ReceiversCovered, SendersCovered, Covers

(* No wake-up is lost: WaitersAreWoken holds for any tasks, whatever they   *)
(* and the interrupts call, and for any priorities: a task that waits is    *)
(* passed over only while others that were woken have yet to come for what  *)
(* there is.                                                                *)
THEOREM NoWakeUpIsLost == Spec => []WaitersAreWoken
<1>1. Init => WakeIInv
  BY InitAwaken
<1>2. WakeIInv /\ [Next]_vars => WakeIInv'
  BY AwaitIStep, ReceiversStep, SendersStep DEF WakeIInv
<1>3. WakeIInv => WaitersAreWoken
  <2> SUFFICES ASSUME WakeIInv
               PROVE  WaitersAreWoken
    OBVIOUS
  <2>1. MaxLock # queueUNLOCKED /\ Pending(queueUNLOCKED) = 0
    BY CountOfTasks DEF MaxLock, Pending, queueUNLOCKED
  <2>2. \A calls : Cardinality(Woken(calls)) \in Nat
    BY CoverTypes, ConstantsAssumption, FS_Subset, FS_CardinalityType
       DEF WakeIInv, AwaitIInv
  <2> QED
    BY <2>1, <2>2 DEF WakeIInv, WaitersAreWoken, ReceiversCovered, SendersCovered, Covers,
                      ReceiversWait, SendersWait, Free
<1> QED
  BY <1>1, <1>2, <1>3, PTL DEF Spec
=============================================================================

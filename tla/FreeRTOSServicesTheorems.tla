---------------------- MODULE FreeRTOSServicesTheorems ----------------------
(***************************************************************************)
(* Theorems about FreeRTOSEventGroup and FreeRTOSHeap.                      *)
(*                                                                          *)
(* Event groups: ItemsInv says what an event item holds at each point of a  *)
(* task's call, InStep where the tasks of a rendezvous are: in a round r,   *)
(* which those that wait have come to and the others have yet to come to.   *)
(*                                                                          *)
(* The heap: HeapInv says that the blocks are a row (Tiles), that the links *)
(* lead through the free ones (Linked), none of which touch (Merged), and   *)
(* what a walk along the links has passed (WalkInv).                        *)
(***************************************************************************)
EXTENDS FreeRTOSEventGroup, FreeRTOSHeap, OrderedSequencesTheorems, FiniteSetTheorems,
        TLAPS

Waits == [bits : SUBSET Bits, control : SUBSET ControlBits]

(* TypeOK without the counts of the rounds.                                 *)
GroupTypeOK ==
  /\ application \in Applications
  /\ exists \in BOOLEAN
  /\ uxEventBits \subseteq Bits
  /\ xTasksWaitingForBits \subseteq {t \in Tasks : pc[t] = "blocked"}
  /\ xItemValue \in [Tasks -> Waits]
  /\ wait \in [Tasks -> Waits]
  /\ pc \in [Tasks -> {"application", "blocked"}]

Woken(t) == "UNBLOCKED_DUE_TO_BIT_SET" \in xItemValue[t].control

ItemsInv ==
  \A t \in Tasks :
    /\ pc[t] = "application" => xItemValue[t] = Nothing
    /\ t \in xTasksWaitingForBits => xItemValue[t] = wait[t] /\ ~ Woken(t)
    /\ Woken(t) => prvTestWaitCondition(xItemValue[t].bits, wait[t]) \/ ~ exists

(* What a rendezvous waits for.                                             *)
All == [bits |-> Bits, control |-> {"CLEAR_EVENTS_ON_EXIT", "WAIT_FOR_ALL"}]

InRound(r) ==
  \A t \in Tasks :
    /\ arrivals[t] = IF t \in xTasksWaitingForBits THEN r + 1 ELSE r
    /\ returns[t] = IF pc[t] = "application" THEN arrivals[t] ELSE arrivals[t] - 1

InStep ==
  /\ exists
  /\ uxEventBits = xTasksWaitingForBits
  /\ xTasksWaitingForBits # {} => xTasksWaitingForBits # Tasks
  /\ \A t \in Tasks : pc[t] = "blocked" => wait[t] = All
  /\ \E r \in Nat : InRound(r)

RoundsInv ==
  /\ arrivals \in [Tasks -> Nat] /\ returns \in [Tasks -> Nat]
  /\ application.rendezvous => InStep

IInv == GroupTypeOK /\ ItemsInv /\ RoundsInv

-----------------------------------------------------------------------------
(* Clearing bits never makes a condition true.                              *)
LEMMA ConditionIsMonotone ==
  ASSUME NEW bits, NEW more, bits \subseteq more, NEW w, prvTestWaitCondition(bits, w)
  PROVE  prvTestWaitCondition(more, w)
BY DEF prvTestWaitCondition

(* An application is one of the two kinds.                                  *)
LEMMA ApplicationFacts ==
  ASSUME application \in Applications
  PROVE  /\ application.rendezvous \in BOOLEAN /\ application.deletes \in BOOLEAN
         /\ application.sets \subseteq SUBSET Bits
         /\ application.waits \subseteq
              [bits : SUBSET Bits,
               control : SUBSET {"CLEAR_EVENTS_ON_EXIT", "WAIT_FOR_ALL"}]
         /\ application.rendezvous =>
              /\ Tasks = Bits /\ ~ application.deletes
              /\ application.sets = {} /\ application.waits = {}
BY ConstantsAssumption

(* What Wake and Block make of the event items.                             *)
LEMMA WakeProperties ==
  ASSUME xItemValue \in [Tasks -> Waits], NEW tasks, NEW bits \in SUBSET Bits
  PROVE  /\ Wake(tasks, bits) \in [Tasks -> Waits]
         /\ \A t \in Tasks :
              IF t \in tasks
              THEN /\ Wake(tasks, bits)[t].bits = bits
                   /\ Wake(tasks, bits)[t].control = {"UNBLOCKED_DUE_TO_BIT_SET"}
              ELSE Wake(tasks, bits)[t] = xItemValue[t]
BY DEF Wake, Waits, ControlBits

(* The counts are taken relative to the least number of returns.            *)
LEMMA CountProperties ==
  ASSUME NEW begun \in [Tasks -> Nat], NEW ended \in [Tasks -> Nat],
         Tasks # {}, Count(begun, ended)
  PROVE  \E o \in Nat :
           /\ \A t \in Tasks : o <= ended[t]
           /\ arrivals' = [t \in Tasks |-> begun[t] - o]
           /\ returns' = [t \in Tasks |-> ended[t] - o]
<1> DEFINE S == {ended[t] : t \in Tasks}
<1>1. S \in SUBSET Nat /\ S # {}
  OBVIOUS
<1>2. PICK k \in S : \A m \in S : k <= m
  BY <1>1, LeastExists
<1>3. Min(S) \in S /\ \A m \in S : Min(S) <= m
  BY <1>2 DEF Min
<1>4. \A t \in Tasks : Min(S) <= ended[t]
  BY <1>3
<1> QED
  BY <1>1, <1>3, <1>4 DEF Count

-----------------------------------------------------------------------------
(* The rounds: only a rendezvous touches them, and it does nothing else.    *)
LEMMA OtherCallsKeepRounds ==
  ASSUME RoundsInv, UNCHANGED <<application, rounds>>, ~ application.rendezvous
  PROVE  RoundsInv'
BY DEF RoundsInv, rounds

LEMMA InitInv == Init => IInv
<1> SUFFICES ASSUME Init PROVE IInv
  OBVIOUS
<1>1. GroupTypeOK
  BY DEF Init, GroupTypeOK, Nothing, Waits, ControlBits
<1>2. ItemsInv
  BY DEF Init, ItemsInv, Nothing, Woken
<1>3. InRound(0)
  BY DEF Init, InRound
<1>4. RoundsInv
  BY <1>3 DEF Init, RoundsInv, InStep
<1> QED
  BY <1>1, <1>2, <1>4 DEF IInv

LEMMA MatchingTasks ==
  ASSUME IInv, NEW bits \in SUBSET Bits
  PROVE  /\ Matching(bits) \subseteq xTasksWaitingForBits
         /\ \A t \in Matching(bits) : prvTestWaitCondition(BitsAfterSetting(bits), wait[t])
         /\ BitsAfterSetting(bits) \in SUBSET Bits
         /\ BitsLeft(bits) \in SUBSET Bits
BY DEF IInv, GroupTypeOK, ItemsInv, Matching, BitsAfterSetting, BitsLeft

LEMMA SetBitsInv ==
  ASSUME IInv, NEW t \in Tasks, xEventGroupSetBits(t)
  PROVE  IInv'
<1>1. PICK bits \in application.sets :
        /\ xTasksWaitingForBits' = xTasksWaitingForBits \ Matching(bits)
        /\ xItemValue' = Wake(Matching(bits), BitsAfterSetting(bits))
        /\ uxEventBits' = BitsLeft(bits)
  BY DEF xEventGroupSetBits
<1>2. UNCHANGED <<application, exists, pc, wait, rounds>>
  BY DEF xEventGroupSetBits, Calls, Group
<1>3. application \in Applications /\ xItemValue \in [Tasks -> Waits]
  BY DEF IInv, GroupTypeOK
<1>4. bits \in SUBSET Bits /\ ~ application.rendezvous
  BY <1>1, <1>3, ApplicationFacts
<1>5. /\ Matching(bits) \subseteq xTasksWaitingForBits
      /\ \A u \in Matching(bits) :
           prvTestWaitCondition(BitsAfterSetting(bits), wait[u])
      /\ BitsAfterSetting(bits) \in SUBSET Bits
      /\ BitsLeft(bits) \in SUBSET Bits
  BY <1>4, MatchingTasks
<1>6. /\ xItemValue' \in [Tasks -> Waits]
      /\ \A u \in Tasks :
           IF u \in Matching(bits)
           THEN /\ xItemValue'[u].bits = BitsAfterSetting(bits)
                /\ xItemValue'[u].control = {"UNBLOCKED_DUE_TO_BIT_SET"}
           ELSE xItemValue'[u] = xItemValue[u]
  BY <1>1, <1>3, <1>5, WakeProperties
<1>7. GroupTypeOK'
  BY <1>1, <1>2, <1>5, <1>6 DEF IInv, GroupTypeOK
<1>8. ItemsInv'
  BY <1>1, <1>2, <1>5, <1>6 DEF IInv, GroupTypeOK, ItemsInv, Woken
<1>9. RoundsInv'
  BY <1>2, <1>4, OtherCallsKeepRounds DEF IInv
<1> QED
  BY <1>7, <1>8, <1>9 DEF IInv

LEMMA ClearBitsInv ==
  ASSUME IInv, NEW t \in Tasks, xEventGroupClearBits(t)
  PROVE  IInv'
<1>1. PICK bits \in application.sets : uxEventBits' = uxEventBits \ bits
  BY DEF xEventGroupClearBits
<1>2. UNCHANGED <<application, exists, xTasksWaitingForBits, xItemValue, pc, wait, rounds>>
  BY DEF xEventGroupClearBits, Calls, Group
<1>3. ~ application.rendezvous
  BY <1>1, ApplicationFacts DEF IInv, GroupTypeOK
<1>4. GroupTypeOK'
  BY <1>1, <1>2 DEF IInv, GroupTypeOK
<1>5. ItemsInv'
  BY <1>2 DEF IInv, ItemsInv, Woken
<1> QED
  BY <1>2, <1>3, <1>4, <1>5, OtherCallsKeepRounds DEF IInv

(* A task that blocks has in its event item what it waits for.              *)
LEMMA BlockProperties ==
  ASSUME IInv, NEW t \in Tasks, NEW w \in Waits, NEW items \in [Tasks -> Waits],
         Block(t, w, items)
  PROVE  /\ pc' \in [Tasks -> {"application", "blocked"}]
         /\ wait' \in [Tasks -> Waits] /\ xItemValue' \in [Tasks -> Waits]
         /\ pc'[t] = "blocked" /\ wait'[t] = w /\ xItemValue'[t] = w
         /\ \A u \in Tasks \ {t} :
              pc'[u] = pc[u] /\ wait'[u] = wait[u] /\ xItemValue'[u] = items[u]
BY DEF IInv, GroupTypeOK, Block

LEMMA WaitBitsInv ==
  ASSUME IInv, NEW t \in Tasks, xEventGroupWaitBits(t)
  PROVE  IInv'
<1>1. PICK w \in application.waits :
        IF prvTestWaitCondition(uxEventBits, w)
        THEN /\ uxEventBits' = uxEventBits \ ClearedBy(w)
             /\ UNCHANGED <<xTasksWaitingForBits, xItemValue, pc, wait>>
        ELSE /\ xTasksWaitingForBits' = xTasksWaitingForBits \union {t}
             /\ Block(t, w, xItemValue)
             /\ UNCHANGED uxEventBits
  BY DEF xEventGroupWaitBits
<1>2. pc[t] = "application" /\ UNCHANGED <<application, exists, rounds>>
  BY DEF xEventGroupWaitBits, Calls, Group
<1>3. /\ w \in Waits /\ "UNBLOCKED_DUE_TO_BIT_SET" \notin w.control
      /\ ~ application.rendezvous
  BY <1>1, ApplicationFacts DEF IInv, GroupTypeOK, Waits, ControlBits
<1>4. RoundsInv'
  BY <1>2, <1>3, OtherCallsKeepRounds DEF IInv
<1>5. CASE prvTestWaitCondition(uxEventBits, w)
  <2>1. GroupTypeOK'
    BY <1>1, <1>2, <1>5 DEF IInv, GroupTypeOK
  <2>2. ItemsInv'
    BY <1>1, <1>2, <1>5 DEF IInv, ItemsInv, Woken
  <2> QED
    BY <1>4, <2>1, <2>2 DEF IInv
<1>6. CASE ~ prvTestWaitCondition(uxEventBits, w)
  <2>1. /\ pc' \in [Tasks -> {"application", "blocked"}]
        /\ wait' \in [Tasks -> Waits] /\ xItemValue' \in [Tasks -> Waits]
        /\ pc'[t] = "blocked" /\ wait'[t] = w /\ xItemValue'[t] = w
        /\ \A u \in Tasks \ {t} :
             pc'[u] = pc[u] /\ wait'[u] = wait[u] /\ xItemValue'[u] = xItemValue[u]
    BY <1>1, <1>3, <1>6, BlockProperties DEF IInv, GroupTypeOK
  <2>2. GroupTypeOK'
    BY <1>1, <1>2, <1>6, <2>1 DEF IInv, GroupTypeOK
  <2>3. ItemsInv'
    BY <1>1, <1>2, <1>3, <1>6, <2>1 DEF IInv, ItemsInv, Woken
  <2> QED
    BY <1>4, <2>2, <2>3 DEF IInv
<1> QED
  BY <1>5, <1>6

(* xEventGroupSync, in a rendezvous or not, but for the counts.             *)
LEMMA SyncKeepsItems ==
  ASSUME IInv, NEW t \in Tasks, NEW set \in SUBSET Bits, NEW wanted \in SUBSET Bits,
         pc[t] = "application", SyncOn(t, set, wanted), UNCHANGED <<application, exists>>
  PROVE  GroupTypeOK' /\ ItemsInv'
<1> DEFINE w == [bits |-> wanted, control |-> {"CLEAR_EVENTS_ON_EXIT", "WAIT_FOR_ALL"}]
           items == Wake(Matching(set), BitsAfterSetting(set))
<1>1. /\ Matching(set) \subseteq xTasksWaitingForBits
      /\ \A u \in Matching(set) : prvTestWaitCondition(BitsAfterSetting(set), wait[u])
      /\ BitsAfterSetting(set) \in SUBSET Bits
      /\ BitsLeft(set) \in SUBSET Bits
  BY MatchingTasks
<1>2. /\ items \in [Tasks -> Waits]
      /\ \A u \in Tasks :
           IF u \in Matching(set)
           THEN /\ items[u].bits = BitsAfterSetting(set)
                /\ items[u].control = {"UNBLOCKED_DUE_TO_BIT_SET"}
           ELSE items[u] = xItemValue[u]
  BY <1>1, WakeProperties DEF IInv, GroupTypeOK
<1>3. w \in Waits /\ "UNBLOCKED_DUE_TO_BIT_SET" \notin w.control
  BY DEF Waits, ControlBits
<1>4. t \notin xTasksWaitingForBits
  BY DEF IInv, GroupTypeOK
<1> HIDE DEF w, items
<1>5. CASE wanted \subseteq BitsAfterSetting(set)
  <2>1. /\ xTasksWaitingForBits' = xTasksWaitingForBits \ Matching(set)
        /\ uxEventBits' = BitsLeft(set) \ wanted
        /\ xItemValue' = items
        /\ UNCHANGED <<pc, wait>>
    BY <1>5 DEF SyncOn, items
  <2>2. GroupTypeOK'
    BY <1>1, <1>2, <2>1 DEF IInv, GroupTypeOK
  <2>3. ItemsInv'
    BY <1>1, <1>2, <2>1 DEF IInv, GroupTypeOK, ItemsInv, Woken
  <2> QED
    BY <2>2, <2>3
<1>6. CASE ~ (wanted \subseteq BitsAfterSetting(set))
  <2>1. /\ xTasksWaitingForBits' = (xTasksWaitingForBits \ Matching(set)) \union {t}
        /\ uxEventBits' = BitsLeft(set)
        /\ Block(t, w, items)
    BY <1>6 DEF SyncOn, w, items
  <2>2. /\ pc' \in [Tasks -> {"application", "blocked"}]
        /\ wait' \in [Tasks -> Waits] /\ xItemValue' \in [Tasks -> Waits]
        /\ pc'[t] = "blocked" /\ wait'[t] = w /\ xItemValue'[t] = w
        /\ \A u \in Tasks \ {t} :
             pc'[u] = pc[u] /\ wait'[u] = wait[u] /\ xItemValue'[u] = items[u]
    BY <1>2, <1>3, <2>1, BlockProperties
  <2>3. GroupTypeOK'
    BY <1>1, <2>1, <2>2 DEF IInv, GroupTypeOK
  <2>4. ItemsInv'
    BY <1>1, <1>2, <1>3, <1>4, <2>1, <2>2 DEF IInv, GroupTypeOK, ItemsInv, Woken
  <2> QED
    BY <2>3, <2>4
<1> QED
  BY <1>5, <1>6

LEMMA SyncInv ==
  ASSUME IInv, NEW t \in Tasks, xEventGroupSync(t)
  PROVE  IInv'
<1>1. PICK set \in application.sets, w \in application.waits : SyncOn(t, set, w.bits)
  BY DEF xEventGroupSync
<1>2. /\ pc[t] = "application" /\ ~ application.rendezvous
      /\ UNCHANGED <<application, exists, rounds>>
  BY DEF xEventGroupSync, Calls, Group
<1>3. set \in SUBSET Bits /\ w.bits \in SUBSET Bits
  BY <1>1, ApplicationFacts DEF IInv, GroupTypeOK
<1> QED
  BY <1>1, <1>2, <1>3, SyncKeepsItems, OtherCallsKeepRounds DEF IInv

-----------------------------------------------------------------------------
(* A rendezvous: the round goes on, or a new one begins.                    *)
LEMMA NextRound ==
  ASSUME NEW r \in Nat, NEW t0 \in Tasks,
         NEW begun \in [Tasks -> Nat], NEW ended \in [Tasks -> Nat],
         pc' \in [Tasks -> {"application", "blocked"}],
         \A t \in Tasks :
           /\ begun[t] = IF t \in xTasksWaitingForBits' THEN r + 1 ELSE r
           /\ ended[t] = IF pc'[t] = "application" THEN begun[t] ELSE begun[t] - 1,
         t0 \notin xTasksWaitingForBits' \/ pc'[t0] = "blocked",
         Count(begun, ended)
  PROVE  /\ arrivals' \in [Tasks -> Nat] /\ returns' \in [Tasks -> Nat]
         /\ \E q \in Nat : InRound(q)'
<1>1. PICK o \in Nat :
        /\ \A t \in Tasks : o <= ended[t]
        /\ arrivals' = [t \in Tasks |-> begun[t] - o]
        /\ returns' = [t \in Tasks |-> ended[t] - o]
  BY CountProperties
<1>2. \A t \in Tasks : ended[t] <= begun[t] /\ begun[t] \in Nat /\ ended[t] \in Nat
  OBVIOUS
<1>3. \A t \in Tasks : begun[t] - o \in Nat /\ ended[t] - o \in Nat
  BY <1>1, <1>2
<1>4. o <= r
  BY <1>1
<1>5. r - o \in Nat
  BY <1>4
<1>6. InRound(r - o)'
  BY <1>1, <1>5 DEF InRound
<1> QED
  BY <1>1, <1>3, <1>5, <1>6

LEMMA RendezvousInv ==
  ASSUME IInv, NEW t \in Tasks, Rendezvous(t)
  PROVE  IInv'
<1>1. /\ pc[t] = "application" /\ application.rendezvous /\ SyncOn(t, {t}, Bits)
      /\ UNCHANGED <<application, exists>>
  BY DEF Rendezvous, Calls, Group
<1>2. Tasks = Bits /\ InStep
  BY <1>1, ApplicationFacts DEF IInv, GroupTypeOK, RoundsInv
<1>3. GroupTypeOK' /\ ItemsInv'
  BY <1>1, <1>2, SyncKeepsItems
<1>4. PICK r \in Nat : InRound(r)
  BY <1>2 DEF InStep
<1>5. /\ t \notin xTasksWaitingForBits /\ uxEventBits = xTasksWaitingForBits
      /\ xTasksWaitingForBits \subseteq Tasks
      /\ \A u \in xTasksWaitingForBits : pc[u] = "blocked" /\ xItemValue[u] = All
  BY <1>1, <1>2 DEF IInv, GroupTypeOK, ItemsInv, InStep
<1>6. arrivals[t] = r /\ returns[t] = r
  BY <1>1, <1>4, <1>5 DEF InRound
<1> DEFINE begun == [arrivals EXCEPT ![t] = @ + 1]
           ended == IF Bits \subseteq BitsAfterSetting({t})
                    THEN [returns EXCEPT ![t] = @ + 1] ELSE returns
<1>7. Count(begun, ended) /\ begun \in [Tasks -> Nat] /\ ended \in [Tasks -> Nat]
  BY <1>1 DEF Rendezvous, IInv, RoundsInv
<1>8. BitsAfterSetting({t}) = xTasksWaitingForBits \union {t}
  BY <1>5 DEF BitsAfterSetting
<1>9. CASE Bits \subseteq BitsAfterSetting({t})
  <2>1. Matching({t}) = xTasksWaitingForBits
    BY <1>5, <1>9 DEF Matching, prvTestWaitCondition, All
  <2>2. /\ xTasksWaitingForBits' = {} /\ uxEventBits' = {}
        /\ UNCHANGED <<pc, wait>>
    BY <1>1, <1>2, <1>5, <1>8, <1>9, <2>1 DEF SyncOn, BitsLeft
  <2>3. \A u \in Tasks : u = t \/ u \in xTasksWaitingForBits
    BY <1>2, <1>8, <1>9
  <2>4. \A u \in Tasks :
          /\ begun[u] = r + 1
          /\ ended[u] = IF pc'[u] = "application" THEN begun[u] ELSE begun[u] - 1
    BY <1>1, <1>4, <1>5, <1>6, <1>9, <2>2, <2>3 DEF InRound, IInv, RoundsInv
  <2>5. /\ arrivals' \in [Tasks -> Nat] /\ returns' \in [Tasks -> Nat]
        /\ \E q \in Nat : InRound(q)'
    <3> HIDE DEF begun, ended
    <3>1. r + 1 \in Nat /\ pc' \in [Tasks -> {"application", "blocked"}]
      BY <1>3 DEF GroupTypeOK
    <3> QED
      BY <1>7, <2>2, <2>4, <3>1, NextRound
  <2>6. InStep'
    BY <1>1, <1>2, <2>2, <2>5 DEF InStep
  <2> QED
    BY <1>3, <2>5, <2>6 DEF IInv, RoundsInv
<1>10. CASE ~ (Bits \subseteq BitsAfterSetting({t}))
  <2>1. Matching({t}) = {}
    BY <1>5, <1>10 DEF Matching, prvTestWaitCondition, All
  <2>2. /\ xTasksWaitingForBits' = xTasksWaitingForBits \union {t}
        /\ uxEventBits' = xTasksWaitingForBits \union {t}
        /\ Block(t, All, Wake({}, BitsAfterSetting({t})))
    BY <1>1, <1>8, <1>10, <2>1 DEF SyncOn, BitsLeft, BitsToClear, All
  <2>3. /\ pc' = [pc EXCEPT ![t] = "blocked"] /\ wait' = [wait EXCEPT ![t] = All]
    BY <2>2 DEF Block
  <2>4. \A u \in Tasks :
          /\ begun[u] = IF u \in xTasksWaitingForBits' THEN r + 1 ELSE r
          /\ ended[u] = IF pc'[u] = "application" THEN begun[u] ELSE begun[u] - 1
    BY <1>1, <1>4, <1>5, <1>6, <1>10, <2>2, <2>3
       DEF InRound, IInv, GroupTypeOK, RoundsInv
  <2>5. /\ arrivals' \in [Tasks -> Nat] /\ returns' \in [Tasks -> Nat]
        /\ \E q \in Nat : InRound(q)'
    <3> HIDE DEF begun, ended
    <3>1. pc' \in [Tasks -> {"application", "blocked"}] /\ pc'[t] = "blocked"
      BY <1>3, <2>3 DEF GroupTypeOK, IInv
    <3> QED
      BY <1>7, <2>4, <3>1, NextRound
  <2>6. xTasksWaitingForBits' # Tasks
    BY <1>2, <1>8, <1>10, <2>2
  <2>7. \A u \in Tasks : pc'[u] = "blocked" => wait'[u] = All
    BY <1>2, <2>3 DEF InStep, IInv, GroupTypeOK
  <2>8. InStep'
    BY <1>1, <1>2, <2>2, <2>5, <2>6, <2>7 DEF InStep
  <2> QED
    BY <1>3, <2>5, <2>8 DEF IInv, RoundsInv
<1> QED
  BY <1>9, <1>10

-----------------------------------------------------------------------------
LEMMA TimeOutInv ==
  ASSUME IInv, NEW t \in Tasks, TimeOut(t)
  PROVE  IInv'
<1>1. RoundsInv'
  BY OtherCallsKeepRounds DEF IInv, TimeOut
<1>2. GroupTypeOK'
  BY DEF IInv, GroupTypeOK, TimeOut
<1>3. ItemsInv'
  BY DEF IInv, ItemsInv, Woken, TimeOut
<1> QED
  BY <1>1, <1>2, <1>3 DEF IInv

LEMMA ReturnInv ==
  ASSUME IInv, NEW t \in Tasks, Return(t)
  PROVE  IInv'
<1>1. /\ pc[t] = "blocked" /\ t \notin xTasksWaitingForBits
      /\ UNCHANGED <<application, exists, xTasksWaitingForBits>>
      /\ xItemValue' = [xItemValue EXCEPT ![t] = Nothing]
      /\ wait' = [wait EXCEPT ![t] = Nothing]
      /\ pc' = [pc EXCEPT ![t] = "application"]
  BY DEF Return
<1>2. uxEventBits' \subseteq uxEventBits
  BY DEF Return
<1>3. Nothing \in Waits /\ "UNBLOCKED_DUE_TO_BIT_SET" \notin Nothing.control
  BY DEF Nothing, Waits, ControlBits
<1>4. GroupTypeOK'
  BY <1>1, <1>2, <1>3 DEF IInv, GroupTypeOK
<1>5. ItemsInv'
  BY <1>1, <1>3 DEF IInv, GroupTypeOK, ItemsInv, Woken
<1>6. CASE ~ application.rendezvous
  BY <1>1, <1>4, <1>5, <1>6, OtherCallsKeepRounds DEF Return, IInv
<1>7. CASE application.rendezvous
  <2>1. InStep /\ Tasks = Bits
    BY <1>7, ApplicationFacts DEF IInv, GroupTypeOK, RoundsInv
  <2>2. ~ prvTestWaitCondition(uxEventBits, wait[t])
    BY <1>1, <2>1 DEF InStep, prvTestWaitCondition, All
  <2>3. uxEventBits' = uxEventBits
    BY <2>2 DEF Return
  <2>4. PICK r \in Nat : InRound(r)
    BY <2>1 DEF InStep
  <2> DEFINE ended == [returns EXCEPT ![t] = @ + 1]
  <2>5. Count(arrivals, ended) /\ arrivals \in [Tasks -> Nat] /\ ended \in [Tasks -> Nat]
    BY <1>7 DEF Return, IInv, RoundsInv
  <2>6. \A u \in Tasks :
          /\ arrivals[u] = IF u \in xTasksWaitingForBits' THEN r + 1 ELSE r
          /\ ended[u] = IF pc'[u] = "application" THEN arrivals[u] ELSE arrivals[u] - 1
    BY <1>1, <2>4 DEF InRound, IInv, GroupTypeOK, RoundsInv
  <2>7. /\ arrivals' \in [Tasks -> Nat] /\ returns' \in [Tasks -> Nat]
        /\ \E q \in Nat : InRound(q)'
    <3> HIDE DEF ended
    <3>1. /\ pc' \in [Tasks -> {"application", "blocked"}]
          /\ t \notin xTasksWaitingForBits'
      BY <1>1, <1>4 DEF GroupTypeOK
    <3> QED
      BY <2>5, <2>6, <3>1, NextRound
  <2>8. \A u \in Tasks : pc'[u] = "blocked" => wait'[u] = All
    BY <1>1, <2>1 DEF InStep, IInv, GroupTypeOK
  <2>9. InStep'
    BY <1>1, <2>1, <2>3, <2>7, <2>8 DEF InStep
  <2> QED
    BY <1>4, <1>5, <2>7, <2>9 DEF IInv, RoundsInv
<1> QED
  BY <1>6, <1>7

LEMMA DeleteInv ==
  ASSUME IInv, NEW t \in Tasks, vEventGroupDelete(t)
  PROVE  IInv'
<1>1. /\ UNCHANGED <<application, pc, wait, rounds>>
      /\ exists' = FALSE /\ xTasksWaitingForBits' = {} /\ uxEventBits' = {}
      /\ xItemValue' = Wake(xTasksWaitingForBits, {})
  BY DEF vEventGroupDelete
<1>2. ~ application.rendezvous
  BY ApplicationFacts DEF vEventGroupDelete, IInv, GroupTypeOK
<1>3. /\ xItemValue' \in [Tasks -> Waits]
      /\ \A u \in Tasks : u \notin xTasksWaitingForBits => xItemValue'[u] = xItemValue[u]
  BY <1>1, WakeProperties DEF IInv, GroupTypeOK
<1>4. GroupTypeOK'
  BY <1>1, <1>3 DEF IInv, GroupTypeOK
<1>5. ItemsInv'
  BY <1>1, <1>3 DEF IInv, GroupTypeOK, ItemsInv
<1> QED
  BY <1>1, <1>2, <1>4, <1>5, OtherCallsKeepRounds DEF IInv

LEMMA CreateInv ==
  ASSUME IInv, xEventGroupCreate
  PROVE  IInv'
<1>1. ~ application.rendezvous
  BY DEF IInv, GroupTypeOK, RoundsInv, InStep, xEventGroupCreate
<1>2. GroupTypeOK'
  BY DEF IInv, GroupTypeOK, xEventGroupCreate
<1>3. \A u \in Tasks : ~ Woken(u)
  BY DEF IInv, ItemsInv, xEventGroupCreate, Woken, Nothing
<1>4. ItemsInv'
  BY <1>3 DEF IInv, ItemsInv, Woken, xEventGroupCreate
<1> QED
  BY <1>1, <1>2, <1>4, OtherCallsKeepRounds DEF IInv, xEventGroupCreate

LEMMA NextInv == IInv /\ [Next]_vars => IInv'
<1> SUFFICES ASSUME IInv, [Next]_vars PROVE IInv'
  OBVIOUS
<1>1. CASE UNCHANGED vars
  BY <1>1 DEF vars, IInv, GroupTypeOK, ItemsInv, Woken, RoundsInv, InStep, InRound
<1>2. ASSUME NEW t \in Tasks, xEventGroupSetBits(t) PROVE IInv'
  BY <1>2, SetBitsInv
<1>3. ASSUME NEW t \in Tasks, xEventGroupClearBits(t) PROVE IInv'
  BY <1>3, ClearBitsInv
<1>4. ASSUME NEW t \in Tasks, xEventGroupWaitBits(t) PROVE IInv'
  BY <1>4, WaitBitsInv
<1>5. ASSUME NEW t \in Tasks, xEventGroupSync(t) PROVE IInv'
  BY <1>5, SyncInv
<1>6. ASSUME NEW t \in Tasks, Rendezvous(t) PROVE IInv'
  BY <1>6, RendezvousInv
<1>7. ASSUME NEW t \in Tasks, TimeOut(t) PROVE IInv'
  BY <1>7, TimeOutInv
<1>8. ASSUME NEW t \in Tasks, Return(t) PROVE IInv'
  BY <1>8, ReturnInv
<1>9. ASSUME NEW t \in Tasks, vEventGroupDelete(t) PROVE IInv'
  BY <1>9, DeleteInv
<1>10. CASE xEventGroupCreate
  BY <1>10, CreateInv
<1> QED
  BY <1>1, <1>2, <1>3, <1>4, <1>5, <1>6, <1>7, <1>8, <1>9, <1>10 DEF Next

LEMMA SpecInv == Spec => []IInv
BY InitInv, NextInv, PTL DEF Spec

-----------------------------------------------------------------------------
(* Every variable keeps its type; the counts of a rendezvous stay natural.  *)
THEOREM TypeCorrect == Spec => []TypeOK
<1>1. IInv => TypeOK
  BY DEF IInv, GroupTypeOK, RoundsInv, TypeOK, Waits
<1> QED
  BY <1>1, SpecInv, PTL

(* A task that was woken has been given bits it was waiting for, whatever   *)
(* has happened to the bits of the group since: what xEventGroupSetBits     *)
(* wrote into its event item.                                               *)
THEOREM WokenTasksHaveTheirBits == Spec => []WokenWithTheirBits
<1>1. IInv => WokenWithTheirBits
  BY DEF IInv, ItemsInv, Woken, WokenWithTheirBits
<1> QED
  BY <1>1, SpecInv, PTL

(* Nobody is left waiting when a call has changed the bits so.              *)
LEMMA NobodyWaitsAfter ==
  ASSUME IInv, NobodyWaitsForSetBits, NEW t \in Tasks,
         xEventGroupSetBits(t) \/ xEventGroupClearBits(t) \/ xEventGroupWaitBits(t)
  PROVE  NobodyWaitsForSetBits'
<1> SUFFICES ASSUME NEW u \in xTasksWaitingForBits',
                    prvTestWaitCondition(uxEventBits', wait'[u])
             PROVE  FALSE
  BY DEF NobodyWaitsForSetBits, prvTestWaitCondition
<1>1. ASSUME u \in xTasksWaitingForBits PROVE xItemValue[u] = wait[u]
  BY <1>1 DEF IInv, GroupTypeOK, ItemsInv
<1>2. CASE xEventGroupSetBits(t)
  <2>1. PICK bits \in application.sets :
          /\ xTasksWaitingForBits' = xTasksWaitingForBits \ Matching(bits)
          /\ uxEventBits' = BitsLeft(bits)
    BY <1>2 DEF xEventGroupSetBits
  <2>2. uxEventBits' \subseteq BitsAfterSetting(bits) /\ wait' = wait
    BY <1>2, <2>1 DEF BitsLeft, xEventGroupSetBits
  <2>3. prvTestWaitCondition(BitsAfterSetting(bits), wait[u])
    BY <2>2, ConditionIsMonotone
  <2> QED
    BY <1>1, <2>1, <2>3 DEF Matching
<1>3. CASE xEventGroupClearBits(t)
  <2>1. uxEventBits' \subseteq uxEventBits /\ UNCHANGED <<xTasksWaitingForBits, wait>>
    BY <1>3 DEF xEventGroupClearBits
  <2> QED
    BY <2>1, ConditionIsMonotone DEF NobodyWaitsForSetBits
<1>4. CASE xEventGroupWaitBits(t)
  <2>1. PICK w \in application.waits :
          IF prvTestWaitCondition(uxEventBits, w)
          THEN /\ uxEventBits' = uxEventBits \ ClearedBy(w)
               /\ UNCHANGED <<xTasksWaitingForBits, xItemValue, pc, wait>>
          ELSE /\ xTasksWaitingForBits' = xTasksWaitingForBits \union {t}
               /\ Block(t, w, xItemValue)
               /\ UNCHANGED uxEventBits
    BY <1>4 DEF xEventGroupWaitBits
  <2>2. CASE prvTestWaitCondition(uxEventBits, w)
    <3>1. uxEventBits' \subseteq uxEventBits /\ UNCHANGED <<xTasksWaitingForBits, wait>>
      BY <2>1, <2>2
    <3> QED
      BY <3>1, ConditionIsMonotone DEF NobodyWaitsForSetBits
  <2>3. CASE ~ prvTestWaitCondition(uxEventBits, w)
    <3>1. /\ u = t \/ u \in xTasksWaitingForBits
          /\ u \in Tasks
          /\ uxEventBits' = uxEventBits /\ wait' = [wait EXCEPT ![t] = w]
      BY <2>1, <2>3 DEF Block, IInv, GroupTypeOK
    <3>2. CASE u = t
      BY <2>3, <3>1, <3>2 DEF IInv, GroupTypeOK
    <3>3. CASE u # t
      BY <3>1, <3>3 DEF IInv, GroupTypeOK, NobodyWaitsForSetBits
    <3> QED
      BY <3>2, <3>3
  <2> QED
    BY <2>2, <2>3
<1> QED
  BY <1>2, <1>3, <1>4

LEMMA NobodyWaitsAfterSync ==
  ASSUME IInv, NobodyWaitsForSetBits, NEW t \in Tasks, pc[t] = "application",
         NEW set, NEW wanted, SyncOn(t, set, wanted)
  PROVE  NobodyWaitsForSetBits'
<1> DEFINE w == [bits |-> wanted, control |-> {"CLEAR_EVENTS_ON_EXIT", "WAIT_FOR_ALL"}]
<1> SUFFICES ASSUME NEW u \in xTasksWaitingForBits',
                    prvTestWaitCondition(uxEventBits', wait'[u])
             PROVE  FALSE
  BY DEF NobodyWaitsForSetBits, prvTestWaitCondition
<1>1. /\ uxEventBits' \subseteq BitsAfterSetting(set)
      /\ u \in xTasksWaitingForBits \ Matching(set) \/ u = t
      /\ IF wanted \subseteq BitsAfterSetting(set)
         THEN wait' = wait /\ u # t
         ELSE wait' = [wait EXCEPT ![t] = w]
  BY DEF SyncOn, Block, BitsLeft, IInv, GroupTypeOK
<1>2. prvTestWaitCondition(BitsAfterSetting(set), wait'[u])
  BY <1>1, ConditionIsMonotone
<1>3. CASE u = t
  BY <1>1, <1>2, <1>3 DEF prvTestWaitCondition, IInv, GroupTypeOK
<1>4. CASE u # t
  <2>1. /\ u \in xTasksWaitingForBits \ Matching(set) /\ u \in Tasks
        /\ xItemValue[u] = wait[u] /\ wait'[u] = wait[u]
    BY <1>1, <1>4 DEF IInv, GroupTypeOK, ItemsInv
  <2> QED
    BY <1>2, <2>1 DEF Matching
<1> QED
  BY <1>3, <1>4

LEMMA NobodyWaitsStep ==
  IInv /\ NobodyWaitsForSetBits /\ [Next]_vars => NobodyWaitsForSetBits'
<1> SUFFICES ASSUME IInv, NobodyWaitsForSetBits, [Next]_vars
             PROVE  NobodyWaitsForSetBits'
  OBVIOUS
<1>1. CASE UNCHANGED vars
  BY <1>1 DEF vars, NobodyWaitsForSetBits, prvTestWaitCondition
<1>2. ASSUME NEW t \in Tasks,
             xEventGroupSetBits(t) \/ xEventGroupClearBits(t) \/ xEventGroupWaitBits(t)
      PROVE  NobodyWaitsForSetBits'
  BY <1>2, NobodyWaitsAfter
<1>3. ASSUME NEW t \in Tasks, xEventGroupSync(t) PROVE NobodyWaitsForSetBits'
  BY <1>3, NobodyWaitsAfterSync DEF xEventGroupSync, Calls
<1>4. ASSUME NEW t \in Tasks, Rendezvous(t) PROVE NobodyWaitsForSetBits'
  BY <1>4, NobodyWaitsAfterSync DEF Rendezvous, Calls
<1>5. ASSUME NEW t \in Tasks, TimeOut(t) PROVE NobodyWaitsForSetBits'
  BY <1>5 DEF TimeOut, NobodyWaitsForSetBits, prvTestWaitCondition
<1>6. ASSUME NEW t \in Tasks, Return(t) PROVE NobodyWaitsForSetBits'
  <2>1. /\ uxEventBits' \subseteq uxEventBits
        /\ xTasksWaitingForBits' = xTasksWaitingForBits
        /\ \A u \in xTasksWaitingForBits : wait'[u] = wait[u]
    BY <1>6 DEF Return, IInv, GroupTypeOK
  <2> QED
    BY <2>1, ConditionIsMonotone DEF NobodyWaitsForSetBits, prvTestWaitCondition
<1>7. ASSUME NEW t \in Tasks, vEventGroupDelete(t) PROVE NobodyWaitsForSetBits'
  BY <1>7 DEF vEventGroupDelete, NobodyWaitsForSetBits
<1>8. CASE xEventGroupCreate
  BY <1>8 DEF xEventGroupCreate, NobodyWaitsForSetBits
<1> QED
  BY <1>1, <1>2, <1>3, <1>4, <1>5, <1>6, <1>7, <1>8 DEF Next

(* No task waits for bits that are there.                                   *)
THEOREM NobodyWaitsForWhatIsSet == Spec => []NobodyWaitsForSetBits
<1>1. Init => NobodyWaitsForSetBits
  BY DEF Init, NobodyWaitsForSetBits
<1> QED
  BY <1>1, SpecInv, NobodyWaitsStep, PTL DEF Spec

(* xEventGroupSync is a barrier, for any number of tasks and of rounds.     *)
THEOREM RendezvousHolds == Spec => []RendezvousIsComplete
<1>1. ASSUME IInv PROVE RendezvousIsComplete
  <2> SUFFICES ASSUME application.rendezvous, NEW t \in Tasks
               PROVE  /\ \A u \in Tasks : returns[t] <= arrivals[u]
                      /\ t \in xTasksWaitingForBits =>
                           \E u \in Tasks : arrivals[u] < arrivals[t]
    BY DEF RendezvousIsComplete
  <2>1. InStep /\ GroupTypeOK
    BY <1>1 DEF IInv, RoundsInv
  <2>2. PICK r \in Nat : InRound(r)
    BY <2>1 DEF InStep
  <2>3. \A u \in Tasks : r <= arrivals[u]
    BY <2>2 DEF InRound
  <2>4. returns[t] <= r
    BY <2>1, <2>2 DEF InRound, GroupTypeOK
  <2>5. ASSUME t \in xTasksWaitingForBits
        PROVE  \E u \in Tasks : arrivals[u] < arrivals[t]
    <3>1. PICK u \in Tasks : u \notin xTasksWaitingForBits
      BY <2>1, <2>5 DEF InStep, GroupTypeOK
    <3> QED
      BY <2>2, <2>5, <3>1 DEF InRound
  <2> QED
    BY <1>1, <2>3, <2>4, <2>5 DEF IInv, RoundsInv
<1> QED
  BY <1>1, SpecInv, PTL

-----------------------------------------------------------------------------
(* The heap.                                                                *)

(* Blocks in a row from first to end, of these sizes.                       *)
Tiles(B, size, first, end) ==
  /\ \A b \in B : /\ b \in Int /\ first <= b /\ b % portBYTE_ALIGNMENT = 0
                  /\ size[b] \in Nat \ {0} /\ size[b] % portBYTE_ALIGNMENT = 0
                  /\ b + size[b] <= end
  /\ \A b, c \in B : b < c => b + size[b] <= c
  /\ \A a \in first..(end - 1) : \E b \in B : b <= a /\ a < b + size[b]

(* The links lead from xStart through F to end.                             *)
Linked(F, next, end) ==
  \A p \in F \union {xStart} :
    /\ next[p] \in F \union {end} /\ p < next[p]
    /\ \A b \in F : p < b => next[p] <= b

Merged(F, size) == \A b, c \in F : b + size[b] # c

BytesOf(F, size) == UNION {b..(b + size[b] - 1) : b \in F}

NotYetInv ==
  ~ Initialised =>
    /\ walk = "none" /\ allocated = {} /\ \A t \in Callers : freeing[t] = NULL
    /\ xFreeBytesRemaining = 0 /\ xMinimumEverFreeBytesRemaining = 0

OwnersInv ==
  /\ BlocksHaveOneOwner
  /\ \A t \in Callers : freeing[t] = NULL \/ freeing[t] # pxBlockToInsert
  /\ \A m \in allocated : /\ m.asked \in Requests \union {r[1] * r[2] : r \in CallocRequests}
                          /\ m.asked > 0 /\ m.asked + xHeapStructSize <= xBlockSize[m.block]

LinksInv ==
  /\ Linked(Free, pxNextFreeBlock, pxEnd)
  /\ Merged(Free, xBlockSize)
  /\ xBlockSize[xStart] = 0 /\ xBlockSize[pxEnd] = 0 /\ pxNextFreeBlock[pxEnd] = NULL

InsertedSize == IF walk = "free" THEN xBlockSize[pxBlockToInsert] ELSE 0

CountInv ==
  /\ xFreeBytesRemaining = Cardinality(BytesOf(Free, xBlockSize)) + InsertedSize
  /\ xMinimumEverFreeBytesRemaining <= xFreeBytesRemaining

(* The blocks pvPortMalloc has passed are too small; those                  *)
(* prvInsertBlockIntoFreeList has passed have lower addresses.              *)
WalkInv ==
  /\ walk = "malloc" =>
       /\ position \in Free \union {xStart}
       /\ \A b \in Free : b <= position => xBlockSize[b] < xWantedSize
       /\ asked \in Requests \union {r[1] * r[2] : r \in CallocRequests}
       /\ asked \in 1..SIZE_MAX
       /\ xWantedSize = WantedSize(asked) /\ xWantedSize > 0
  /\ walk = "free" =>
       /\ position \in Free \union {xStart}
       /\ pxBlockToInsert # NULL /\ position < pxBlockToInsert

HeapInv ==
  /\ HeapTypeOK /\ NotYetInv
  /\ walk # "free" => pxBlockToInsert = NULL
  /\ Initialised => /\ Tiles(Blocks, xBlockSize, uxStartAddress, uxEndAddress)
                    /\ OwnersInv /\ LinksInv /\ CountInv /\ WalkInv

-----------------------------------------------------------------------------
(* Multiples.                                                               *)

LEMMA Division ==
  ASSUME NEW A \in Nat \ {0}, NEW a \in Int
  PROVE  /\ a % A \in 0..(A - 1)
         /\ \E q \in Int : q = a \div A /\ a = A * q + (a % A)
<1>1. a % A \in 0..(A - 1)
  OBVIOUS
<1>2. a \div A \in Int
  OBVIOUS
<1>3. a = A * (a \div A) + (a % A)
  OBVIOUS
<1> QED
  BY <1>1, <1>2, <1>3

LEMMA MultipleOf ==
  ASSUME NEW A \in Nat \ {0}, NEW q \in Int
  PROVE  (A * q) % A = 0
<1>1. PICK r \in Int, d \in Int : r = (A * q) % A /\ A * q = A * d + r /\ r \in 0..(A - 1)
  BY Division
<1>2. A * (q - d) = r
  BY <1>1
<1>3. q - d = 0
  <2>1. CASE q - d >= 1
    <3>1. A * (q - d) >= A
      BY <2>1
    <3> QED
      BY <1>1, <1>2, <3>1
  <2>2. CASE q - d <= -1
    <3>1. A * (q - d) <= -A
      BY <2>2
    <3> QED
      BY <1>1, <1>2, <3>1
  <2> QED
    BY <2>1, <2>2
<1> QED
  BY <1>1, <1>2, <1>3

LEMMA Multiples ==
  ASSUME NEW A \in Nat \ {0}, NEW a \in Int, a % A = 0
  PROVE  \E q \in Int : a = A * q
<1>1. PICK q \in Int : a = A * q + (a % A)
  BY Division
<1>2. A * q \in Int
  OBVIOUS
<1> QED
  BY <1>1, <1>2

LEMMA SumOfMultiples ==
  ASSUME NEW A \in Nat \ {0}, NEW a \in Int, NEW b \in Int, a % A = 0, b % A = 0
  PROVE  (a + b) % A = 0 /\ (a - b) % A = 0
<1>1. PICK q \in Int, r \in Int : a = A * q /\ b = A * r
  BY Multiples
<1>2. a + b = A * (q + r) /\ a - b = A * (q - r)
  BY <1>1
<1>3. q + r \in Int /\ q - r \in Int
  OBVIOUS
<1>4. (A * (q + r)) % A = 0 /\ (A * (q - r)) % A = 0
  BY <1>3, MultipleOf
<1> QED
  BY <1>2, <1>4

LEMMA RoundDown ==
  ASSUME NEW A \in Nat \ {0}, NEW a \in Int
  PROVE  /\ (a - (a % A)) % A = 0
         /\ a - (a % A) \in Int /\ a - (a % A) <= a /\ a - (a % A) > a - A
<1>1. PICK q \in Int : a = A * q + (a % A)
  BY Division
<1>2. PICK r \in 0..(A - 1) : r = a % A
  BY Division
<1>3. A * q \in Int /\ (A * q) % A = 0
  BY MultipleOf
<1>4. a - r = A * q
  BY <1>1, <1>2, <1>3
<1> QED
  BY <1>2, <1>3, <1>4

(* The least multiple that is not less.                                     *)
LEMMA RoundUp ==
  ASSUME NEW A \in Nat \ {0}, NEW a \in Int
  PROVE  /\ (a + ((-a) % A)) % A = 0
         /\ (-a) % A \in 0..(A - 1)
         /\ \A b \in Int : b % A = 0 /\ a <= b => a + ((-a) % A) <= b
<1>0. PICK b \in Int : b = -a
  OBVIOUS
<1>1. PICK d \in Int, r \in 0..(A - 1) : r = b % A /\ b = A * d + r
  BY Division
<1>2. a + r = A * (-d)
  BY <1>0, <1>1
<1>3. ASSUME NEW c \in Int, c % A = 0, a <= c
      PROVE  a + r <= c
  <2>1. PICK q \in Int : c = A * q
    BY <1>3, Multiples
  <2>2. CASE q + d <= -1
    <3>1. A * (q + d) <= -A
      BY <2>2
    <3>2. A * (q + d) = A * q - A * (-d)
      OBVIOUS
    <3> QED
      BY <1>1, <1>2, <1>3, <2>1, <3>1, <3>2
  <2>3. CASE q >= -d
    <3>1. A * q >= A * (-d)
      BY <2>3
    <3> QED
      BY <1>2, <2>1, <3>1
  <2> QED
    BY <2>2, <2>3
<1>4. (A * (-d)) % A = 0
  BY MultipleOf
<1> QED
  BY <1>0, <1>1, <1>2, <1>3, <1>4

LEMMA NothingWraps ==
  ASSUME NEW A \in Nat \ {0}, NEW a \in 0..(A - 1)
  PROVE  a % A = a
<1>1. PICK q \in Int, r \in 0..(A - 1) : r = a % A /\ a = A * q + r
  <2>1. a \in Int
    OBVIOUS
  <2>2. PICK q \in Int : a = A * q + (a % A)
    BY <2>1, Division
  <2>3. PICK r \in 0..(A - 1) : r = a % A
    BY <2>1, Division
  <2> QED
    BY <2>2, <2>3
<1>2. CASE q >= 1
  <2>1. A * q >= A
    BY <1>2
  <2> QED
    BY <1>1, <2>1
<1>3. CASE q <= -1
  <2>1. A * q <= -A
    BY <1>3
  <2> QED
    BY <1>1, <2>1
<1>4. CASE q = 0
  BY <1>1, <1>4
<1> QED
  BY <1>2, <1>3, <1>4

(* The check before a multiplication.                                       *)
LEMMA ProductFits ==
  ASSUME NEW a \in Nat, NEW b \in Nat, NEW m \in Nat, ~ (a > 0 /\ b > m \div a)
  PROVE  a * b \in 0..m
<1>1. CASE a = 0
  BY <1>1
<1>2. CASE a > 0
  <2>1. PICK q \in Int : q = m \div a /\ m = a * q + (m % a) /\ m % a \in 0..(a - 1)
    BY <1>2, Division
  <2>2. b <= q
    BY <1>2, <2>1
  <2>3. a * b <= a * q /\ a * b \in Nat
    BY <1>2, <2>2
  <2> QED
    BY <1>2, <2>1, <2>3
<1> QED
  BY <1>1, <1>2

-----------------------------------------------------------------------------
(* The heap and its rows of blocks.                                         *)

LEMMA ConstantsFacts ==
  /\ portBYTE_ALIGNMENT \in Nat \ {0} /\ xHeapStructSize \in Nat \ {0}
  /\ xHeapStructSize % portBYTE_ALIGNMENT = 0 /\ portBYTE_ALIGNMENT <= xHeapStructSize
  /\ SIZE_MAX \in Nat /\ configTOTAL_HEAP_SIZE \in Nat
  /\ 3 * xHeapStructSize <= configTOTAL_HEAP_SIZE
  /\ SIZE_MAX \div 2 \in Nat /\ configTOTAL_HEAP_SIZE <= SIZE_MAX \div 2 + 1
  /\ NULL \notin Int
<1>1. /\ portBYTE_ALIGNMENT \in Nat \ {0} /\ xHeapStructSize \in Nat \ {0}
      /\ xHeapStructSize % portBYTE_ALIGNMENT = 0 /\ SIZE_MAX \in Nat
      /\ configTOTAL_HEAP_SIZE \in (3 * xHeapStructSize)..(SIZE_MAX \div 2 + 1)
      /\ NULL \notin Int
  BY HeapAssumption
<1>2. portBYTE_ALIGNMENT <= xHeapStructSize
  <2>1. PICK q \in Int : xHeapStructSize = portBYTE_ALIGNMENT * q
    BY <1>1, Multiples
  <2>2. CASE q >= 1
    <3>1. portBYTE_ALIGNMENT * q >= portBYTE_ALIGNMENT
      BY <1>1, <2>2
    <3> QED
      BY <2>1, <3>1
  <2>3. CASE q <= 0
    <3>1. portBYTE_ALIGNMENT * q <= 0
      BY <1>1, <2>3
    <3> QED
      BY <1>1, <2>1, <3>1
  <2> QED
    BY <2>1, <2>2, <2>3
<1>3. SIZE_MAX \div 2 \in Nat
  BY <1>1
<1> QED
  BY <1>1, <1>2, <1>3

LEMMA HeapBounds ==
  ASSUME ucHeap \in HeapAddresses
  PROVE  /\ ucHeap \in Nat \ {0} /\ uxStartAddress \in Int /\ uxEndAddress \in Int
         /\ ucHeap <= uxStartAddress /\ uxStartAddress < uxEndAddress
         /\ uxEndAddress + xHeapStructSize <= ucHeap + configTOTAL_HEAP_SIZE
         /\ uxStartAddress % portBYTE_ALIGNMENT = 0
         /\ uxEndAddress % portBYTE_ALIGNMENT = 0
         /\ (uxEndAddress - uxStartAddress) % portBYTE_ALIGNMENT = 0
<1>1. ucHeap \in Nat \ {0}
  BY HeapAssumption
<1>2. PICK s \in Int : s = ucHeap + portBYTE_ALIGNMENT - 1
  BY <1>1, ConstantsFacts
<1>3. /\ uxStartAddress = s - (s % portBYTE_ALIGNMENT)
      /\ uxStartAddress \in Int /\ uxStartAddress % portBYTE_ALIGNMENT = 0
      /\ uxStartAddress > s - portBYTE_ALIGNMENT /\ uxStartAddress <= s
  BY <1>2, ConstantsFacts, RoundDown DEF uxStartAddress, AlignDown
<1>4. PICK e \in Int : e = ucHeap + configTOTAL_HEAP_SIZE - xHeapStructSize
  BY <1>1, ConstantsFacts
<1>5. uxStartAddress + (configTOTAL_HEAP_SIZE - (uxStartAddress - ucHeap)) - xHeapStructSize = e
  BY <1>1, <1>3, <1>4, ConstantsFacts
<1>6. /\ uxEndAddress = e - (e % portBYTE_ALIGNMENT)
      /\ uxEndAddress \in Int /\ uxEndAddress % portBYTE_ALIGNMENT = 0
      /\ uxEndAddress > e - portBYTE_ALIGNMENT /\ uxEndAddress <= e
  <2>1. uxEndAddress = e - (e % portBYTE_ALIGNMENT)
    BY <1>5 DEF uxEndAddress, AlignDown
  <2> QED
    BY <2>1, ConstantsFacts, RoundDown
<1>7. /\ ucHeap <= uxStartAddress /\ uxStartAddress < uxEndAddress
      /\ uxEndAddress + xHeapStructSize <= ucHeap + configTOTAL_HEAP_SIZE
  BY <1>1, <1>2, <1>3, <1>4, <1>6, ConstantsFacts
<1>8. (uxEndAddress - uxStartAddress) % portBYTE_ALIGNMENT = 0
  BY <1>3, <1>6, ConstantsFacts, SumOfMultiples
<1> QED
  BY <1>1, <1>3, <1>6, <1>7, <1>8

LEMMA TilesSame ==
  ASSUME NEW B, NEW size, NEW size2, NEW first \in Int, NEW end \in Int,
         Tiles(B, size, first, end), \A b \in B : size2[b] = size[b]
  PROVE  Tiles(B, size2, first, end)
BY DEF Tiles

(* A block is split in two.                                                 *)
LEMMA TilesSplit ==
  ASSUME NEW B, NEW size, NEW size2, NEW first \in Int, NEW end \in Int,
         Tiles(B, size, first, end), NEW b \in B, NEW w \in Nat \ {0},
         w < size[b], w % portBYTE_ALIGNMENT = 0,
         size2[b] = w, size2[b + w] = size[b] - w,
         \A c \in B \ {b} : size2[c] = size[c]
  PROVE  Tiles(B \union {b + w}, size2, first, end) /\ b + w \notin B
<1>1. \A c \in B : /\ c \in Int /\ first <= c /\ c % portBYTE_ALIGNMENT = 0
                   /\ size[c] \in Nat \ {0} /\ size[c] % portBYTE_ALIGNMENT = 0
                   /\ c + size[c] <= end
  BY DEF Tiles
<1>2. \A c, d \in B : c < d => c + size[c] <= d
  BY DEF Tiles
<1>3. b + w \notin B
  BY <1>1, <1>2
<1>4. (b + w) % portBYTE_ALIGNMENT = 0 /\ (size[b] - w) % portBYTE_ALIGNMENT = 0
  <2>1. PICK n \in Int : n = size[b] /\ n % portBYTE_ALIGNMENT = 0
    BY <1>1
  <2>2. b \in Int /\ b % portBYTE_ALIGNMENT = 0 /\ w \in Int
    BY <1>1
  <2>3. portBYTE_ALIGNMENT \in Nat \ {0}
    BY ConstantsFacts
  <2>4. (b + w) % portBYTE_ALIGNMENT = 0
    BY <2>2, <2>3, SumOfMultiples, Zenon
  <2>5. (n - w) % portBYTE_ALIGNMENT = 0
    BY <2>1, ConstantsFacts, SumOfMultiples
  <2> QED
    BY <2>1, <2>5, <2>4
<1> DEFINE B2 == B \union {b + w}
<1>5. ASSUME NEW c \in B2
      PROVE  /\ c \in Int /\ first <= c /\ c % portBYTE_ALIGNMENT = 0
             /\ size2[c] \in Nat \ {0} /\ size2[c] % portBYTE_ALIGNMENT = 0
             /\ c + size2[c] <= end
  <2>1. CASE c = b
    BY <1>1, <2>1
  <2>2. CASE c = b + w
    BY <1>1, <1>4, <2>2
  <2>3. CASE c \in B \ {b}
    BY <1>1, <2>3
  <2> QED
    BY <2>1, <2>2, <2>3
<1>6. ASSUME NEW c \in B2, NEW d \in B2, c < d
      PROVE  c + size2[c] <= d
  <2>1. CASE c = b /\ d = b + w
    BY <1>1, <2>1
  <2>2. CASE c = b /\ d \in B \ {b}
    BY <1>1, <1>2, <1>6, <2>2
  <2>3. CASE c = b + w /\ d \in B \ {b}
    BY <1>1, <1>2, <1>6, <2>3
  <2>4. CASE c = b + w /\ d = b
    BY <1>1, <1>6, <2>4
  <2>5. CASE c \in B \ {b} /\ d = b
    BY <1>1, <1>2, <1>6, <2>5
  <2>6. CASE c \in B \ {b} /\ d = b + w
    BY <1>1, <1>2, <1>6, <2>6
  <2>7. CASE c \in B \ {b} /\ d \in B \ {b}
    BY <1>1, <1>2, <1>6, <2>7
  <2> QED
    BY <1>6, <1>5, <2>1, <2>2, <2>3, <2>4, <2>5, <2>6, <2>7
<1>7. ASSUME NEW a \in first..(end - 1)
      PROVE  \E c \in B2 : c <= a /\ a < c + size2[c]
  <2>1. PICK c \in B : c <= a /\ a < c + size[c]
    BY DEF Tiles
  <2>2. CASE c = b
    BY <1>1, <2>1, <2>2
  <2>3. CASE c # b
    BY <1>1, <2>1, <2>3
  <2> QED
    BY <2>2, <2>3
<1> QED
  BY <1>3, <1>5, <1>6, <1>7 DEF Tiles

(* Two blocks become one.                                                   *)
LEMMA TilesJoin ==
  ASSUME NEW B, NEW size, NEW size2, NEW first \in Int, NEW end \in Int,
         Tiles(B, size, first, end), NEW b \in B, NEW c \in B, b + size[b] = c,
         size2[b] = size[b] + size[c], \A d \in B \ {b, c} : size2[d] = size[d]
  PROVE  Tiles(B \ {c}, size2, first, end)
<1>1. \A d \in B : /\ d \in Int /\ first <= d /\ d % portBYTE_ALIGNMENT = 0
                   /\ size[d] \in Nat \ {0} /\ size[d] % portBYTE_ALIGNMENT = 0
                   /\ d + size[d] <= end
  BY DEF Tiles
<1>2. \A d, e \in B : d < e => d + size[d] <= e
  BY DEF Tiles
<1>3. (size[b] + size[c]) % portBYTE_ALIGNMENT = 0 /\ b # c
  BY <1>1, ConstantsFacts, SumOfMultiples
<1> DEFINE B2 == B \ {c}
<1>5. ASSUME NEW d \in B2
      PROVE  /\ d \in Int /\ first <= d /\ d % portBYTE_ALIGNMENT = 0
             /\ size2[d] \in Nat \ {0} /\ size2[d] % portBYTE_ALIGNMENT = 0
             /\ d + size2[d] <= end
  <2>1. CASE d = b
    BY <1>1, <1>3, <2>1
  <2>2. CASE d # b
    BY <1>1, <2>2
  <2> QED
    BY <2>1, <2>2
<1>6. ASSUME NEW d \in B2, NEW e \in B2, d < e
      PROVE  d + size2[d] <= e
  <2>1. CASE d = b
    <3>1. c < e
      BY <1>1, <1>2, <1>6, <2>1
    <3> QED
      BY <1>1, <1>2, <2>1, <3>1
  <2>2. CASE d # b
    BY <1>1, <1>2, <1>6, <2>2
  <2> QED
    BY <2>1, <2>2
<1>7. ASSUME NEW a \in first..(end - 1)
      PROVE  \E d \in B2 : d <= a /\ a < d + size2[d]
  <2>1. PICK d \in B : d <= a /\ a < d + size[d]
    BY DEF Tiles
  <2>2. CASE d \in {b, c}
    BY <1>1, <1>3, <2>1, <2>2
  <2>3. CASE d \notin {b, c}
    BY <1>1, <2>1, <2>3
  <2> QED
    BY <2>2, <2>3
<1> QED
  BY <1>5, <1>6, <1>7 DEF Tiles

(* The bytes of some of the blocks, and their number.                       *)
LEMMA BytesFacts ==
  ASSUME NEW B, NEW size, NEW first \in Int, NEW end \in Int,
         Tiles(B, size, first, end), NEW F \in SUBSET B
  PROVE  /\ BytesOf(F, size) \subseteq first..(end - 1)
         /\ IsFiniteSet(BytesOf(F, size))
         /\ Cardinality(BytesOf(F, size)) \in Nat
         /\ \A a \in Int : a \in BytesOf(F, size)
              <=> \E b \in F : b <= a /\ a < b + size[b]
<1>1. \A b \in F : b \in Int /\ size[b] \in Nat /\ first <= b /\ b + size[b] <= end
  BY DEF Tiles
<1>2. BytesOf(F, size) \subseteq first..(end - 1)
  BY <1>1 DEF BytesOf
<1>3. \A a \in Int : a \in BytesOf(F, size) <=> \E b \in F : b <= a /\ a < b + size[b]
  BY <1>1 DEF BytesOf
<1>4. IsFiniteSet(BytesOf(F, size))
  BY <1>2, FS_Interval, FS_Subset
<1> QED
  BY <1>2, <1>3, <1>4, FS_CardinalityType

LEMMA BytesOfMore ==
  ASSUME NEW F, NEW c, NEW size
  PROVE  BytesOf(F \union {c}, size) = BytesOf(F, size) \union (c..(c + size[c] - 1))
BY DEF BytesOf

LEMMA BytesSame ==
  ASSUME NEW F, NEW size, NEW size2, \A c \in F : size2[c] = size[c]
  PROVE  BytesOf(F, size2) = BytesOf(F, size)
BY DEF BytesOf

LEMMA BytesAdded ==
  ASSUME NEW S, IsFiniteSet(S), NEW b \in Int, NEW n \in Nat,
         \A a \in S : a \in Int /\ (a < b \/ b + n <= a)
  PROVE  Cardinality(S \union (b..(b + n - 1))) = Cardinality(S) + n
<1>1. PICK T : T = b..(b + n - 1)
  OBVIOUS
<1>2. IsFiniteSet(T) /\ Cardinality(T) = n
  BY <1>1, FS_Interval
<1>3. S \intersect T = {}
  BY <1>1
<1>4. Cardinality(S \intersect T) = 0
  BY <1>3, FS_EmptySet
<1>5. Cardinality(S) \in Nat
  BY FS_CardinalityType
<1>6. Cardinality(S \union T) = Cardinality(S) + Cardinality(T) - Cardinality(S \intersect T)
  BY <1>2, FS_Union
<1> QED
  BY <1>1, <1>2, <1>4, <1>5, <1>6

(* The links of free blocks F, all of them between xStart and end.          *)
LEMMA LinkedWithout ==
  ASSUME NEW F \in SUBSET Int, NEW next, NEW next2, NEW end \in Int,
         xStart < end, \A q \in F : xStart < q /\ q < end,
         Linked(F, next, end), NEW p \in F \union {xStart}, NEW b \in F, next[p] = b,
         next2[p] = next[b],
         \A q \in (F \ {b}) \union {xStart} : q # p => next2[q] = next[q]
  PROVE  Linked(F \ {b}, next2, end)
<1>1. \A q \in F \union {xStart} :
        /\ q \in Int /\ q < end
        /\ next[q] \in F \union {end} /\ q < next[q] /\ next[q] \in Int
        /\ \A c \in F : q < c => next[q] <= c
  <2>1. \A q \in F \union {xStart} : /\ next[q] \in F \union {end} /\ q < next[q]
                                     /\ \A c \in F : q < c => next[q] <= c
    BY DEF Linked
  <2>2. \A q \in F \union {xStart} : q \in Int /\ q < end
    BY DEF xStart
  <2> QED
    BY <2>1, <2>2
<1>2. ASSUME NEW q \in (F \ {b}) \union {xStart}
      PROVE  /\ next2[q] \in (F \ {b}) \union {end} /\ q < next2[q]
             /\ \A c \in F \ {b} : q < c => next2[q] <= c
  <2>1. CASE q = p
    <3>1. /\ next[b] \in F \union {end} /\ b < next[b] /\ p < b /\ b \in Int /\ p \in Int
          /\ next[b] \in Int
      BY <1>1
    <3>2. ASSUME NEW c \in F \ {b}, p < c
          PROVE  next[b] <= c
      BY <1>1, <3>1, <3>2
    <3> QED
      BY <2>1, <3>1, <3>2
  <2>2. CASE q # p
    <3>1. next2[q] = next[q] /\ next[q] \in F \union {end} /\ q < next[q]
      BY <1>1, <1>2, <2>2
    <3>2. next[q] # b
      <4>1. q \in Int /\ p \in Int /\ b \in Int /\ p < b
        BY <1>1
      <4>2. CASE q < p
        <5>1. p \in F
          BY <1>2, <4>2 DEF xStart
        <5> QED
          BY <1>1, <4>1, <4>2, <5>1
      <4>3. CASE p < q
        <5>1. q \in F
          BY <1>2, <4>3 DEF xStart
        <5> QED
          BY <1>1, <4>1, <4>3, <5>1
      <4> QED
        BY <2>2, <4>1, <4>2, <4>3
    <3> QED
      BY <1>1, <3>1, <3>2
  <2> QED
    BY <2>1, <2>2
<1> QED
  BY <1>2 DEF Linked

LEMMA LinkedWith ==
  ASSUME NEW F \in SUBSET Int, NEW next, NEW next2, NEW end \in Int,
         xStart < end, \A q \in F : xStart < q /\ q < end,
         Linked(F, next, end), NEW p \in F \union {xStart}, NEW x \in Int,
         p < x, x < next[p], next2[p] = x, next2[x] = next[p],
         \A q \in F \union {xStart} : q # p => next2[q] = next[q]
  PROVE  Linked(F \union {x}, next2, end)
<1>1. \A q \in F \union {xStart} :
        /\ q \in Int /\ q < end
        /\ next[q] \in F \union {end} /\ q < next[q] /\ next[q] \in Int
        /\ \A c \in F : q < c => next[q] <= c
  <2>1. \A q \in F \union {xStart} : /\ next[q] \in F \union {end} /\ q < next[q]
                                     /\ \A c \in F : q < c => next[q] <= c
    BY DEF Linked
  <2>2. \A q \in F \union {xStart} : q \in Int /\ q < end
    BY DEF xStart
  <2> QED
    BY <2>1, <2>2
<1>2. ASSUME NEW q \in F \union {x} \union {xStart}
      PROVE  /\ next2[q] \in F \union {x} \union {end} /\ q < next2[q]
             /\ \A c \in F \union {x} : q < c => next2[q] <= c
  <2>1. CASE q = p
    <3>1. \A c \in F : p < c => x <= c
      BY <1>1
    <3> QED
      BY <2>1, <3>1
  <2>2. CASE q = x
    <3>1. \A c \in F : x < c => next[p] <= c
      BY <1>1
    <3> QED
      BY <1>1, <2>2, <3>1
  <2>3. CASE q # p /\ q # x
    <3>1. q \in F \union {xStart} /\ next2[q] = next[q]
      BY <1>2, <2>3
    <3>2. q < x => next[q] <= x
      <4>1. q \in Int /\ p \in Int /\ next[p] \in Int
        BY <1>1, <3>1
      <4>2. CASE q < p
        <5>1. p \in F
          BY <3>1, <4>2, <1>1 DEF xStart
        <5> QED
          BY <1>1, <3>1, <4>1, <4>2, <5>1
      <4>3. CASE p < q
        <5>1. q \in F
          BY <1>1, <3>1, <4>3 DEF xStart
        <5> QED
          BY <1>1, <4>1, <4>3, <5>1
      <4> QED
        BY <2>3, <4>1, <4>2, <4>3
    <3> QED
      BY <1>1, <3>1, <3>2
  <2> QED
    BY <2>1, <2>2, <2>3
<1> QED
  BY <1>2 DEF Linked

-----------------------------------------------------------------------------
(* What every step leaves alone, and what the invariant says of a heap that *)
(* has been laid out.                                                       *)

LEMMA SameHeap ==
  ASSUME ucHeap' = ucHeap
  PROVE  /\ uxStartAddress' = uxStartAddress /\ uxEndAddress' = uxEndAddress
         /\ Addresses' = Addresses /\ Headers' = Headers
BY DEF uxStartAddress, uxEndAddress, AlignDown, Addresses, Headers

LEMMA AddressFacts ==
  ASSUME ucHeap \in HeapAddresses
  PROVE  /\ Headers = Addresses \union {xStart} /\ xStart \notin Addresses
         /\ Addresses \subseteq Nat \ {0} /\ Addresses \subseteq Int /\ xStart = -1
         /\ NULL \notin Headers
         /\ \A a \in Int : uxStartAddress <= a /\ a <= uxEndAddress => a \in Addresses
<1>1. /\ ucHeap \in Nat \ {0} /\ uxStartAddress \in Int /\ uxEndAddress \in Int
      /\ ucHeap <= uxStartAddress
      /\ uxEndAddress + xHeapStructSize <= ucHeap + configTOTAL_HEAP_SIZE
  BY HeapBounds
<1>2. Addresses \subseteq Nat \ {0} /\ Addresses \subseteq Int
  BY <1>1, ConstantsFacts DEF Addresses
<1>3. \A a \in Int : uxStartAddress <= a /\ a <= uxEndAddress => a \in Addresses
  BY <1>1, ConstantsFacts DEF Addresses
<1>4. xStart = -1 /\ xStart \in Int
  BY DEF xStart
<1>5. Headers = Addresses \union {xStart}
  BY DEF Headers
<1>6. xStart \notin Addresses
  BY <1>2, <1>4
<1>7. NULL \notin Headers
  BY <1>2, <1>4, <1>5, ConstantsFacts
<1> QED
  BY <1>2, <1>3, <1>4, <1>5, <1>6, <1>7

LEMMA HeapFacts ==
  ASSUME HeapInv, Initialised
  PROVE  /\ ucHeap \in HeapAddresses /\ pxEnd = uxEndAddress
         /\ pxEnd \in Addresses /\ pxEnd \in Int /\ uxStartAddress \in Int
         /\ uxStartAddress > xStart /\ xStart < pxEnd /\ xStart \in Int
         /\ Blocks \subseteq Addresses /\ pxEnd \notin Blocks
         /\ Free \subseteq Blocks /\ Owned \subseteq Blocks /\ Freed \subseteq Blocks
         /\ \A b \in Blocks :
              /\ b \in Int /\ uxStartAddress <= b /\ b < pxEnd /\ xStart < b
              /\ xBlockSize[b] \in Nat \ {0} /\ b + xBlockSize[b] <= pxEnd
              /\ b % portBYTE_ALIGNMENT = 0 /\ xBlockSize[b] % portBYTE_ALIGNMENT = 0
         /\ \A b, c \in Blocks : b < c => b + xBlockSize[b] <= c
         /\ \A p \in Free \union {xStart} :
              /\ p \in Int /\ pxNextFreeBlock[p] \in Free \union {pxEnd}
              /\ p < pxNextFreeBlock[p] /\ pxNextFreeBlock[p] \in Int
              /\ \A b \in Free : p < b => pxNextFreeBlock[p] <= b
         /\ \A b \in Addresses : b \in Free <=> pxNextFreeBlock[b] # NULL
<1>1. ucHeap \in HeapAddresses /\ pxEnd = uxEndAddress
  BY DEF HeapInv, HeapTypeOK, Initialised
<1>2. /\ ucHeap \in Nat \ {0} /\ uxStartAddress \in Int /\ uxEndAddress \in Int
      /\ ucHeap <= uxStartAddress /\ uxStartAddress < uxEndAddress
  BY <1>1, HeapBounds
<1>3. uxStartAddress > xStart /\ xStart < pxEnd /\ xStart \in Int
  BY <1>1, <1>2 DEF xStart
<1>4. /\ \A b \in Blocks :
           /\ b \in Int /\ uxStartAddress <= b /\ b % portBYTE_ALIGNMENT = 0
           /\ xBlockSize[b] \in Nat \ {0} /\ xBlockSize[b] % portBYTE_ALIGNMENT = 0
           /\ b + xBlockSize[b] <= pxEnd
      /\ \A b, c \in Blocks : b < c => b + xBlockSize[b] <= c
  BY <1>1 DEF HeapInv, Tiles
<1>5. \A b \in Blocks : b < pxEnd /\ xStart < b
  BY <1>1, <1>2, <1>3, <1>4
<1>6. Blocks \subseteq Addresses /\ pxEnd \in Addresses
  <2>1. \A b \in Blocks : b \in Int /\ uxStartAddress <= b /\ b <= uxEndAddress
    BY <1>1, <1>2, <1>4, <1>5
  <2> QED
    BY <1>1, <1>2, <2>1, AddressFacts
<1>7. pxEnd \notin Blocks
  BY <1>4, <1>5
<1>8. Free \subseteq Blocks /\ Owned \subseteq Blocks /\ Freed \subseteq Blocks
  BY DEF Blocks
<1>9. \A p \in Free \union {xStart} :
        /\ pxNextFreeBlock[p] \in Free \union {pxEnd} /\ p < pxNextFreeBlock[p]
        /\ \A b \in Free : p < b => pxNextFreeBlock[p] <= b
  BY DEF HeapInv, LinksInv, Linked
<1>10. Free \union {xStart} \union {pxEnd} \subseteq Int
  BY <1>1, <1>2, <1>3, <1>4, <1>8
<1>11. \A p \in Free \union {xStart} : p \in Int /\ pxNextFreeBlock[p] \in Int
  BY <1>9, <1>10
<1>12. \A b \in Addresses : b \in Free <=> pxNextFreeBlock[b] # NULL
  BY DEF Free
<1> QED
  BY <1>1, <1>2, <1>3, <1>4, <1>5, <1>6, <1>7, <1>8, <1>9, <1>11, <1>12

-----------------------------------------------------------------------------
(* The invariant is inductive: one lemma for every action.                  *)

LEMMA HeapInitInv ==
  ASSUME HeapInit
  PROVE  HeapInv
<1>1. ucHeap \in HeapAddresses /\ pxEnd = NULL /\ ~ Initialised
  BY DEF HeapInit, Initialised
<1>2. xStart \in Headers
  BY <1>1, AddressFacts
<1>3. HeapTypeOK
  BY <1>1, <1>2, ConstantsFacts DEF HeapInit, HeapTypeOK
<1> QED
  BY <1>1, <1>3 DEF HeapInit, HeapInv, NotYetInv

(* Where the blocks, their sizes and their links stay.                      *)
LEMMA SameBlocks ==
  ASSUME HeapInv, Initialised, UNCHANGED <<ucHeap, links>>, Blocks' = Blocks
  PROVE  /\ Free' = Free /\ Initialised'
         /\ Tiles(Blocks, xBlockSize, uxStartAddress, uxEndAddress)'
         /\ LinksInv'
         /\ BytesOf(Free, xBlockSize)' = BytesOf(Free, xBlockSize)
<1>1. /\ uxStartAddress' = uxStartAddress /\ uxEndAddress' = uxEndAddress
      /\ Addresses' = Addresses
  BY SameHeap
<1>2. /\ pxEnd' = pxEnd /\ pxNextFreeBlock' = pxNextFreeBlock /\ xBlockSize' = xBlockSize
  BY DEF links
<1>3. Free' = Free /\ Initialised'
  BY <1>1, <1>2 DEF Free, Initialised
<1>4. Tiles(Blocks, xBlockSize, uxStartAddress, uxEndAddress)'
  BY <1>1, <1>2 DEF HeapInv, Tiles
<1>5. LinksInv'
  BY <1>2, <1>3 DEF HeapInv, LinksInv, Linked, Merged
<1>6. BytesOf(Free, xBlockSize)' = BytesOf(Free, xBlockSize)
  BY <1>2, <1>3 DEF BytesOf
<1> QED
  BY <1>3, <1>4, <1>5, <1>6

LEMMA SearchOnInv ==
  ASSUME HeapInv, SearchOn
  PROVE  HeapInv'
<1>1. /\ walk = "malloc" /\ TooSmall /\ position' = pxBlock
      /\ UNCHANGED <<ucHeap, links, counters, allocated, freeing, walk, xWantedSize, asked,
                     pxBlockToInsert>>
  BY DEF SearchOn
<1>2. Initialised /\ pxBlockToInsert = NULL
  BY <1>1 DEF HeapInv, NotYetInv
<1>3. Owned' = Owned /\ Freed' = Freed
  BY <1>1 DEF Owned, Freed
<1>4. Blocks' = Blocks
  BY <1>1, <1>3, SameHeap DEF Blocks, Free, Initialised, links
<1>5. /\ Free' = Free /\ Initialised'
      /\ Tiles(Blocks, xBlockSize, uxStartAddress, uxEndAddress)' /\ LinksInv'
      /\ BytesOf(Free, xBlockSize)' = BytesOf(Free, xBlockSize)
  BY <1>1, <1>2, <1>4, SameBlocks
<1>6. OwnersInv'
  BY <1>1, <1>2, <1>3, <1>5 DEF HeapInv, OwnersInv, BlocksHaveOneOwner, links
<1>7. CountInv'
  BY <1>1, <1>2, <1>5 DEF HeapInv, CountInv, InsertedSize, links, counters
<1>8. WalkInv /\ position \in Free \union {xStart}
  BY <1>1, <1>2 DEF HeapInv, WalkInv
<1>9. pxBlock \in Free
  <2>1. pxBlock \in Free \union {pxEnd}
    BY <1>2, <1>8, HeapFacts DEF pxBlock
  <2>2. pxNextFreeBlock[pxBlock] # NULL /\ pxNextFreeBlock[pxEnd] = NULL
    BY <1>1, <1>2 DEF TooSmall, HeapInv, LinksInv
  <2> QED
    BY <2>1, <2>2
<1>10. WalkInv'
  <2>1. ASSUME NEW b \in Free, b <= pxBlock
        PROVE  xBlockSize[b] < xWantedSize
    <3>1. b = pxBlock \/ b <= position
      BY <1>2, <1>8, <1>9, <2>1, HeapFacts DEF pxBlock
    <3>2. b <= position => xBlockSize[b] < xWantedSize
      BY <1>1, <1>8 DEF WalkInv
    <3> QED
      BY <1>1, <3>1, <3>2 DEF TooSmall
  <2>2. WantedSize(asked)' = WantedSize(asked)
    BY <1>1 DEF WantedSize, heapADD_WILL_OVERFLOW
  <2> QED
    BY <1>1, <1>5, <1>8, <1>9, <2>1, <2>2 DEF WalkInv, links
<1>11. HeapTypeOK'
  <2>1. pxBlock \in Headers
    BY <1>2, <1>9, HeapFacts, AddressFacts
  <2> QED
    BY <1>1, <2>1, SameHeap DEF HeapInv, HeapTypeOK, links, counters
<1> QED
  BY <1>1, <1>2, <1>5, <1>6, <1>7, <1>10, <1>11 DEF HeapInv, NotYetInv

LEMMA IterateOnInv ==
  ASSUME HeapInv, IterateOn
  PROVE  HeapInv'
<1>1. /\ walk = "free" /\ pxNextFreeBlock[position] < pxBlockToInsert
      /\ position' = pxNextFreeBlock[position]
      /\ UNCHANGED <<ucHeap, links, counters, allocated, freeing, walk, xWantedSize, asked,
                     pxBlockToInsert>>
  BY DEF IterateOn
<1>2. Initialised
  BY <1>1 DEF HeapInv, NotYetInv
<1>3. Owned' = Owned /\ Freed' = Freed
  BY <1>1 DEF Owned, Freed
<1>4. Blocks' = Blocks
  BY <1>1, <1>3, SameHeap DEF Blocks, Free, Initialised, links
<1>5. /\ Free' = Free /\ Initialised'
      /\ Tiles(Blocks, xBlockSize, uxStartAddress, uxEndAddress)' /\ LinksInv'
      /\ BytesOf(Free, xBlockSize)' = BytesOf(Free, xBlockSize)
  BY <1>1, <1>2, <1>4, SameBlocks
<1>6. OwnersInv'
  BY <1>1, <1>2, <1>3, <1>5 DEF HeapInv, OwnersInv, BlocksHaveOneOwner, links
<1>7. CountInv'
  BY <1>1, <1>2, <1>5 DEF HeapInv, CountInv, InsertedSize, links, counters
<1>8. position \in Free \union {xStart} /\ pxBlockToInsert # NULL
  BY <1>1, <1>2 DEF HeapInv, WalkInv
<1>9. pxNextFreeBlock[position] \in Free
  <2>1. pxNextFreeBlock[position] \in Free \union {pxEnd}
    BY <1>2, <1>8, HeapFacts
  <2>2. pxBlockToInsert \in Blocks
    BY <1>8 DEF Blocks, Freed
  <2> QED
    BY <1>1, <1>2, <2>1, <2>2, HeapFacts
<1>10. WalkInv'
  BY <1>1, <1>5, <1>8, <1>9 DEF WalkInv, links
<1>11. HeapTypeOK'
  <2>1. pxNextFreeBlock[position] \in Headers
    BY <1>2, <1>9, HeapFacts, AddressFacts
  <2> QED
    BY <1>1, <2>1, SameHeap DEF HeapInv, HeapTypeOK, links, counters
<1> QED
  BY <1>1, <1>2, <1>5, <1>6, <1>7, <1>10, <1>11 DEF HeapInv, NotYetInv

LEMMA NotFoundInv ==
  ASSUME HeapInv, NotFound
  PROVE  HeapInv'
<1>1. /\ walk = "malloc" /\ walk' = "none" /\ position' = xStart
      /\ xWantedSize' = 0 /\ asked' = 0 /\ pxBlockToInsert' = NULL
      /\ UNCHANGED <<ucHeap, links, counters, allocated, freeing>>
  BY DEF NotFound, EndOfWalk
<1>2. Initialised /\ pxBlockToInsert = NULL
  BY <1>1 DEF HeapInv, NotYetInv
<1>3. Owned' = Owned /\ Freed' = Freed
  BY <1>1, <1>2 DEF Owned, Freed
<1>4. Blocks' = Blocks
  BY <1>1, <1>3, SameHeap DEF Blocks, Free, Initialised, links
<1>5. /\ Free' = Free /\ Initialised'
      /\ Tiles(Blocks, xBlockSize, uxStartAddress, uxEndAddress)' /\ LinksInv'
      /\ BytesOf(Free, xBlockSize)' = BytesOf(Free, xBlockSize)
  BY <1>1, <1>2, <1>4, SameBlocks
<1>6. OwnersInv'
  BY <1>1, <1>2, <1>3, <1>5 DEF HeapInv, OwnersInv, BlocksHaveOneOwner, links
<1>7. CountInv'
  BY <1>1, <1>2, <1>5 DEF HeapInv, CountInv, InsertedSize, links, counters
<1>8. WalkInv'
  BY <1>1 DEF WalkInv
<1>9. HeapTypeOK'
  BY <1>1, SameHeap, ConstantsFacts
     DEF HeapInv, HeapTypeOK, links, counters, Headers
<1> QED
  BY <1>1, <1>2, <1>5, <1>6, <1>7, <1>8, <1>9 DEF HeapInv, NotYetInv

LEMMA vPortFreeInv ==
  ASSUME HeapInv, NEW t \in Callers, vPortFree(t)
  PROVE  HeapInv'
<1>1. /\ walk = "none" /\ freeing[t] = NULL
      /\ UNCHANGED <<ucHeap, links, counters, walkVars>>
  BY DEF vPortFree
<1>2. PICK m \in allocated :
        /\ allocated' = allocated \ {m}
        /\ freeing' = [freeing EXCEPT ![t] = m.block]
  BY DEF vPortFree
<1>3. Initialised /\ pxBlockToInsert = NULL /\ pxBlockToInsert' = NULL
  BY <1>1, <1>2 DEF HeapInv, NotYetInv, walkVars
<1>4. /\ \A n \in allocated : m.block = n.block => m = n
      /\ Owned \intersect Freed = {} /\ Free \intersect (Owned \union Freed) = {}
  BY <1>3 DEF HeapInv, OwnersInv, BlocksHaveOneOwner
<1>5. HeapTypeOK
  BY DEF HeapInv
<1>6. m.block \in Addresses /\ m.block # NULL /\ m.block \in Owned
  BY <1>5, AddressFacts DEF HeapTypeOK, Owned
<1>7. Owned' = Owned \ {m.block}
  BY <1>2, <1>4 DEF Owned
<1>8. /\ freeing'[t] = m.block
      /\ \A u \in Callers : u # t => freeing'[u] = freeing[u]
  BY <1>2, <1>5 DEF HeapTypeOK
<1>9. Freed' = Freed \union {m.block}
  BY <1>1, <1>3, <1>6, <1>8 DEF Freed
<1>10. Blocks' = Blocks
  BY <1>1, <1>6, <1>7, <1>9, SameHeap DEF Blocks, Free, Initialised, links
<1>11. /\ Free' = Free /\ Initialised'
       /\ Tiles(Blocks, xBlockSize, uxStartAddress, uxEndAddress)' /\ LinksInv'
       /\ BytesOf(Free, xBlockSize)' = BytesOf(Free, xBlockSize)
  BY <1>1, <1>3, <1>10, SameBlocks
<1>12. OwnersInv'
  <2>1. (Free \intersect (Owned \union Freed) = {} /\ Owned \intersect Freed = {})'
    BY <1>4, <1>6, <1>7, <1>9, <1>11
  <2>2. (\A n, o \in allocated : n.block = o.block => n = o)'
    BY <1>2, <1>3 DEF HeapInv, OwnersInv, BlocksHaveOneOwner
  <2>3. (\A u, v \in Callers : freeing[u] = freeing[v] /\ freeing[u] # NULL => u = v)'
    <3>1. \A u \in Callers : freeing[u] # m.block
      BY <1>4, <1>6 DEF Freed
    <3>2. \A u, v \in Callers : freeing[u] = freeing[v] /\ freeing[u] # NULL => u = v
      BY <1>3 DEF HeapInv, OwnersInv, BlocksHaveOneOwner
    <3> QED
      BY <1>8, <3>1, <3>2
  <2>4. \A u \in Callers : freeing'[u] = NULL \/ freeing'[u] # pxBlockToInsert'
    BY <1>3
  <2>5. \A n \in allocated' :
          /\ n.asked \in Requests \union {r[1] * r[2] : r \in CallocRequests}
          /\ n.asked > 0 /\ n.asked + xHeapStructSize <= xBlockSize'[n.block]
    BY <1>1, <1>2, <1>3 DEF HeapInv, OwnersInv, links
  <2> QED
    BY <2>1, <2>2, <2>3, <2>4, <2>5 DEF OwnersInv, BlocksHaveOneOwner
<1>13. CountInv'
  BY <1>1, <1>3, <1>11 DEF HeapInv, CountInv, InsertedSize, counters, walkVars
<1>14. WalkInv'
  BY <1>1 DEF WalkInv, walkVars
<1>15. HeapTypeOK'
  BY <1>1, <1>2, <1>5, <1>6, SameHeap DEF HeapTypeOK, links, counters, walkVars
<1> QED
  BY <1>1, <1>3, <1>11, <1>12, <1>13, <1>14, <1>15 DEF HeapInv, NotYetInv

(* The bytes of the block and those that are free already are all in the    *)
(* heap, so the count stays within it.                                      *)
LEMMA InsertFreedBlockInv ==
  ASSUME HeapInv, NEW t \in Callers, InsertFreedBlock(t)
  PROVE  HeapInv'
<1> DEFINE x == freeing[t]
<1>1. /\ walk = "none" /\ x # NULL
      /\ xFreeBytesRemaining' = xFreeBytesRemaining + xBlockSize[x]
      /\ walk' = "free" /\ position' = xStart
      /\ pxBlockToInsert' = x /\ freeing' = [freeing EXCEPT ![t] = NULL]
      /\ UNCHANGED <<ucHeap, links, xMinimumEverFreeBytesRemaining, allocated, xWantedSize,
                     asked>>
  BY DEF InsertFreedBlock
<1>2. Initialised /\ pxBlockToInsert = NULL
  BY <1>1 DEF HeapInv, NotYetInv
<1>3. HeapTypeOK /\ OwnersInv /\ CountInv
  BY <1>2 DEF HeapInv
<1>4. /\ freeing'[t] = NULL
      /\ \A u \in Callers : u # t => freeing'[u] = freeing[u]
  BY <1>1, <1>3 DEF HeapTypeOK
<1>5. Freed' = Freed /\ x \in Freed
  <2>1. x \in Freed
    BY <1>1 DEF Freed
  <2>2. Freed' \subseteq Freed
    BY <1>1, <1>4, <2>1 DEF Freed
  <2>3. Freed \subseteq Freed'
    BY <1>1, <1>2, <1>4 DEF Freed
  <2> QED
    BY <2>1, <2>2, <2>3
<1>6. Owned' = Owned /\ Blocks' = Blocks
  BY <1>1, <1>5, SameHeap DEF Owned, Blocks, Free, Initialised, links
<1>7. /\ Free' = Free /\ Initialised'
      /\ Tiles(Blocks, xBlockSize, uxStartAddress, uxEndAddress)' /\ LinksInv'
      /\ BytesOf(Free, xBlockSize)' = BytesOf(Free, xBlockSize)
  BY <1>1, <1>2, <1>6, SameBlocks
<1>8. x \in Blocks /\ x \notin Free /\ Free \in SUBSET Blocks
  BY <1>3, <1>5 DEF Blocks, OwnersInv, BlocksHaveOneOwner
<1>9. /\ ucHeap \in HeapAddresses /\ pxEnd = uxEndAddress /\ pxEnd \in Int
      /\ uxStartAddress \in Int /\ x \in Int /\ uxStartAddress <= x /\ xStart < x
      /\ x \in Addresses /\ xBlockSize[x] \in Nat \ {0} /\ x + xBlockSize[x] <= pxEnd
      /\ \A b \in Free : /\ b \in Int /\ xBlockSize[b] \in Nat
                         /\ b + xBlockSize[b] <= x \/ x + xBlockSize[x] <= b
  <2>1. \A b \in Free : b < x \/ x < b
    BY <1>2, <1>8, HeapFacts
  <2> QED
    BY <1>2, <1>8, <2>1, HeapFacts
<1>10. OwnersInv'
  <2>1. BlocksHaveOneOwner'
    BY <1>1, <1>3, <1>4, <1>5, <1>6, <1>7 DEF OwnersInv, BlocksHaveOneOwner
  <2>2. \A u \in Callers : freeing'[u] = NULL \/ freeing'[u] # x
    BY <1>1, <1>3, <1>4 DEF OwnersInv, BlocksHaveOneOwner
  <2>3. \A n \in allocated' :
          /\ n.asked \in Requests \union {r[1] * r[2] : r \in CallocRequests}
          /\ n.asked > 0 /\ n.asked + xHeapStructSize <= xBlockSize'[n.block]
    BY <1>1, <1>3 DEF OwnersInv, links
  <2> QED
    BY <1>1, <2>1, <2>2, <2>3 DEF OwnersInv
<1>11. PICK bytes : bytes = BytesOf(Free, xBlockSize)
  OBVIOUS
<1>12. Tiles(Blocks, xBlockSize, uxStartAddress, pxEnd)
  BY <1>2, <1>9 DEF HeapInv
<1>13. /\ IsFiniteSet(bytes) /\ bytes \subseteq uxStartAddress..(pxEnd - 1)
       /\ Cardinality(bytes) \in Nat
       /\ \A a \in Int : a \in bytes => \E b \in Free : b <= a /\ a < b + xBlockSize[b]
  BY <1>8, <1>9, <1>11, <1>12, BytesFacts
<1>14. xFreeBytesRemaining = Cardinality(bytes)
  BY <1>1, <1>3, <1>11, <1>13 DEF CountInv, InsertedSize
<1>15. xFreeBytesRemaining' \in 0..configTOTAL_HEAP_SIZE
  <2>1. PICK n \in Nat : n = xBlockSize[x]
    BY <1>9
  <2>2. \A a \in bytes : a \in Int /\ (a < x \/ x + n <= a)
    BY <1>9, <1>13, <2>1
  <2>3. Cardinality(bytes \union (x..(x + n - 1))) = Cardinality(bytes) + n
    BY <1>9, <1>13, <2>2, BytesAdded
  <2>4. PICK all : all = uxStartAddress..(pxEnd - 1)
    OBVIOUS
  <2>5. IsFiniteSet(all) /\ Cardinality(all) = pxEnd - uxStartAddress
    <3>1. PICK f \in Int, l \in Int : f = uxStartAddress /\ l = pxEnd - 1 /\ f <= l
      BY <1>9
    <3>2. IsFiniteSet(f..l) /\ Cardinality(f..l) = l - f + 1
      BY <3>1, FS_Interval
    <3> QED
      BY <1>9, <2>4, <3>1, <3>2
  <2>6. bytes \union (x..(x + n - 1)) \subseteq all
    <3>1. \A a \in x..(x + n - 1) : a \in uxStartAddress..(pxEnd - 1)
      BY <1>9, <2>1
    <3> QED
      BY <1>13, <2>4, <3>1
  <2>7. Cardinality(bytes) + n <= pxEnd - uxStartAddress
    BY <2>3, <2>5, <2>6, FS_Subset
  <2>8. pxEnd - uxStartAddress <= configTOTAL_HEAP_SIZE
    BY <1>9, HeapBounds, ConstantsFacts
  <2> QED
    BY <1>1, <1>9, <1>13, <1>14, <2>1, <2>7, <2>8, ConstantsFacts
<1>16. CountInv'
  <2>1. xBlockSize' = xBlockSize
    BY <1>1 DEF links
  <2>2. xFreeBytesRemaining' = Cardinality(BytesOf(Free, xBlockSize))' + xBlockSize'[x]
    BY <1>1, <1>7, <1>11, <1>14, <2>1
  <2>3. xMinimumEverFreeBytesRemaining' <= xFreeBytesRemaining'
    BY <1>1, <1>3, <1>9 DEF CountInv, HeapTypeOK
  <2> QED
    BY <1>1, <2>2, <2>3 DEF CountInv, InsertedSize
<1>17. WalkInv'
  BY <1>1, <1>9 DEF WalkInv
<1>18. HeapTypeOK'
  <2>1. xStart \in Headers
    BY <1>9, AddressFacts
  <2> QED
    BY <1>1, <1>3, <1>9, <1>15, <2>1, SameHeap DEF HeapTypeOK, links
<1> QED
  BY <1>1, <1>7, <1>10, <1>16, <1>17, <1>18 DEF HeapInv, NotYetInv

LEMMA ResetMinimumInv ==
  ASSUME HeapInv, xPortResetHeapMinimumEverFreeHeapSize
  PROVE  HeapInv'
<1>1. /\ walk = "none" /\ xMinimumEverFreeBytesRemaining' = xFreeBytesRemaining
      /\ UNCHANGED <<ucHeap, links, xFreeBytesRemaining, allocated, freeing, walkVars>>
  BY DEF xPortResetHeapMinimumEverFreeHeapSize
<1>2. HeapTypeOK'
  BY <1>1, SameHeap DEF HeapInv, HeapTypeOK, links, walkVars
<1>3. CASE ~ Initialised
  BY <1>1, <1>2, <1>3 DEF HeapInv, NotYetInv, Initialised, links, walkVars
<1>4. CASE Initialised
  <2>1. Owned' = Owned /\ Freed' = Freed
    BY <1>1 DEF Owned, Freed, walkVars
  <2>2. Blocks' = Blocks
    BY <1>1, <2>1, SameHeap DEF Blocks, Free, Initialised, links
  <2>3. /\ Free' = Free /\ Initialised'
        /\ Tiles(Blocks, xBlockSize, uxStartAddress, uxEndAddress)' /\ LinksInv'
        /\ BytesOf(Free, xBlockSize)' = BytesOf(Free, xBlockSize)
    BY <1>1, <1>4, <2>2, SameBlocks
  <2>4. OwnersInv'
    BY <1>1, <1>4, <2>1, <2>3
       DEF HeapInv, OwnersInv, BlocksHaveOneOwner, links, walkVars
  <2>5. CountInv'
    BY <1>1, <1>2, <1>4, <2>3
       DEF HeapInv, HeapTypeOK, CountInv, InsertedSize, links, walkVars
  <2>6. WalkInv'
    BY <1>1 DEF WalkInv, walkVars
  <2>7. walk' # "free" => pxBlockToInsert' = NULL
    BY <1>1 DEF HeapInv, walkVars
  <2> QED
    BY <1>2, <2>3, <2>4, <2>5, <2>6, <2>7 DEF HeapInv, NotYetInv
<1> QED
  BY <1>3, <1>4

LEMMA ResetStateInv ==
  ASSUME HeapInv, vPortHeapResetState
  PROVE  HeapInv'
<1>1. /\ walk = "none" /\ \A t \in Callers : freeing[t] = NULL
      /\ pxEnd' = NULL /\ allocated' = {}
      /\ xFreeBytesRemaining' = 0 /\ xMinimumEverFreeBytesRemaining' = 0
      /\ UNCHANGED <<ucHeap, pxNextFreeBlock, xBlockSize, freeing, walkVars>>
  BY DEF vPortHeapResetState
<1>2. HeapTypeOK'
  BY <1>1, SameHeap, ConstantsFacts DEF HeapInv, HeapTypeOK, walkVars
<1> QED
  BY <1>1, <1>2 DEF HeapInv, NotYetInv, Initialised, walkVars

(* The size of the block for a request is the least that will do.           *)
LEMMA WantedFacts ==
  ASSUME NEW request \in Nat
  PROVE  /\ WantedSize(request) \in Nat
         /\ WantedSize(request) > 0 =>
              /\ request > 0 /\ request + xHeapStructSize <= WantedSize(request)
              /\ WantedSize(request) % portBYTE_ALIGNMENT = 0
              /\ \A b \in Int : b % portBYTE_ALIGNMENT = 0 /\ request + xHeapStructSize <= b
                                  => WantedSize(request) <= b
<1>1. PICK size \in Nat : size = request + xHeapStructSize
  BY ConstantsFacts
<1>2. PICK missing \in Nat :
        /\ missing = (-size) % portBYTE_ALIGNMENT
        /\ (size + missing) % portBYTE_ALIGNMENT = 0
        /\ \A b \in Int : b % portBYTE_ALIGNMENT = 0 /\ size <= b => size + missing <= b
  <2>1. size \in Int /\ portBYTE_ALIGNMENT \in Nat \ {0}
    BY ConstantsFacts
  <2>2. /\ (size + ((-size) % portBYTE_ALIGNMENT)) % portBYTE_ALIGNMENT = 0
        /\ (-size) % portBYTE_ALIGNMENT \in 0..(portBYTE_ALIGNMENT - 1)
        /\ \A b \in Int : b % portBYTE_ALIGNMENT = 0 /\ size <= b
                            => size + ((-size) % portBYTE_ALIGNMENT) <= b
    BY <2>1, RoundUp, Zenon
  <2>3. PICK missing : missing = (-size) % portBYTE_ALIGNMENT
    OBVIOUS
  <2>4. missing \in Nat
    BY <2>1, <2>2, <2>3
  <2> QED
    BY <2>2, <2>3, <2>4, Zenon
<1>3. \/ WantedSize(request) = 0
      \/ WantedSize(request) = size + missing /\ request # 0
  BY <1>1, <1>2 DEF WantedSize
<1> QED
  BY <1>1, <1>2, <1>3

(* Before the first allocation the heap is laid out as one free block.      *)
LEMMA LaidOut ==
  ASSUME HeapInv, walk = "none", pxEnd = NULL, prvHeapInit,
         UNCHANGED <<ucHeap, allocated, freeing, pxBlockToInsert>>
  PROVE  /\ Initialised' /\ pxEnd' = uxEndAddress'
         /\ pxNextFreeBlock' \in [Headers' -> Addresses' \union {NULL}]
         /\ xBlockSize' \in [Headers' -> 0..configTOTAL_HEAP_SIZE]
         /\ xFreeBytesRemaining' \in 0..configTOTAL_HEAP_SIZE
         /\ xMinimumEverFreeBytesRemaining' = xFreeBytesRemaining'
         /\ xFreeBytesRemaining' = Cardinality(BytesOf(Free, xBlockSize))'
         /\ Tiles(Blocks, xBlockSize, uxStartAddress, uxEndAddress)'
         /\ OwnersInv' /\ LinksInv'
<1> DEFINE s == uxStartAddress
           e == uxEndAddress
<1>1. /\ ucHeap \in HeapAddresses /\ allocated = {} /\ pxBlockToInsert = NULL
      /\ \A t \in Callers : freeing[t] = NULL
  BY DEF HeapInv, HeapTypeOK, NotYetInv, Initialised
<1>2. /\ s \in Int /\ e \in Int /\ s < e /\ s \in Addresses /\ e \in Addresses
      /\ s # e /\ xStart < s /\ xStart \in Int /\ e - s \in Nat \ {0} /\ NULL # e
      /\ s % portBYTE_ALIGNMENT = 0 /\ (e - s) % portBYTE_ALIGNMENT = 0
      /\ e - s \in 0..configTOTAL_HEAP_SIZE /\ xStart \notin Addresses
  <2>1. /\ ucHeap \in Nat \ {0} /\ s \in Int /\ e \in Int /\ ucHeap <= s /\ s < e
        /\ s % portBYTE_ALIGNMENT = 0 /\ (e - s) % portBYTE_ALIGNMENT = 0
        /\ e + xHeapStructSize <= ucHeap + configTOTAL_HEAP_SIZE
    BY <1>1, HeapBounds
  <2>2. s \in Addresses /\ e \in Addresses /\ xStart \notin Addresses /\ xStart = -1
    BY <1>1, <2>1, AddressFacts
  <2>3. e - s \in 0..configTOTAL_HEAP_SIZE
    BY <2>1, ConstantsFacts
  <2> QED
    BY <2>1, <2>2, <2>3, ConstantsFacts
<1>3. /\ uxStartAddress' = s /\ uxEndAddress' = e /\ Addresses' = Addresses
      /\ Headers' = Headers
  BY SameHeap
<1>4. /\ Headers = Addresses \union {xStart} /\ xStart # s /\ s \in Headers /\ e \in Headers
      /\ xStart \in Headers
  BY <1>1, <1>2, AddressFacts
<1>5. /\ pxEnd' = e /\ Initialised'
      /\ \A a \in Headers : pxNextFreeBlock'[a] = IF a = xStart THEN s
                                                  ELSE IF a = s THEN e ELSE NULL
      /\ \A a \in Headers : xBlockSize'[a] = IF a = s THEN e - s ELSE 0
      /\ xFreeBytesRemaining' = e - s /\ xMinimumEverFreeBytesRemaining' = e - s
  BY <1>2 DEF prvHeapInit, Initialised
<1>6. /\ pxNextFreeBlock' \in [Headers -> Addresses \union {NULL}]
      /\ xBlockSize' \in [Headers -> 0..configTOTAL_HEAP_SIZE]
  BY <1>2, ConstantsFacts DEF prvHeapInit
<1>7. /\ pxNextFreeBlock'[xStart] = s /\ pxNextFreeBlock'[s] = e
      /\ \A a \in Addresses : a # s => pxNextFreeBlock'[a] = NULL
      /\ xBlockSize'[s] = e - s /\ xBlockSize'[xStart] = 0 /\ xBlockSize'[e] = 0
  BY <1>2, <1>4, <1>5
<1>8. Free' = {s} /\ Owned' = {} /\ Freed' = {}
  <2>1. Free' = {s}
    BY <1>2, <1>3, <1>5, <1>7 DEF Free
  <2> QED
    BY <1>1, <2>1 DEF Owned, Freed
<1>9. Blocks' = {s}
  BY <1>8 DEF Blocks
<1>10. Tiles(Blocks, xBlockSize, uxStartAddress, uxEndAddress)'
  BY <1>2, <1>3, <1>7, <1>9 DEF Tiles
<1>11. OwnersInv'
  BY <1>1, <1>8 DEF OwnersInv, BlocksHaveOneOwner
<1>12. LinksInv'
  <2>1. Linked(Free, pxNextFreeBlock, pxEnd)'
    BY <1>2, <1>5, <1>7, <1>8 DEF Linked
  <2>2. Merged(Free, xBlockSize)'
    BY <1>2, <1>7, <1>8 DEF Merged
  <2> QED
    BY <1>2, <1>5, <1>7, <2>1, <2>2 DEF LinksInv
<1>13. Cardinality(BytesOf(Free, xBlockSize))' = e - s
  <2>1. BytesOf(Free, xBlockSize)' = s..(s + (e - s) - 1)
    BY <1>7, <1>8 DEF BytesOf
  <2>2. s + (e - s) - 1 = e - 1
    BY <1>2
  <2>3. PICK l \in Int : l = e - 1 /\ s <= l
    BY <1>2
  <2>4. Cardinality(s..l) = l - s + 1
    BY <1>2, <2>3, FS_Interval
  <2> QED
    BY <1>2, <2>1, <2>2, <2>3, <2>4
<1> QED
  BY <1>2, <1>3, <1>5, <1>6, <1>10, <1>11, <1>12, <1>13

LEMMA MallocInv ==
  ASSUME HeapInv, NEW request \in 0..SIZE_MAX,
         request \in Requests \union {r[1] * r[2] : r \in CallocRequests},
         Malloc(request, request)
  PROVE  HeapInv'
<1>1. /\ walk = "none"
      /\ IF IsSearched(WantedSize(request), xFreeBytesRemaining')
         THEN /\ walk' = "malloc" /\ position' = xStart
              /\ xWantedSize' = WantedSize(request) /\ asked' = request
         ELSE UNCHANGED <<walk, position, xWantedSize, asked>>
      /\ UNCHANGED <<ucHeap, allocated, freeing, pxBlockToInsert>>
  BY DEF Malloc
<1>2. HeapTypeOK
  BY DEF HeapInv
<1>3. pxBlockToInsert = NULL
  BY <1>1 DEF HeapInv
<1>4. /\ uxEndAddress' = uxEndAddress /\ Addresses' = Addresses /\ Headers' = Headers
  BY <1>1, SameHeap
<1>5. /\ Initialised' /\ pxEnd' = uxEndAddress'
      /\ pxNextFreeBlock' \in [Headers' -> Addresses' \union {NULL}]
      /\ xBlockSize' \in [Headers' -> 0..configTOTAL_HEAP_SIZE]
      /\ xFreeBytesRemaining' \in 0..configTOTAL_HEAP_SIZE
      /\ xMinimumEverFreeBytesRemaining' \in 0..configTOTAL_HEAP_SIZE
      /\ xMinimumEverFreeBytesRemaining' <= xFreeBytesRemaining'
      /\ xFreeBytesRemaining' = Cardinality(BytesOf(Free, xBlockSize))'
      /\ Tiles(Blocks, xBlockSize, uxStartAddress, uxEndAddress)'
      /\ OwnersInv' /\ LinksInv'
  <2>1. CASE pxEnd = NULL
    <3>1. prvHeapInit
      BY <2>1 DEF Malloc
    <3>2. PICK n \in 0..configTOTAL_HEAP_SIZE : n = xFreeBytesRemaining'
      BY <1>1, <2>1, <3>1, LaidOut
    <3> QED
      BY <1>1, <2>1, <3>1, <3>2, LaidOut
  <2>2. CASE pxEnd # NULL
    <3>1. UNCHANGED <<links, counters>> /\ Initialised
      BY <2>2 DEF Malloc, Initialised
    <3>2. Owned' = Owned /\ Freed' = Freed
      BY <1>1 DEF Owned, Freed
    <3>3. Blocks' = Blocks
      BY <1>1, <3>1, <3>2, SameHeap DEF Blocks, Free, Initialised, links
    <3>4. /\ Free' = Free /\ Initialised'
          /\ Tiles(Blocks, xBlockSize, uxStartAddress, uxEndAddress)' /\ LinksInv'
          /\ BytesOf(Free, xBlockSize)' = BytesOf(Free, xBlockSize)
      BY <1>1, <3>1, <3>3, SameBlocks
    <3>5. OwnersInv'
      BY <1>1, <3>1, <3>2, <3>4 DEF HeapInv, OwnersInv, BlocksHaveOneOwner, links
    <3>6. /\ xFreeBytesRemaining' = Cardinality(BytesOf(Free, xBlockSize))'
          /\ xMinimumEverFreeBytesRemaining' <= xFreeBytesRemaining'
      <4>1. CountInv
        BY <3>1 DEF HeapInv
      <4>2. xFreeBytesRemaining = Cardinality(BytesOf(Free, xBlockSize)) + 0
        BY <1>1, <4>1 DEF CountInv, InsertedSize
      <4>3. IsFiniteSet(BytesOf(Free, xBlockSize))
        <5>1. Tiles(Blocks, xBlockSize, uxStartAddress, uxEndAddress)
          BY <3>1 DEF HeapInv
        <5>2. Free \in SUBSET Blocks /\ uxStartAddress \in Int /\ uxEndAddress \in Int
          BY <1>2, HeapBounds DEF HeapTypeOK, Blocks
        <5> QED
          BY <5>1, <5>2, BytesFacts
      <4>4. Cardinality(BytesOf(Free, xBlockSize)) \in Nat
        BY <4>3, FS_CardinalityType
      <4> QED
        BY <3>1, <3>4, <4>1, <4>2, <4>4 DEF CountInv, counters
    <3> QED
      BY <1>2, <1>4, <2>2, <3>1, <3>4, <3>5, <3>6 DEF HeapTypeOK, links, counters
  <2> QED
    BY <2>1, <2>2
<1>6. CASE IsSearched(WantedSize(request), xFreeBytesRemaining')
  <2>1. /\ walk' = "malloc" /\ position' = xStart
        /\ xWantedSize' = WantedSize(request) /\ asked' = request
    BY <1>1, <1>6
  <2>2. /\ WantedSize(request) \in Nat /\ WantedSize(request) > 0 /\ request > 0
        /\ WantedSize(request) <= xFreeBytesRemaining'
    BY <1>6, WantedFacts DEF IsSearched
  <2>3. WantedSize(request) \in 0..configTOTAL_HEAP_SIZE
    BY <1>5, <2>2, ConstantsFacts
  <2>4. xStart \in Headers
    BY <1>2, AddressFacts DEF HeapTypeOK
  <2>5. HeapTypeOK'
    BY <1>1, <1>2, <1>4, <1>5, <2>1, <2>3, <2>4 DEF HeapTypeOK
  <2>6. CountInv'
    <3>1. InsertedSize' = 0
      BY <2>1 DEF InsertedSize
    <3>2. PICK n \in Int : n = xFreeBytesRemaining'
      BY <1>5
    <3> QED
      BY <1>5, <3>1, <3>2 DEF CountInv
  <2>7. WalkInv'
    <3>1. \A b \in Addresses : ~ (b <= xStart)
      BY <1>2, AddressFacts DEF HeapTypeOK
    <3>2. Free' \subseteq Addresses
      BY <1>4 DEF Free
    <3>3. WantedSize(asked)' = WantedSize(request)
      BY <2>1 DEF WantedSize, heapADD_WILL_OVERFLOW
    <3>4. request \in 1..SIZE_MAX
      BY <2>2
    <3> QED
      BY <2>1, <2>2, <3>1, <3>2, <3>3, <3>4 DEF WalkInv
  <2> QED
    BY <1>1, <1>3, <1>5, <2>5, <2>6, <2>7 DEF HeapInv, NotYetInv
<1>7. CASE ~ IsSearched(WantedSize(request), xFreeBytesRemaining')
  <2>1. UNCHANGED <<walk, position, xWantedSize, asked>>
    BY <1>1, <1>7
  <2>2. HeapTypeOK'
    BY <1>1, <1>2, <1>4, <1>5, <2>1 DEF HeapTypeOK
  <2>3. CountInv'
    <3>1. InsertedSize' = 0
      BY <1>1, <2>1 DEF InsertedSize
    <3>2. PICK n \in Int : n = xFreeBytesRemaining'
      BY <1>5
    <3> QED
      BY <1>5, <3>1, <3>2 DEF CountInv
  <2>4. WalkInv'
    BY <1>1, <2>1 DEF WalkInv
  <2> QED
    BY <1>1, <1>3, <1>5, <2>1, <2>2, <2>3, <2>4 DEF HeapInv, NotYetInv
<1> QED
  BY <1>6, <1>7

LEMMA pvPortMallocInv ==
  ASSUME HeapInv, pvPortMalloc
  PROVE  HeapInv'
<1>1. PICK request \in Requests : Malloc(request, request)
  BY DEF pvPortMalloc
<1>2. request \in 0..SIZE_MAX
  BY HeapAssumption
<1> QED
  BY <1>1, <1>2, MallocInv

LEMMA pvPortCallocInv ==
  ASSUME HeapInv, pvPortCalloc
  PROVE  HeapInv'
<1>1. PICK r \in CallocRequests :
        /\ ~ heapMULTIPLY_WILL_OVERFLOW(r[1], r[2])
        /\ Malloc((r[1] * r[2]) % (SIZE_MAX + 1), r[1] * r[2])
  BY DEF pvPortCalloc
<1>2. r[1] \in Nat /\ r[2] \in Nat /\ SIZE_MAX \in Nat
  <2>1. CallocRequests \subseteq (0..SIZE_MAX) \X (0..SIZE_MAX)
    BY HeapAssumption
  <2> QED
    BY <2>1, ConstantsFacts
<1>3. PICK number \in 0..SIZE_MAX : number = r[1] * r[2]
  BY <1>1, <1>2, ProductFits DEF heapMULTIPLY_WILL_OVERFLOW
<1>4. number % (SIZE_MAX + 1) = number
  <2>1. PICK n \in Nat \ {0} : n = SIZE_MAX + 1 /\ number \in 0..(n - 1)
    BY <1>2
  <2> QED
    BY <2>1, NothingWraps
<1>5. number \in {q[1] * q[2] : q \in CallocRequests}
  BY <1>3
<1>6. Malloc(number, number)
  BY <1>1, <1>3, <1>4
<1> QED
  BY <1>5, <1>6, MallocInv

(* The block that pvPortMalloc takes is free and has the wanted size.       *)
LEMMA TakeFacts ==
  ASSUME HeapInv, Take
  PROVE  /\ Initialised /\ pxBlockToInsert = NULL
         /\ position \in Free \union {xStart} /\ pxBlock \in Free /\ position < pxBlock
         /\ pxNextFreeBlock[position] = pxBlock
         /\ xWantedSize \in Nat \ {0} /\ xWantedSize <= xBlockSize[pxBlock]
         /\ xWantedSize % portBYTE_ALIGNMENT = 0 /\ asked + xHeapStructSize <= xWantedSize
         /\ asked \in Requests \union {r[1] * r[2] : r \in CallocRequests}
         /\ asked \in Nat \ {0}
         /\ Owned' = Owned \union {pxBlock} /\ Freed' = Freed
         /\ UNCHANGED <<ucHeap, pxEnd, freeing>> /\ Initialised'
<1>1. /\ walk = "malloc" /\ ~ TooSmall /\ pxBlock # pxEnd
      /\ UNCHANGED <<ucHeap, pxEnd, freeing>> /\ pxBlockToInsert' = NULL
      /\ allocated' = allocated \union {[block |-> pxBlock, asked |-> asked]}
  BY DEF Take, EndOfWalk
<1>2. Initialised /\ pxBlockToInsert = NULL /\ WalkInv
  BY <1>1 DEF HeapInv, NotYetInv
<1>3. /\ position \in Free \union {xStart}
      /\ asked \in Requests \union {r[1] * r[2] : r \in CallocRequests}
      /\ asked \in 1..SIZE_MAX /\ xWantedSize = WantedSize(asked) /\ xWantedSize > 0
  BY <1>1, <1>2 DEF WalkInv
<1>4. pxBlock \in Free /\ position < pxBlock /\ pxNextFreeBlock[position] = pxBlock
  BY <1>1, <1>2, <1>3, HeapFacts DEF pxBlock
<1>5. xWantedSize <= xBlockSize[pxBlock] /\ xBlockSize[pxBlock] \in Nat
  <2>1. pxNextFreeBlock[pxBlock] # NULL /\ xBlockSize[pxBlock] \in Nat
    BY <1>2, <1>4, HeapFacts
  <2>2. ~ (xBlockSize[pxBlock] < xWantedSize)
    BY <1>1, <2>1 DEF TooSmall
  <2>3. xWantedSize \in Nat
    BY ConstantsFacts DEF HeapInv, HeapTypeOK
  <2> QED
    BY <2>1, <2>2, <2>3
<1>6. PICK w \in Nat :
        /\ w = xWantedSize /\ w % portBYTE_ALIGNMENT = 0 /\ asked + xHeapStructSize <= w
  BY <1>3, WantedFacts, ConstantsFacts
<1>7. Owned' = Owned \union {pxBlock} /\ Freed' = Freed
  <2>1. PICK m : m = [block |-> pxBlock, asked |-> asked]
    OBVIOUS
  <2>2. m.block = pxBlock /\ allocated' = allocated \union {m}
    BY <1>1, <2>1
  <2>3. Owned' = Owned \union {pxBlock}
    BY <2>2 DEF Owned
  <2>4. Freed' = Freed
    BY <1>1, <1>2 DEF Freed
  <2> QED
    BY <2>3, <2>4
<1>8. Initialised'
  BY <1>1, <1>2 DEF Initialised
<1> QED
  BY <1>1, <1>2, <1>3, <1>4, <1>5, <1>6, <1>7, <1>8, ConstantsFacts

(* The bytes that are taken, from block b, are the difference between the   *)
(* free bytes before and after.                                             *)
TakenFrom(b) ==
  /\ pxNextFreeBlock' \in [Headers -> Addresses \union {NULL}]
  /\ xBlockSize' \in [Headers -> 0..configTOTAL_HEAP_SIZE]
  /\ Free' \intersect (Owned \union Freed \union {b}) = {}
  /\ Tiles(Blocks, xBlockSize, uxStartAddress, uxEndAddress)'
  /\ LinksInv'
  /\ xBlockSize'[b] \in Nat /\ xWantedSize <= xBlockSize'[b]
  /\ \A c \in Owned : xBlockSize'[c] = xBlockSize[c]
  /\ BytesOf(Free, xBlockSize) = BytesOf(Free, xBlockSize)' \union (b..(b + xBlockSize'[b] - 1))
  /\ \A a \in BytesOf(Free, xBlockSize)' : a \in Int /\ (a < b \/ b + xBlockSize'[b] <= a)

LEMMA TakeWhole ==
  ASSUME HeapInv, Take, ~ IsSplit
  PROVE  TakenFrom(pxBlock)
<1>1. PICK p, b, w : p = position /\ b = pxBlock /\ w = xWantedSize
  OBVIOUS
<1>2. /\ Initialised /\ p \in Free \union {xStart} /\ b \in Free /\ p < b
      /\ pxNextFreeBlock[p] = b /\ w \in Nat \ {0} /\ w <= xBlockSize[b]
      /\ Owned' = Owned \union {b} /\ Freed' = Freed
      /\ UNCHANGED <<ucHeap, pxEnd>> /\ Initialised'
  BY <1>1, TakeFacts
<1>3. HeapTypeOK /\ LinksInv /\ BlocksHaveOneOwner
  BY <1>2 DEF HeapInv, OwnersInv
<1>4. /\ uxStartAddress' = uxStartAddress /\ uxEndAddress' = uxEndAddress
      /\ Addresses' = Addresses /\ Headers' = Headers
  BY <1>2, SameHeap
<1>5. /\ Headers = Addresses \union {xStart} /\ xStart \notin Addresses
  BY <1>3, AddressFacts DEF HeapTypeOK
<1>6. /\ xBlockSize' = xBlockSize
      /\ pxNextFreeBlock' = [a \in Headers |->
           IF a = p THEN pxNextFreeBlock[b] ELSE IF a = b THEN NULL ELSE pxNextFreeBlock[a]]
  BY <1>1 DEF Take, SizesAfterTake
<1>7. /\ b \in Addresses /\ b # p /\ b # xStart /\ b # pxEnd /\ p # pxEnd
      /\ pxEnd \in Addresses /\ pxEnd # xStart
      /\ pxNextFreeBlock[b] \in Free \union {pxEnd} /\ pxNextFreeBlock[b] \in Addresses
      /\ pxNextFreeBlock[b] # NULL /\ p \in Headers
  <2>1. b # p /\ p # pxEnd
    BY <1>2, HeapFacts
  <2> QED
    BY <1>2, <1>3, <1>5, <2>1, HeapFacts DEF HeapTypeOK
<1>8. /\ pxNextFreeBlock'[p] = pxNextFreeBlock[b] /\ pxNextFreeBlock'[b] = NULL
      /\ \A a \in Headers \ {p, b} : pxNextFreeBlock'[a] = pxNextFreeBlock[a]
      /\ pxNextFreeBlock' \in [Headers -> Addresses \union {NULL}]
  BY <1>3, <1>5, <1>6, <1>7 DEF HeapTypeOK
<1>9. Free' = Free \ {b}
  <2>1. ASSUME NEW a \in Addresses
        PROVE  a \in Free' <=> a \in Free \ {b}
    <3>1. a \in Free' <=> pxNextFreeBlock'[a] # NULL
      BY <1>2, <1>4 DEF Free
    <3>2. a \in Free <=> pxNextFreeBlock[a] # NULL
      BY <1>2 DEF Free
    <3>3. CASE a = p
      BY <1>2, <1>5, <1>7, <1>8, <3>1, <3>2, <3>3
    <3>4. CASE a = b
      BY <1>8, <3>1, <3>4
    <3>5. CASE a # p /\ a # b
      BY <1>5, <1>8, <3>1, <3>2, <3>5
    <3> QED
      BY <3>3, <3>4, <3>5
  <2>2. Free' \subseteq Addresses /\ Free \subseteq Addresses
    BY <1>4 DEF Free
  <2> QED
    BY <2>1, <2>2
<1>10. Blocks' = Blocks
  BY <1>2, <1>9 DEF Blocks
<1>11. Tiles(Blocks, xBlockSize, uxStartAddress, uxEndAddress)'
  BY <1>2, <1>4, <1>6, <1>10 DEF HeapInv, Tiles
<1>12. LinksInv'
  <2>1. Linked(Free \ {b}, pxNextFreeBlock', pxEnd)
    <3>1. /\ Free \in SUBSET Int /\ pxEnd \in Int /\ xStart < pxEnd
          /\ \A q \in Free : xStart < q /\ q < pxEnd
      BY <1>2, HeapFacts
    <3>2. Linked(Free, pxNextFreeBlock, pxEnd)
      BY <1>3 DEF LinksInv
    <3>3. \A q \in (Free \ {b}) \union {xStart} : q # p => pxNextFreeBlock'[q] = pxNextFreeBlock[q]
      BY <1>5, <1>7, <1>8 DEF Free
    <3> QED
      BY <1>2, <1>8, <3>1, <3>2, <3>3, LinkedWithout
  <2>2. Linked(Free, pxNextFreeBlock, pxEnd)'
    BY <1>2, <1>9, <2>1 DEF Linked
  <2>3. Merged(Free, xBlockSize)'
    BY <1>3, <1>6, <1>9 DEF LinksInv, Merged
  <2>4. pxNextFreeBlock'[pxEnd] = NULL
    BY <1>3, <1>5, <1>7, <1>8 DEF LinksInv
  <2> QED
    BY <1>2, <1>3, <1>6, <2>2, <2>3, <2>4 DEF LinksInv
<1>13. BytesOf(Free, xBlockSize) = BytesOf(Free, xBlockSize)' \union (b..(b + xBlockSize'[b] - 1))
  BY <1>2, <1>6, <1>9 DEF BytesOf
<1>14. ASSUME NEW a \in BytesOf(Free, xBlockSize)'
       PROVE  a \in Int /\ (a < b \/ b + xBlockSize'[b] <= a)
  <2>1. PICK c \in Free \ {b} : a \in c..(c + xBlockSize[c] - 1)
    BY <1>6, <1>9, <1>14 DEF BytesOf
  <2>2. /\ c \in Int /\ b \in Int /\ xBlockSize[c] \in Nat /\ xBlockSize[b] \in Nat
        /\ c < b => c + xBlockSize[c] <= b
        /\ b < c => b + xBlockSize[b] <= c
    BY <1>2, HeapFacts
  <2> QED
    BY <1>6, <2>1, <2>2
<1>15. xBlockSize'[b] \in Nat
  BY <1>2, <1>6, HeapFacts
<1>16. Free' \intersect (Owned \union Freed \union {b}) = {}
  BY <1>3, <1>9 DEF BlocksHaveOneOwner
<1>17. xBlockSize' \in [Headers -> 0..configTOTAL_HEAP_SIZE]
  BY <1>3, <1>6 DEF HeapTypeOK
<1> QED
  BY <1>1, <1>2, <1>6, <1>8, <1>11, <1>12, <1>13, <1>14, <1>15, <1>16, <1>17 DEF TakenFrom

LEMMA TakePart ==
  ASSUME HeapInv, Take, IsSplit
  PROVE  TakenFrom(pxBlock)
<1>1. PICK p, b, w, n, new :
        /\ p = position /\ b = pxBlock /\ w = xWantedSize /\ n = xBlockSize[b]
        /\ new = b + w
  OBVIOUS
<1>2. /\ Initialised /\ p \in Free \union {xStart} /\ b \in Free /\ p < b
      /\ pxNextFreeBlock[p] = b /\ w \in Nat \ {0} /\ w <= n
      /\ w % portBYTE_ALIGNMENT = 0
      /\ Owned' = Owned \union {b} /\ Freed' = Freed
      /\ UNCHANGED <<ucHeap, pxEnd>> /\ Initialised'
  BY <1>1, TakeFacts
<1>3. HeapTypeOK /\ LinksInv /\ BlocksHaveOneOwner
  BY <1>2 DEF HeapInv, OwnersInv
<1>4. /\ uxStartAddress' = uxStartAddress /\ uxEndAddress' = uxEndAddress
      /\ Addresses' = Addresses /\ Headers' = Headers
  BY <1>2, SameHeap
<1>5. /\ Headers = Addresses \union {xStart} /\ xStart \notin Addresses
      /\ \A a \in Int : uxStartAddress <= a /\ a <= uxEndAddress => a \in Addresses
  BY <1>3, AddressFacts DEF HeapTypeOK
<1>6. /\ \A c \in Blocks :
           /\ c \in Int /\ uxStartAddress <= c /\ c < pxEnd /\ xStart < c
           /\ xBlockSize[c] \in Nat \ {0} /\ c + xBlockSize[c] <= pxEnd
      /\ \A c, d \in Blocks : c < d => c + xBlockSize[c] <= d
      /\ Free \subseteq Blocks /\ Owned \subseteq Blocks /\ Freed \subseteq Blocks
      /\ pxEnd = uxEndAddress /\ pxEnd \in Int /\ uxStartAddress \in Int
      /\ xStart < pxEnd /\ pxEnd \in Addresses /\ pxEnd \notin Blocks
      /\ Blocks \subseteq Addresses /\ xStart \in Int
  BY <1>2, HeapFacts
<1>7. b \in Int /\ n \in Nat /\ w < n /\ new \in Int /\ new < b + n /\ b < new
  <2>1. b \in Int /\ n \in Nat
    BY <1>1, <1>2, <1>6
  <2>2. n - w > 2 * xHeapStructSize
    BY <1>1 DEF IsSplit, heapMINIMUM_BLOCK_SIZE
  <2> QED
    BY <1>1, <1>2, <2>1, <2>2, ConstantsFacts
<1>8. new \in Addresses /\ new # pxEnd /\ new # xStart
  <2>1. b + n <= pxEnd /\ uxStartAddress <= b /\ xStart < b
    BY <1>1, <1>2, <1>6
  <2>2. new < pxEnd /\ uxStartAddress <= new /\ xStart < new
    BY <1>2, <1>6, <1>7, <2>1
  <2> QED
    BY <1>5, <1>6, <1>7, <2>2
<1>9. /\ b \in Addresses /\ b # p /\ b # xStart /\ b # pxEnd /\ p # pxEnd /\ new # b
      /\ new # p /\ p \in Headers /\ pxEnd # xStart /\ p \in Int
      /\ pxNextFreeBlock[b] \in Free \union {pxEnd} /\ pxNextFreeBlock[b] \in Addresses
      /\ pxNextFreeBlock[b] # NULL /\ pxNextFreeBlock[b] \in Int /\ b < pxNextFreeBlock[b]
  <2>1. b # p /\ p # pxEnd /\ p \in Int
    BY <1>2, <1>6
  <2>2. /\ pxNextFreeBlock[b] \in Free \union {pxEnd} /\ b < pxNextFreeBlock[b]
        /\ pxNextFreeBlock[b] \in Int
    BY <1>2, HeapFacts
  <2>3. pxNextFreeBlock[b] # NULL
    BY <2>2, ConstantsFacts
  <2> QED
    BY <1>2, <1>5, <1>6, <1>7, <2>1, <2>2, <2>3
<1>10. /\ xBlockSize' = [xBlockSize EXCEPT ![b] = w, ![new] = n - w]
       /\ pxNextFreeBlock' = [a \in Headers |->
            IF a = p THEN new ELSE IF a = b THEN NULL
            ELSE IF a = new THEN pxNextFreeBlock[b] ELSE pxNextFreeBlock[a]]
  <2>1. NewBlock = new
    BY <1>1 DEF NewBlock
  <2> QED
    BY <1>1, <2>1 DEF Take, SizesAfterTake
<1>11. /\ pxNextFreeBlock'[p] = new /\ pxNextFreeBlock'[b] = NULL
       /\ pxNextFreeBlock'[new] = pxNextFreeBlock[b]
       /\ \A a \in Headers \ {p, b, new} : pxNextFreeBlock'[a] = pxNextFreeBlock[a]
       /\ pxNextFreeBlock' \in [Headers -> Addresses \union {NULL}]
  BY <1>3, <1>5, <1>8, <1>9, <1>10 DEF HeapTypeOK
<1>12. /\ xBlockSize'[b] = w /\ xBlockSize'[new] = n - w
       /\ \A a \in Headers \ {b, new} : xBlockSize'[a] = xBlockSize[a]
       /\ xBlockSize' \in [Headers -> 0..configTOTAL_HEAP_SIZE]
  <2>1. xBlockSize \in [Headers -> 0..configTOTAL_HEAP_SIZE]
    BY <1>3 DEF HeapTypeOK
  <2>2. b \in Headers /\ new \in Headers
    BY <1>5, <1>8, <1>9
  <2>3. n \in 0..configTOTAL_HEAP_SIZE
    BY <1>1, <2>1, <2>2
  <2>4. w \in 0..configTOTAL_HEAP_SIZE /\ n - w \in 0..configTOTAL_HEAP_SIZE
    BY <1>2, <1>7, <2>3, ConstantsFacts
  <2> QED
    BY <1>9, <1>10, <2>1, <2>2, <2>4
<1>13. /\ Tiles(Blocks \union {new}, xBlockSize', uxStartAddress, uxEndAddress)
       /\ new \notin Blocks
  <2>1. Tiles(Blocks, xBlockSize, uxStartAddress, uxEndAddress)
    BY <1>2 DEF HeapInv
  <2>2. uxStartAddress \in Int /\ uxEndAddress \in Int /\ b \in Blocks
    BY <1>2, <1>6
  <2>3. \A c \in Blocks : c # new
    <3>1. \A c \in Blocks : c <= b \/ b + n <= c
      BY <1>1, <1>2, <1>6
    <3> QED
      BY <1>6, <1>7, <3>1
  <2>4. \A c \in Blocks \ {b} : xBlockSize'[c] = xBlockSize[c]
    BY <1>5, <1>6, <1>12, <2>3
  <2>5. /\ w \in Nat \ {0} /\ w < xBlockSize[b] /\ w % portBYTE_ALIGNMENT = 0
        /\ xBlockSize'[b] = w /\ xBlockSize'[b + w] = xBlockSize[b] - w
    BY <1>1, <1>2, <1>7, <1>12
  <2>6. Tiles(Blocks \union {b + w}, xBlockSize', uxStartAddress, uxEndAddress)
    BY <2>1, <2>2, <2>4, <2>5, TilesSplit
  <2> QED
    BY <1>1, <2>3, <2>6
<1>14. Free' = (Free \ {b}) \union {new}
  <2>1. ASSUME NEW a \in Addresses
        PROVE  a \in Free' <=> a \in (Free \ {b}) \union {new}
    <3>1. a \in Free' <=> pxNextFreeBlock'[a] # NULL
      BY <1>2, <1>4 DEF Free
    <3>2. a \in Free <=> pxNextFreeBlock[a] # NULL
      BY <1>2 DEF Free
    <3>3. CASE a = p
      <4>1. new # NULL
        BY <1>7, ConstantsFacts
      <4> QED
        BY <1>2, <1>5, <1>9, <1>11, <3>1, <3>2, <3>3, <4>1
    <3>4. CASE a = b
      BY <1>9, <1>11, <3>1, <3>4
    <3>5. CASE a = new
      BY <1>9, <1>11, <3>1, <3>5
    <3>6. CASE a # p /\ a # b /\ a # new
      BY <1>5, <1>11, <3>1, <3>2, <3>6
    <3> QED
      BY <3>3, <3>4, <3>5, <3>6
  <2>2. Free' \subseteq Addresses /\ Free \subseteq Addresses
    BY <1>4 DEF Free
  <2> QED
    BY <1>8, <2>1, <2>2
<1>15. Blocks' = Blocks \union {new}
  BY <1>2, <1>14 DEF Blocks
<1>16. Tiles(Blocks, xBlockSize, uxStartAddress, uxEndAddress)'
  BY <1>4, <1>13, <1>15 DEF Tiles
<1>17. LinksInv'
  <2>1. PICK mid : mid = [pxNextFreeBlock EXCEPT ![p] = pxNextFreeBlock[b]]
    OBVIOUS
  <2>2. /\ mid[p] = pxNextFreeBlock[b]
        /\ \A a \in Headers \ {p} : mid[a] = pxNextFreeBlock[a]
    BY <1>3, <1>9, <2>1 DEF HeapTypeOK
  <2>3. /\ Free \in SUBSET Int /\ pxEnd \in Int /\ xStart < pxEnd
        /\ \A q \in Free : xStart < q /\ q < pxEnd
        /\ Free \subseteq Headers /\ xStart \in Headers
    BY <1>5, <1>6
  <2>4. Linked(Free \ {b}, mid, pxEnd)
    <3>1. Linked(Free, pxNextFreeBlock, pxEnd)
      BY <1>3 DEF LinksInv
    <3>2. \A q \in (Free \ {b}) \union {xStart} : q # p => mid[q] = pxNextFreeBlock[q]
      BY <2>2, <2>3
    <3> QED
      BY <1>2, <2>2, <2>3, <3>1, <3>2, LinkedWithout
  <2>5. new < mid[p]
    <3>1. b + n <= pxNextFreeBlock[b]
      BY <1>1, <1>2, <1>6, <1>9
    <3> QED
      BY <1>7, <1>9, <2>2, <3>1
  <2>6. p < new
    BY <1>2, <1>7, <1>9
  <2>7. Linked((Free \ {b}) \union {new}, pxNextFreeBlock', pxEnd)
    <3>1. PICK F : F = Free \ {b}
      OBVIOUS
    <3>2. /\ F \in SUBSET Int /\ p \in F \union {xStart}
          /\ \A q \in F : xStart < q /\ q < pxEnd
      BY <1>2, <1>9, <2>3, <3>1
    <3>3. \A q \in F \union {xStart} : q # p => pxNextFreeBlock'[q] = mid[q]
      <4>1. \A q \in F \union {xStart} : q \in Headers /\ q # b /\ q # new
        BY <1>6, <1>8, <1>9, <1>13, <2>3, <3>1
      <4> QED
        BY <1>11, <2>2, <4>1
    <3>4. pxNextFreeBlock'[p] = new /\ pxNextFreeBlock'[new] = mid[p]
      BY <1>11, <2>2
    <3>5. Linked(F, mid, pxEnd)
      BY <2>4, <3>1
    <3>6. Linked(F \union {new}, pxNextFreeBlock', pxEnd)
      BY <1>7, <2>3, <2>5, <2>6, <3>2, <3>3, <3>4, <3>5, LinkedWith
    <3> QED
      BY <3>1, <3>6
  <2>8. Linked(Free, pxNextFreeBlock, pxEnd)'
    BY <1>2, <1>14, <2>7 DEF Linked
  <2>9. Merged(Free, xBlockSize)'
    <3>1. \A c, d \in Free : c + xBlockSize[c] # d
      BY <1>3 DEF LinksInv, Merged
    <3>2. \A c \in Free \ {b} : xBlockSize'[c] = xBlockSize[c]
      BY <1>6, <1>12, <1>13, <2>3
    <3>3. ASSUME NEW c \in Free', NEW d \in Free'
          PROVE  c + xBlockSize'[c] # d
      <4>1. CASE c \in Free \ {b} /\ d \in Free \ {b}
        BY <3>1, <3>2, <4>1
      <4>2. CASE c = new /\ d \in Free \ {b}
        <5>1. new + (n - w) = b + n
          BY <1>1, <1>2, <1>7
        <5> QED
          BY <1>1, <1>2, <1>12, <3>1, <4>2, <5>1
      <4>3. CASE c \in Free \ {b} /\ d = new
        <5>1. c \in Int /\ xBlockSize[c] \in Nat
          BY <1>6, <4>3
        <5>2. c + xBlockSize[c] <= b \/ b + n <= c
          BY <1>1, <1>2, <1>6, <1>7, <4>3, <5>1
        <5> QED
          BY <1>7, <3>2, <4>3, <5>1, <5>2
      <4>4. CASE c = new /\ d = new
        BY <1>2, <1>7, <1>12, <4>4
      <4> QED
        BY <1>14, <4>1, <4>2, <4>3, <4>4
    <3> QED
      BY <3>3 DEF Merged
  <2>10. /\ pxNextFreeBlock'[pxEnd] = NULL
         /\ xBlockSize'[xStart] = 0 /\ xBlockSize'[pxEnd] = 0
    BY <1>3, <1>5, <1>6, <1>8, <1>9, <1>11, <1>12 DEF LinksInv
  <2> QED
    BY <1>2, <2>8, <2>9, <2>10 DEF LinksInv
<1>18. BytesOf(Free, xBlockSize) = BytesOf(Free, xBlockSize)' \union (b..(b + xBlockSize'[b] - 1))
  <2>1. \A c \in Free \ {b} : xBlockSize'[c] = xBlockSize[c]
    BY <1>5, <1>6, <1>12, <1>13
  <2>2. b..(b + n - 1) = (b..(b + w - 1)) \union (new..(new + (n - w) - 1))
    BY <1>1, <1>2, <1>7
  <2>3. BytesOf(Free, xBlockSize) = BytesOf(Free \ {b}, xBlockSize) \union (b..(b + n - 1))
    <3>1. PICK F : F = Free \ {b} /\ Free = F \union {b}
      <4>1. Free = (Free \ {b}) \union {b}
        BY <1>2
      <4> QED
        BY <4>1, Zenon
    <3>2. BytesOf(F \union {b}, xBlockSize)
            = BytesOf(F, xBlockSize) \union (b..(b + xBlockSize[b] - 1))
      BY BytesOfMore
    <3> QED
      BY <1>1, <3>1, <3>2
  <2>4. BytesOf(Free, xBlockSize)'
          = BytesOf(Free \ {b}, xBlockSize) \union (new..(new + (n - w) - 1))
    <3>1. PICK F : F = Free \ {b} /\ Free' = F \union {new}
      BY <1>14
    <3>2. BytesOf(F \union {new}, xBlockSize')
            = BytesOf(F, xBlockSize') \union (new..(new + xBlockSize'[new] - 1))
      BY BytesOfMore
    <3>3. BytesOf(F, xBlockSize') = BytesOf(F, xBlockSize)
      BY <2>1, <3>1, BytesSame
    <3>4. BytesOf(Free, xBlockSize)' = BytesOf(F \union {new}, xBlockSize')
      BY <3>1 DEF BytesOf
    <3> QED
      BY <1>12, <3>1, <3>2, <3>3, <3>4
  <2>5. PICK X, Y, Z : /\ X = BytesOf(Free \ {b}, xBlockSize) /\ Y = b..(b + w - 1)
                       /\ Z = new..(new + (n - w) - 1)
    OBVIOUS
  <2> QED
    BY <1>12, <2>2, <2>3, <2>4, <2>5
<1>19. ASSUME NEW a \in BytesOf(Free, xBlockSize)'
       PROVE  a \in Int /\ (a < b \/ b + xBlockSize'[b] <= a)
  <2>1. PICK c \in Free' : a \in c..(c + xBlockSize'[c] - 1)
    BY <1>19 DEF BytesOf
  <2>2. CASE c = new
    BY <1>1, <1>2, <1>7, <1>12, <2>1, <2>2
  <2>3. CASE c \in Free \ {b}
    <3>1. /\ c \in Int /\ xBlockSize[c] \in Nat
          /\ c < b => c + xBlockSize[c] <= b
          /\ b < c => b + n <= c
      BY <1>1, <1>2, <1>6, <2>3
    <3>2. xBlockSize'[c] = xBlockSize[c]
      BY <1>5, <1>6, <1>12, <1>13, <2>3
    <3> QED
      BY <1>2, <1>7, <1>12, <2>1, <2>3, <3>1, <3>2
  <2> QED
    BY <1>14, <2>1, <2>2, <2>3
<1>20. Free' \intersect (Owned \union Freed \union {b}) = {}
  <2>1. b \notin Owned \union Freed /\ Free \intersect (Owned \union Freed) = {}
    BY <1>2, <1>3 DEF BlocksHaveOneOwner
  <2>2. new \notin Owned \union Freed
    BY <1>6, <1>13
  <2> QED
    BY <1>9, <1>14, <2>1, <2>2
<1>21. \A c \in Owned : xBlockSize'[c] = xBlockSize[c]
  <2>1. b \notin Owned
    BY <1>2, <1>3 DEF BlocksHaveOneOwner
  <2> QED
    BY <1>5, <1>6, <1>12, <1>13, <2>1
<1> QED
  BY <1>1, <1>2, <1>11, <1>12, <1>16, <1>17, <1>18, <1>19, <1>20, <1>21 DEF TakenFrom

LEMMA TakeInv ==
  ASSUME HeapInv, Take
  PROVE  HeapInv'
<1>1. PICK b : b = pxBlock
  OBVIOUS
<1>2. TakenFrom(b)
  BY <1>1, TakeWhole, TakePart
<1>3. /\ Initialised /\ Initialised' /\ pxBlockToInsert = NULL
      /\ b \in Free /\ xWantedSize \in Nat \ {0} /\ asked + xHeapStructSize <= xWantedSize
      /\ asked \in Requests \union {r[1] * r[2] : r \in CallocRequests}
      /\ asked \in Nat \ {0}
      /\ Owned' = Owned \union {b} /\ Freed' = Freed
      /\ UNCHANGED <<ucHeap, pxEnd, freeing>>
  BY <1>1, TakeFacts
<1>4. /\ walk = "malloc" /\ walk' = "none" /\ position' = xStart
      /\ xWantedSize' = 0 /\ asked' = 0 /\ pxBlockToInsert' = NULL
      /\ xFreeBytesRemaining' = xFreeBytesRemaining - xBlockSize'[b]
      /\ xMinimumEverFreeBytesRemaining' =
           IF xFreeBytesRemaining' < xMinimumEverFreeBytesRemaining
           THEN xFreeBytesRemaining' ELSE xMinimumEverFreeBytesRemaining
      /\ allocated' = allocated \union {[block |-> b, asked |-> asked]}
  BY <1>1 DEF Take, EndOfWalk
<1>5. HeapTypeOK /\ BlocksHaveOneOwner /\ CountInv /\ OwnersInv
  BY <1>3 DEF HeapInv, OwnersInv
<1>6. /\ uxStartAddress' = uxStartAddress /\ uxEndAddress' = uxEndAddress
      /\ Addresses' = Addresses /\ Headers' = Headers
  BY <1>3, SameHeap
<1>7. b \in Addresses /\ b \in Int /\ b \notin Owned /\ b \notin Freed
  BY <1>3, <1>5, HeapFacts DEF BlocksHaveOneOwner
<1>8. PICK k \in Nat : k = xBlockSize'[b] /\ xWantedSize <= k
  BY <1>2 DEF TakenFrom
<1>9. PICK bytes : bytes = BytesOf(Free, xBlockSize)'
  OBVIOUS
<1>10. IsFiniteSet(bytes) /\ Cardinality(bytes) \in Nat
  <2>1. Tiles(Blocks', xBlockSize', uxStartAddress, uxEndAddress)
    BY <1>2, <1>6 DEF TakenFrom, Tiles
  <2>2. Free' \in SUBSET Blocks' /\ uxStartAddress \in Int /\ uxEndAddress \in Int
    BY <1>5, HeapBounds DEF HeapTypeOK, Blocks
  <2>3. bytes = BytesOf(Free', xBlockSize')
    BY <1>9 DEF BytesOf
  <2> QED
    BY <2>1, <2>2, <2>3, BytesFacts
<1>11. xFreeBytesRemaining = Cardinality(bytes) + k
  <2>1. BytesOf(Free, xBlockSize) = bytes \union (b..(b + k - 1))
    BY <1>2, <1>8, <1>9 DEF TakenFrom
  <2>2. \A a \in bytes : a \in Int /\ (a < b \/ b + k <= a)
    BY <1>2, <1>8, <1>9 DEF TakenFrom
  <2>3. Cardinality(BytesOf(Free, xBlockSize)) = Cardinality(bytes) + k
    BY <1>7, <1>10, <2>1, <2>2, BytesAdded
  <2>4. xFreeBytesRemaining = Cardinality(BytesOf(Free, xBlockSize)) + 0
    BY <1>4, <1>5 DEF CountInv, InsertedSize
  <2> QED
    BY <1>10, <2>3, <2>4
<1>12. xFreeBytesRemaining' = Cardinality(bytes)
  BY <1>4, <1>8, <1>10, <1>11
<1>13. CountInv'
  <2>1. xMinimumEverFreeBytesRemaining' <= xFreeBytesRemaining'
    BY <1>4, <1>5, <1>10, <1>12 DEF HeapTypeOK
  <2>2. InsertedSize' = 0
    BY <1>4 DEF InsertedSize
  <2> QED
    BY <1>9, <1>10, <1>12, <2>1, <2>2 DEF CountInv
<1>14. OwnersInv'
  <2>1. PICK new : new = [block |-> b, asked |-> asked]
    OBVIOUS
  <2>2. new.block = b /\ new.asked = asked /\ allocated' = allocated \union {new}
    BY <1>4, <2>1
  <2>3. (Free \intersect (Owned \union Freed) = {} /\ Owned \intersect Freed = {})'
    BY <1>2, <1>3, <1>5, <1>7 DEF TakenFrom, BlocksHaveOneOwner
  <2>4. \A m, n \in allocated' : m.block = n.block => m = n
    <3>1. \A m \in allocated : m.block # b
      BY <1>7 DEF Owned
    <3> QED
      BY <1>5, <2>2, <3>1 DEF BlocksHaveOneOwner
  <2>5. \A m \in allocated' :
          /\ m.asked \in Requests \union {r[1] * r[2] : r \in CallocRequests}
          /\ m.asked > 0 /\ m.asked + xHeapStructSize <= xBlockSize'[m.block]
    <3>1. ASSUME NEW m \in allocated
          PROVE  /\ m.asked \in Requests \union {r[1] * r[2] : r \in CallocRequests}
                 /\ m.asked > 0 /\ m.asked + xHeapStructSize <= xBlockSize'[m.block]
      <4>1. xBlockSize'[m.block] = xBlockSize[m.block]
        BY <1>2 DEF TakenFrom, Owned
      <4> QED
        BY <1>5, <4>1 DEF OwnersInv
    <3>2. asked > 0 /\ asked + xHeapStructSize <= k
      BY <1>3, <1>8, ConstantsFacts
    <3> QED
      BY <1>3, <1>8, <2>2, <3>1, <3>2
  <2> QED
    BY <1>3, <1>4, <1>5, <2>3, <2>4, <2>5 DEF OwnersInv, BlocksHaveOneOwner
<1>15. WalkInv'
  BY <1>4 DEF WalkInv
<1>16. HeapTypeOK'
  <2>1. xStart \in Headers
    BY <1>5, AddressFacts DEF HeapTypeOK
  <2>2. xFreeBytesRemaining' \in 0..configTOTAL_HEAP_SIZE
    BY <1>5, <1>10, <1>11, <1>12, ConstantsFacts DEF HeapTypeOK
  <2>3. xMinimumEverFreeBytesRemaining' \in 0..configTOTAL_HEAP_SIZE
    BY <1>4, <1>5, <2>2 DEF HeapTypeOK
  <2>4. allocated' \subseteq [block : Addresses, asked : Nat]
    BY <1>3, <1>4, <1>5, <1>7 DEF HeapTypeOK
  <2>5. /\ pxNextFreeBlock' \in [Headers -> Addresses \union {NULL}]
        /\ xBlockSize' \in [Headers -> 0..configTOTAL_HEAP_SIZE]
    BY <1>2 DEF TakenFrom
  <2> QED
    BY <1>3, <1>4, <1>5, <1>6, <2>1, <2>2, <2>3, <2>4, <2>5, ConstantsFacts DEF HeapTypeOK
<1> QED
  BY <1>2, <1>3, <1>4, <1>13, <1>14, <1>15, <1>16 DEF TakenFrom, HeapInv, NotYetInv

(* Of two blocks, one behind the other, the first gets the second.          *)
Joined(F, size, size2, b, c) ==
  /\ F \subseteq Int /\ b \in F /\ c \in F /\ size[b] \in Nat /\ size[c] \in Nat
  /\ b # c /\ b + size[b] = c /\ size2[b] = size[b] + size[c]
  /\ \A d \in F \ {b, c} : size2[d] = size[d]

LEMMA BytesJoined ==
  ASSUME NEW F, NEW size, NEW size2, NEW b, NEW c, Joined(F, size, size2, b, c)
  PROVE  BytesOf(F \ {c}, size2) = BytesOf(F, size)
<1> USE DEF Joined
<1>1. PICK G, H, L : G = F \ {b, c} /\ H = G \union {b} /\ L = H \union {c}
  OBVIOUS
<1>2. F \ {c} = H /\ F = L
  <2>1. \A d : d \in F \ {c} <=> d \in H
    BY <1>1
  <2>2. \A d : d \in F <=> d \in L
    BY <1>1
  <2> QED
    BY <2>1, <2>2, Zenon
<1>3. BytesOf(H, size2) = BytesOf(G, size2) \union (b..(b + size2[b] - 1))
  <2>1. BytesOf(G \union {b}, size2) = BytesOf(G, size2) \union (b..(b + size2[b] - 1))
    BY BytesOfMore
  <2> QED
    BY <1>1, <2>1
<1>4. BytesOf(H, size) = BytesOf(G, size) \union (b..(b + size[b] - 1))
  <2>1. BytesOf(G \union {b}, size) = BytesOf(G, size) \union (b..(b + size[b] - 1))
    BY BytesOfMore
  <2> QED
    BY <1>1, <2>1
<1>5. BytesOf(L, size) = BytesOf(H, size) \union (c..(c + size[c] - 1))
  <2>1. BytesOf(H \union {c}, size) = BytesOf(H, size) \union (c..(c + size[c] - 1))
    BY BytesOfMore
  <2> QED
    BY <1>1, <2>1
<1>6. BytesOf(G, size2) = BytesOf(G, size)
  BY <1>1, BytesSame
<1>7. b..(b + size2[b] - 1) = (b..(b + size[b] - 1)) \union (c..(c + size[c] - 1))
  <2>1. PICK i \in Int, m \in Nat, n \in Nat : i = b /\ m = size[b] /\ n = size[c]
    OBVIOUS
  <2>2. c = i + m /\ size2[b] = m + n
    BY <2>1
  <2> QED
    BY <2>1, <2>2
<1>8. PICK X, Y, Z : /\ X = BytesOf(G, size) /\ Y = b..(b + size[b] - 1)
                     /\ Z = c..(c + size[c] - 1)
  OBVIOUS
<1> QED
  BY <1>2, <1>3, <1>4, <1>5, <1>6, <1>7, <1>8

LEMMA LinkedSame ==
  ASSUME NEW F, NEW next, NEW next2, NEW end, Linked(F, next, end),
         \A q \in F \union {xStart} : next2[q] = next[q]
  PROVE  Linked(F, next2, end)
BY DEF Linked

(* prvInsertBlockIntoFreeList has found the neighbours of the block.        *)
LEMMA InsertFacts ==
  ASSUME HeapInv, prvInsertBlockIntoFreeList
  PROVE  /\ Initialised /\ Initialised' /\ UNCHANGED <<ucHeap, pxEnd>>
         /\ position \in Free \union {xStart} /\ pxNextFreeBlock[position] = pxBlock
         /\ position \in Int /\ pxBlock \in Int /\ pxBlockToInsert \in Int
         /\ position < pxBlockToInsert /\ pxBlockToInsert < pxBlock
         /\ pxBlockToInsert \in Blocks /\ pxBlockToInsert \notin Free \union Owned
         /\ pxBlock \in Free \union {pxEnd}
         /\ Owned' = Owned /\ Freed' = Freed \ {pxBlockToInsert}
         /\ AfterFree => position \in Free
         /\ BeforeFree <=> /\ pxBlockToInsert + xBlockSize[pxBlockToInsert] = pxBlock
                           /\ pxBlock \in Free
<1>1. /\ walk = "free" /\ ~ (pxNextFreeBlock[position] < pxBlockToInsert)
      /\ pxBlockToInsert' = NULL
      /\ UNCHANGED <<ucHeap, pxEnd, counters, allocated, freeing>>
  BY DEF prvInsertBlockIntoFreeList, EndOfWalk
<1>2. Initialised /\ Initialised' /\ WalkInv /\ OwnersInv /\ LinksInv
  BY <1>1 DEF HeapInv, NotYetInv, Initialised
<1>3. /\ position \in Free \union {xStart} /\ pxBlockToInsert # NULL
      /\ position < pxBlockToInsert
  BY <1>1, <1>2 DEF WalkInv
<1>4. pxBlockToInsert \in Freed
  BY <1>3 DEF Freed
<1>5. pxBlockToInsert \in Blocks /\ pxBlockToInsert \notin Free \union Owned
  BY <1>2, <1>4 DEF Blocks, OwnersInv, BlocksHaveOneOwner
<1>6. /\ position \in Int /\ pxBlock \in Free \union {pxEnd} /\ pxBlock \in Int
      /\ pxNextFreeBlock[position] = pxBlock
  BY <1>2, <1>3, HeapFacts DEF pxBlock
<1>7. /\ pxBlockToInsert \in Int /\ pxBlockToInsert < pxEnd /\ xStart < pxBlockToInsert
      /\ xBlockSize[pxBlockToInsert] \in Nat /\ xStart \in Int /\ pxEnd \notin Blocks
      /\ Free \subseteq Blocks /\ \A b \in Blocks : b \in Int /\ xBlockSize[b] \in Nat
  BY <1>2, <1>5, HeapFacts
<1>8. pxBlockToInsert < pxBlock
  BY <1>1, <1>5, <1>6, <1>7
<1>9. Owned' = Owned
  BY <1>1 DEF Owned
<1>10. Freed' = Freed \ {pxBlockToInsert}
  <2>1. \A t \in Callers : freeing[t] = NULL \/ freeing[t] # pxBlockToInsert
    BY <1>2 DEF OwnersInv
  <2> QED
    BY <1>1, <1>3, <2>1 DEF Freed
<1>11. AfterFree => position \in Free
  <2>1. xBlockSize[xStart] = 0
    BY <1>2 DEF LinksInv
  <2>2. xStart + 0 # pxBlockToInsert
    BY <1>7
  <2> QED
    BY <1>3, <2>1, <2>2 DEF AfterFree
<1>12. BeforeFree <=> /\ pxBlockToInsert + xBlockSize[pxBlockToInsert] = pxBlock
                      /\ pxBlock \in Free
  <2>1. Lower + LowerSize = pxBlockToInsert + xBlockSize[pxBlockToInsert]
    <3>1. CASE AfterFree
      <4>1. position \in Int /\ xBlockSize[position] \in Nat
        BY <1>7, <1>11, <3>1
      <4>2. position + xBlockSize[position] = pxBlockToInsert
        BY <3>1 DEF AfterFree
      <4>3. Lower = position
        BY <3>1 DEF Lower
      <4>4. LowerSize = xBlockSize[pxBlockToInsert] + xBlockSize[position]
        BY <3>1 DEF LowerSize
      <4> QED
        BY <1>7, <4>1, <4>2, <4>3, <4>4
    <3>2. CASE ~ AfterFree
      BY <1>7, <3>2 DEF Lower, LowerSize
    <3> QED
      BY <3>1, <3>2
  <2>2. pxBlock # pxEnd <=> pxBlock \in Free
    BY <1>6, <1>7
  <2> QED
    BY <2>1, <2>2 DEF BeforeFree
<1> QED
  BY <1>1, <1>2, <1>3, <1>5, <1>6, <1>7, <1>8, <1>9, <1>10, <1>11, <1>12

(* The block is linked in, and joined with the one behind it and the one    *)
(* before it, if they are free.                                             *)
LinkedIn(x) ==
  /\ pxNextFreeBlock' \in [Headers -> Addresses \union {NULL}]
  /\ xBlockSize' \in [Headers -> 0..configTOTAL_HEAP_SIZE]
  /\ Free' \subseteq Free \union {x}
  /\ Tiles(Blocks, xBlockSize, uxStartAddress, uxEndAddress)'
  /\ LinksInv'
  /\ \A c \in Owned : xBlockSize'[c] = xBlockSize[c]
  /\ BytesOf(Free, xBlockSize)' = BytesOf(Free, xBlockSize) \union (x..(x + xBlockSize[x] - 1))

LEMMA InsertRow ==
  ASSUME HeapInv, prvInsertBlockIntoFreeList
  PROVE  LinkedIn(pxBlockToInsert)
<1>1. PICK p, x, q, after, before :
        /\ p = position /\ x = pxBlockToInsert /\ q = pxBlock
        /\ after = AfterFree /\ before = BeforeFree
        /\ after \in BOOLEAN /\ before \in BOOLEAN
  BY DEF AfterFree, BeforeFree
<1>2. /\ Initialised /\ Initialised' /\ UNCHANGED <<ucHeap, pxEnd>>
      /\ p \in Free \union {xStart} /\ pxNextFreeBlock[p] = q
      /\ p \in Int /\ q \in Int /\ x \in Int /\ p < x /\ x < q
      /\ x \in Blocks /\ x \notin Free \union Owned
      /\ q \in Free \union {pxEnd}
      /\ Owned' = Owned /\ Freed' = Freed \ {x}
      /\ after => p \in Free
      /\ before <=> x + xBlockSize[x] = q /\ q \in Free
  BY <1>1, InsertFacts
<1>3. after <=> p + xBlockSize[p] = x
  BY <1>1 DEF AfterFree
<1>4. HeapTypeOK /\ LinksInv /\ BlocksHaveOneOwner
  BY <1>2 DEF HeapInv, OwnersInv
<1>5. /\ uxStartAddress' = uxStartAddress /\ uxEndAddress' = uxEndAddress
      /\ Addresses' = Addresses /\ Headers' = Headers
  BY <1>2, SameHeap
<1>6. /\ Headers = Addresses \union {xStart} /\ xStart \notin Addresses /\ NULL \notin Headers
  BY <1>4, AddressFacts DEF HeapTypeOK
<1>7. /\ \A c \in Blocks :
           /\ c \in Int /\ uxStartAddress <= c /\ c < pxEnd /\ xStart < c
           /\ xBlockSize[c] \in Nat \ {0} /\ c + xBlockSize[c] <= pxEnd
      /\ \A c, d \in Blocks : c < d => c + xBlockSize[c] <= d
      /\ Free \subseteq Blocks /\ Owned \subseteq Blocks /\ Freed \subseteq Blocks
      /\ pxEnd = uxEndAddress /\ pxEnd \in Int /\ uxStartAddress \in Int
      /\ xStart < pxEnd /\ pxEnd \in Addresses /\ pxEnd \notin Blocks
      /\ Blocks \subseteq Addresses /\ xStart \in Int /\ xStart < uxStartAddress
  BY <1>2, HeapFacts
<1>8. /\ p # x /\ x # q /\ p # q /\ p # pxEnd /\ x # xStart /\ x # pxEnd /\ q # xStart
      /\ p \in Headers /\ x \in Addresses /\ q \in Addresses
  BY <1>2, <1>6, <1>7
<1>9. /\ after => p \in Free /\ p # xStart
      /\ before => q \in Free /\ q # pxEnd
  BY <1>2, <1>7
<1>10. Absorbed = (IF after THEN {x} ELSE {}) \union (IF before THEN {q} ELSE {})
  BY <1>1 DEF Absorbed
<1>11. /\ after => Lower = p /\ LowerSize = xBlockSize[x] + xBlockSize[p]
       /\ ~ after => Lower = x /\ LowerSize = xBlockSize[x] + 0
  BY <1>1 DEF Lower, LowerSize
<1>12. /\ pxNextFreeBlock' =
            [a \in Headers |->
               IF a \in Absorbed THEN NULL
               ELSE IF a = Lower THEN IF before THEN pxNextFreeBlock[q] ELSE q
               ELSE IF a = p THEN Lower ELSE pxNextFreeBlock[a]]
       /\ xBlockSize' =
            [a \in Headers |->
               IF a \in Absorbed THEN 0
               ELSE IF a = Lower THEN LowerSize + (IF before THEN xBlockSize[q] ELSE 0)
               ELSE xBlockSize[a]]
  BY <1>1 DEF prvInsertBlockIntoFreeList
(* What the step does to the links and the sizes.                           *)
<1>13. /\ after => /\ pxNextFreeBlock'[x] = NULL
                   /\ pxNextFreeBlock'[p] = IF before THEN pxNextFreeBlock[q] ELSE q
       /\ ~ after => /\ pxNextFreeBlock'[p] = x
                     /\ pxNextFreeBlock'[x] = IF before THEN pxNextFreeBlock[q] ELSE q
       /\ before => pxNextFreeBlock'[q] = NULL
       /\ ~ before => pxNextFreeBlock'[q] = pxNextFreeBlock[q]
       /\ \A a \in Headers \ {p, x, q} : pxNextFreeBlock'[a] = pxNextFreeBlock[a]
  BY <1>6, <1>8, <1>10, <1>11, <1>12
<1>14. /\ after => xBlockSize'[p] = xBlockSize[x] + xBlockSize[p]
                                      + (IF before THEN xBlockSize[q] ELSE 0)
       /\ ~ after => /\ xBlockSize'[p] = xBlockSize[p]
                     /\ xBlockSize'[x] = xBlockSize[x] + 0
                                           + (IF before THEN xBlockSize[q] ELSE 0)
       /\ ~ before => xBlockSize'[q] = xBlockSize[q]
       /\ \A a \in Headers \ {p, x, q} : xBlockSize'[a] = xBlockSize[a]
  BY <1>6, <1>8, <1>10, <1>11, <1>12
<1>15. pxNextFreeBlock' \in [Headers -> Addresses \union {NULL}]
  <2>1. /\ pxNextFreeBlock \in [Headers -> Addresses \union {NULL}]
        /\ q \in Headers /\ Lower \in Addresses \union {xStart}
    BY <1>4, <1>6, <1>8, <1>11 DEF HeapTypeOK
  <2>2. \A a \in Headers : a = p /\ a # Lower => Lower \in Addresses
    BY <1>8, <1>11
  <2> QED
    BY <1>8, <1>12, <2>1, <2>2

(* First the block behind it is joined with it.                             *)
<1>16. PICK B2, F2, n2, s2 :
         /\ n2 = [a \in Headers |->
                    IF a = p THEN x
                    ELSE IF a = x THEN IF before THEN pxNextFreeBlock[q] ELSE q
                    ELSE pxNextFreeBlock[a]]
         /\ s2 = [a \in Headers |->
                    IF a = x THEN xBlockSize[x] + (IF before THEN xBlockSize[q] ELSE 0)
                    ELSE xBlockSize[a]]
         /\ F2 = (Free \union {x}) \ (IF before THEN {q} ELSE {})
         /\ B2 = Blocks \ (IF before THEN {q} ELSE {})
  OBVIOUS
<1>17. /\ n2[p] = x /\ n2[x] = IF before THEN pxNextFreeBlock[q] ELSE q
       /\ \A a \in Headers \ {p, x} : n2[a] = pxNextFreeBlock[a]
       /\ s2[x] = xBlockSize[x] + (IF before THEN xBlockSize[q] ELSE 0)
       /\ \A a \in Headers \ {x} : s2[a] = xBlockSize[a]
  BY <1>6, <1>8, <1>16
<1>18. /\ Tiles(B2, s2, uxStartAddress, pxEnd) /\ Linked(F2, n2, pxEnd)
       /\ BytesOf(F2, s2) = BytesOf(Free, xBlockSize) \union (x..(x + xBlockSize[x] - 1))
  <2>1. PICK F1, n1 :
          /\ F1 = Free \union {x}
          /\ n1 = [a \in Headers |->
                     IF a = p THEN x ELSE IF a = x THEN q ELSE pxNextFreeBlock[a]]
    OBVIOUS
  <2>2. /\ n1[p] = x /\ n1[x] = q
        /\ \A a \in Headers \ {p, x} : n1[a] = pxNextFreeBlock[a]
    BY <1>6, <1>8, <2>1
  <2>3. Free \union {xStart} \subseteq Headers \ {x} /\ F1 \subseteq Headers
    BY <1>2, <1>6, <1>7, <1>8, <2>1
  <2>4. Linked(F1, n1, pxEnd)
    <3>1. Free \in SUBSET Int /\ \A c \in Free : xStart < c /\ c < pxEnd
      BY <1>7
    <3>2. Linked(Free, pxNextFreeBlock, pxEnd)
      BY <1>4 DEF LinksInv
    <3>3. \A c \in Free \union {xStart} : c # p => n1[c] = pxNextFreeBlock[c]
      BY <2>2, <2>3
    <3>4. /\ pxEnd \in Int /\ xStart < pxEnd /\ p \in Free \union {xStart} /\ x \in Int
          /\ p < x /\ x < pxNextFreeBlock[p] /\ n1[p] = x /\ n1[x] = pxNextFreeBlock[p]
      BY <1>2, <1>7, <2>2
    <3>5. Linked(Free \union {x}, n1, pxEnd)
      BY <3>1, <3>2, <3>3, <3>4, LinkedWith
    <3> QED
      BY <2>1, <3>5
  <2>5. Tiles(Blocks, xBlockSize, uxStartAddress, pxEnd)
    BY <1>2, <1>7 DEF HeapInv
  <2>6. BytesOf(F1, xBlockSize) = BytesOf(Free, xBlockSize) \union (x..(x + xBlockSize[x] - 1))
    BY <2>1, BytesOfMore
  <2>7. F1 \in SUBSET Blocks
    BY <1>2, <1>7, <2>1
  <2>8. CASE before
    <3>1. F2 = F1 \ {q} /\ B2 = Blocks \ {q}
      BY <1>16, <2>1, <2>8
    <3>2. x \in F1 /\ q \in F1 /\ x + xBlockSize[x] = q /\ n1[x] = q
      BY <1>2, <2>1, <2>2, <2>8
    <3>3. /\ s2[x] = xBlockSize[x] + xBlockSize[q]
          /\ \A d \in Blocks \ {x, q} : s2[d] = xBlockSize[d]
      BY <1>6, <1>7, <1>17, <2>8
    <3>4. n2[x] = n1[q]
      BY <1>6, <1>8, <1>17, <2>2, <2>8
    <3>5. \A d \in (F1 \ {x, q}) \union {xStart} : n2[d] = n1[d]
      BY <1>8, <1>17, <2>2, <2>3
    <3>6. uxStartAddress < pxEnd
      BY <1>2, <1>7
    <3>7. x \in Blocks /\ q \in Blocks /\ x # q /\ F1 \in SUBSET Int
      BY <1>2, <1>7, <1>9, <2>7, <2>8
    <3>8. Tiles(Blocks \ {q}, s2, uxStartAddress, pxEnd)
      BY <1>7, <2>5, <3>2, <3>3, <3>7, TilesJoin
    <3>9. Linked(F1 \ {q}, n2, pxEnd)
      <4>1. \A d \in F1 : xStart < d /\ d < pxEnd
        BY <1>7, <2>7
      <4>2. \A d \in (F1 \ {q}) \union {xStart} : d # x => n2[d] = n1[d]
        BY <3>5
      <4>3. x \in F1 \union {xStart}
        BY <3>2
      <4> QED
        <5>1. /\ pxEnd \in Int /\ xStart < pxEnd /\ q \in F1 /\ n1[x] = q
              /\ F1 \in SUBSET Int
          BY <1>7, <3>2, <3>7
        <5> QED
          BY <2>4, <3>4, <4>1, <4>2, <4>3, <5>1, LinkedWithout
    <3>10. BytesOf(F1 \ {q}, s2) = BytesOf(F1, xBlockSize)
      <4>1. \A d \in F1 \ {x, q} : s2[d] = xBlockSize[d]
        BY <2>7, <3>3
      <4>2. xBlockSize[x] \in Nat /\ xBlockSize[q] \in Nat
        BY <1>7, <3>7
      <4> QED
        <5>1. Joined(F1, xBlockSize, s2, x, q)
          BY <3>2, <3>3, <3>7, <4>1, <4>2 DEF Joined
        <5> QED
          BY <5>1, BytesJoined
    <3> QED
      BY <2>6, <3>1, <3>8, <3>9, <3>10
  <2>9. CASE ~ before
    <3>1. F2 = F1 /\ B2 = Blocks
      BY <1>16, <2>1, <2>9
    <3>2. \A d \in Blocks : s2[d] = xBlockSize[d]
      <4>1. s2[x] = xBlockSize[x]
        BY <1>2, <1>7, <1>17, <2>9
      <4> QED
        BY <1>6, <1>7, <1>17, <4>1
    <3>3. \A d \in F1 \union {xStart} : n2[d] = n1[d]
      BY <1>6, <1>17, <2>2, <2>3, <2>9
    <3>4. Tiles(Blocks, s2, uxStartAddress, pxEnd)
      BY <1>7, <2>5, <3>2, TilesSame
    <3>5. Linked(F1, n2, pxEnd)
      BY <2>4, <3>3, LinkedSame
    <3>6. BytesOf(F1, s2) = BytesOf(F1, xBlockSize)
      BY <2>7, <3>2, BytesSame
    <3> QED
      BY <2>6, <3>1, <3>4, <3>5, <3>6
  <2> QED
    BY <2>8, <2>9
(* Then the outcome with the one before it.                                 *)
<1>19. PICK B3, F3 : /\ B3 = B2 \ (IF after THEN {x} ELSE {})
                     /\ F3 = F2 \ (IF after THEN {x} ELSE {})
  OBVIOUS
<1>20. B2 \subseteq Blocks /\ F2 \in SUBSET B2 /\ \A d \in B2 : d \in Headers
  BY <1>2, <1>6, <1>7, <1>16
<1>21. /\ \A d \in B2 \ {p, x} : xBlockSize'[d] = s2[d]
       /\ \A d \in (F2 \ {p, x}) \union {xStart} : d # p => pxNextFreeBlock'[d] = n2[d]
  <2>1. ASSUME NEW d \in Headers, d # p, d # x, before => d # q
        PROVE  xBlockSize'[d] = s2[d] /\ pxNextFreeBlock'[d] = n2[d]
    <3>1. CASE d = q
      BY <1>13, <1>14, <1>17, <2>1, <3>1
    <3>2. CASE d # q
      BY <1>13, <1>14, <1>17, <2>1, <3>2
    <3> QED
      BY <3>1, <3>2
  <2>2. \A d \in B2 : before => d # q
    BY <1>16
  <2>3. xStart \in Headers /\ xStart # x /\ xStart # q
    BY <1>6, <1>8
  <2> QED
    BY <1>20, <2>1, <2>2, <2>3
<1>22. /\ Tiles(B3, xBlockSize', uxStartAddress, pxEnd) /\ Linked(F3, pxNextFreeBlock', pxEnd)
       /\ BytesOf(F3, xBlockSize') = BytesOf(F2, s2)
  <2>1. CASE after
    <3>1. B3 = B2 \ {x} /\ F3 = F2 \ {x}
      BY <1>19, <2>1
    <3>2. p \in F2 /\ x \in F2 /\ p # xStart
      BY <1>2, <1>8, <1>9, <1>16, <2>1
    <3>3. n2[p] = x /\ p + s2[p] = x /\ s2[p] = xBlockSize[p]
      BY <1>3, <1>8, <1>17, <2>1
    <3>4. pxNextFreeBlock'[p] = n2[x]
      BY <1>13, <1>17, <2>1
    <3>5. xBlockSize'[p] = s2[p] + s2[x]
      <4>1. PICK l \in Int, m \in Int, n \in Int :
              l = xBlockSize[p] /\ m = xBlockSize[x] /\ n = IF before THEN xBlockSize[q] ELSE 0
        BY <1>2, <1>7, <1>9, <2>1
      <4>2. xBlockSize'[p] = m + l + n /\ s2[x] = m + n
        BY <1>14, <1>17, <2>1, <4>1
      <4> QED
        BY <3>3, <4>1, <4>2
    <3>6. \A d \in (F2 \ {p, x}) \union {xStart} : pxNextFreeBlock'[d] = n2[d]
      BY <1>21, <3>2
    <3>7. uxStartAddress < pxEnd
      BY <1>2, <1>7
    <3>8. p \in B2 /\ x \in B2 /\ F2 \in SUBSET Int /\ p # x
      BY <1>7, <1>8, <1>20, <3>2
    <3>9. Tiles(B2 \ {x}, xBlockSize', uxStartAddress, pxEnd)
      BY <1>7, <1>18, <1>21, <3>3, <3>5, <3>8, TilesJoin
    <3>10. Linked(F2 \ {x}, pxNextFreeBlock', pxEnd)
      <4>1. \A d \in F2 : xStart < d /\ d < pxEnd
        BY <1>7, <1>20
      <4>2. \A d \in (F2 \ {x}) \union {xStart} : d # p => pxNextFreeBlock'[d] = n2[d]
        BY <3>6
      <4>3. p \in F2 \union {xStart}
        BY <3>2
      <4> QED
        BY <1>7, <1>18, <3>2, <3>3, <3>4, <3>8, <4>1, <4>2, <4>3, LinkedWithout
    <3>11. BytesOf(F2 \ {x}, xBlockSize') = BytesOf(F2, s2)
      <4>1. \A d \in F2 \ {p, x} : xBlockSize'[d] = s2[d]
        BY <1>20, <1>21
      <4>2. s2[p] \in Nat /\ s2[x] \in Nat
        <5>1. s2[p] \in Nat
          BY <1>7, <1>20, <3>3, <3>8
        <5>2. xBlockSize[x] \in Nat /\ (before => xBlockSize[q] \in Nat)
          BY <1>2, <1>7, <1>9
        <5> QED
          BY <1>17, <5>1, <5>2
      <4> QED
        <5>1. Joined(F2, s2, xBlockSize', p, x)
          BY <3>2, <3>3, <3>5, <3>8, <4>1, <4>2 DEF Joined
        <5> QED
          BY <5>1, BytesJoined
    <3> QED
      BY <3>1, <3>9, <3>10, <3>11
  <2>2. CASE ~ after
    <3>1. B3 = B2 /\ F3 = F2
      BY <1>19, <2>2
    <3>2. xBlockSize'[p] = s2[p] /\ pxNextFreeBlock'[p] = n2[p] /\ pxNextFreeBlock'[x] = n2[x]
      BY <1>8, <1>13, <1>14, <1>17, <2>2
    <3>3. xBlockSize'[x] = s2[x]
      <4>1. xBlockSize[x] \in Int
        BY <1>2, <1>7
      <4> QED
        BY <1>14, <1>17, <2>2, <4>1
    <3>4. \A d \in B2 : xBlockSize'[d] = s2[d]
      BY <1>21, <3>2, <3>3
    <3>5. \A d \in F2 \union {xStart} : pxNextFreeBlock'[d] = n2[d]
      BY <1>21, <3>2
    <3>6. Tiles(B2, xBlockSize', uxStartAddress, pxEnd)
      BY <1>7, <1>18, <3>4, TilesSame
    <3>7. Linked(F2, pxNextFreeBlock', pxEnd)
      BY <1>18, <3>5, LinkedSame
    <3>8. BytesOf(F2, xBlockSize') = BytesOf(F2, s2)
      BY <1>20, <3>4, BytesSame
    <3> QED
      BY <3>1, <3>6, <3>7, <3>8
  <2> QED
    BY <2>1, <2>2
<1>23. Free' = F3
  <2>1. ASSUME NEW a \in Addresses
        PROVE  a \in Free' <=> a \in F3
    <3>1. a \in Free' <=> pxNextFreeBlock'[a] # NULL
      BY <1>2, <1>5 DEF Free
    <3>2. a \in Free <=> pxNextFreeBlock[a] # NULL
      BY <1>2 DEF Free
    <3>3. before => pxNextFreeBlock[q] # NULL
      BY <1>2, <1>9 DEF Free
    <3>4. q # NULL /\ x # NULL
      BY <1>6, <1>8
    <3>5. CASE a = p
      <4>1. pxNextFreeBlock'[p] # NULL
        BY <1>13, <3>3, <3>4
      <4>2. p \in F3
        BY <1>2, <1>6, <1>8, <1>16, <1>19, <3>5
      <4> QED
        BY <3>1, <3>5, <4>1, <4>2
    <3>6. CASE a = x
      <4>1. x \in F3 <=> ~ after
        BY <1>8, <1>16, <1>19
      <4>2. pxNextFreeBlock'[x] # NULL <=> ~ after
        BY <1>13, <3>3, <3>4
      <4> QED
        BY <3>1, <3>6, <4>1, <4>2
    <3>7. CASE a = q
      <4>1. q \in F3 <=> (~ before /\ q \in Free)
        BY <1>8, <1>16, <1>19
      <4> QED
        BY <1>13, <3>1, <3>2, <3>7, <4>1
    <3>8. CASE a \notin {p, x, q}
      <4>1. a \in F3 <=> a \in Free
        BY <1>16, <1>19, <3>8
      <4>2. pxNextFreeBlock'[a] = pxNextFreeBlock[a]
        BY <1>6, <1>13, <3>8
      <4> QED
        BY <3>1, <3>2, <4>1, <4>2
    <3> QED
      BY <3>5, <3>6, <3>7, <3>8
  <2>2. Free' \subseteq Addresses /\ F3 \subseteq Addresses
    BY <1>5, <1>7, <1>19, <1>20 DEF Free
  <2> QED
    BY <2>1, <2>2
<1>24. Blocks' = B3
  <2>1. Blocks' = F3 \union Owned \union (Freed \ {x})
    BY <1>2, <1>23 DEF Blocks
  <2>2. Blocks = Free \union Owned \union Freed
    BY DEF Blocks
  <2>3. before => q \notin Owned \union Freed
    BY <1>4, <1>9 DEF BlocksHaveOneOwner
  <2>4. ASSUME NEW a
        PROVE  a \in Blocks' <=> a \in B3
    <3>1. CASE a = x
      BY <1>2, <1>8, <1>16, <1>19, <2>1, <3>1
    <3>2. CASE a = q /\ before
      BY <1>8, <1>16, <1>19, <2>1, <2>3, <3>2
    <3>3. CASE a # x /\ ~ (a = q /\ before)
      BY <1>16, <1>19, <2>1, <2>2, <3>3
    <3> QED
      BY <3>1, <3>2, <3>3
  <2> QED
    BY <2>4, Zenon
<1>25. Tiles(Blocks, xBlockSize, uxStartAddress, uxEndAddress)'
  BY <1>5, <1>7, <1>22, <1>24 DEF Tiles

(* No free block begins where another ends.                                 *)
<1>26. Merged(Free, xBlockSize)'
  <2>1. \A c, d \in Free : c + xBlockSize[c] # d
    BY <1>4 DEF LinksInv, Merged
  <2>2. \A d \in Free : p < d => q <= d
    BY <1>2, HeapFacts
  <2>3. /\ xBlockSize[x] \in Nat \ {0} /\ x + xBlockSize[x] <= q
        /\ q \in Free => xBlockSize[q] \in Nat \ {0}
    BY <1>2, <1>7
  <2>4. \A c \in F3 : c \in Free \ {q} \/ (c = q /\ ~ before /\ q \in Free) \/ (c = x /\ ~ after)
    BY <1>2, <1>16, <1>19
  <2>5. \A c \in Free : c = q => ~ (c \in F3 /\ before)
    BY <1>16, <1>19
  <2>6. PICK front : front = IF after THEN p ELSE x
    OBVIOUS
  (* Where the block ends that the freed one is in now.                     *)
  <2>7. /\ ~ before => front + xBlockSize'[front] = x + xBlockSize[x]
        /\ before => front + xBlockSize'[front] = q + xBlockSize[q]
    <3>1. PICK m \in Nat : m = xBlockSize[x]
      BY <2>3
    <3>2. CASE after
      <4>1. PICK l \in Nat : l = xBlockSize[p] /\ p + l = x
        BY <1>2, <1>3, <1>7, <3>2
      <4>2. xBlockSize'[p] = m + l + (IF before THEN xBlockSize[q] ELSE 0)
        BY <1>14, <3>1, <3>2, <4>1
      <4>3. CASE before
        <5>1. PICK n \in Nat : n = xBlockSize[q] /\ x + m = q
          BY <1>2, <1>7, <3>1, <4>3
        <5> QED
          BY <1>2, <2>6, <3>2, <4>1, <4>2, <4>3, <5>1
      <4>4. CASE ~ before
        BY <1>2, <2>6, <3>1, <3>2, <4>1, <4>2, <4>4
      <4> QED
        BY <4>3, <4>4
    <3>3. CASE ~ after
      <4>1. xBlockSize'[x] = m + 0 + (IF before THEN xBlockSize[q] ELSE 0)
        BY <1>14, <3>1, <3>3
      <4>2. CASE before
        <5>1. PICK n \in Nat : n = xBlockSize[q] /\ x + m = q
          BY <1>2, <1>7, <3>1, <4>2
        <5> QED
          BY <1>2, <2>6, <3>3, <4>1, <4>2, <5>1
      <4>3. CASE ~ before
        BY <1>2, <2>6, <3>1, <3>3, <4>1, <4>3
      <4> QED
        BY <4>2, <4>3
    <3> QED
      BY <3>2, <3>3
  <2>8. ASSUME NEW c \in F3, NEW d \in F3
        PROVE  c + xBlockSize'[c] # d
    <3>1. CASE c = front
      <4>1. CASE before
        <5>1. q \in Free /\ q + xBlockSize[q] # x
          BY <1>2, <2>3, <4>1
        <5> QED
          BY <2>1, <2>4, <2>7, <3>1, <4>1, <5>1
      <4>2. CASE ~ before
        <5>1. x + xBlockSize[x] # q \/ q \notin Free
          BY <1>2, <4>2
        <5>2. x + xBlockSize[x] # x /\ x + xBlockSize[x] > p
          BY <1>2, <2>3
        <5>3. ASSUME d \in Free, x + xBlockSize[x] = d
              PROVE  FALSE
          <6>1. d \in Int /\ p < d
            BY <5>2, <5>3, <1>7
          <6>2. q <= d
            BY <2>2, <5>3, <6>1
          <6>3. d = q
            BY <1>2, <2>3, <5>3, <6>1, <6>2
          <6> QED
            BY <5>1, <5>3, <6>3
        <5> QED
          BY <2>4, <2>7, <3>1, <4>2, <5>2, <5>3
      <4> QED
        BY <4>1, <4>2
    <3>2. CASE c # front
      <4>1. c \in Free /\ c # x
        BY <2>4, <2>6, <3>2, <1>2, <1>19
      <4>2. xBlockSize'[c] = xBlockSize[c]
        <5>1. c \in Headers
          BY <1>6, <1>7, <4>1
        <5>2. CASE c = p
          BY <1>14, <2>6, <3>2, <5>2
        <5>3. CASE c = q
          BY <1>14, <2>5, <4>1, <5>3
        <5>4. CASE c # p /\ c # q
          BY <1>14, <4>1, <5>1, <5>4
        <5> QED
          BY <5>2, <5>3, <5>4
      <4>3. CASE d \in Free
        BY <2>1, <4>1, <4>2, <4>3
      <4>4. CASE d = x /\ ~ after
        <5>1. c \in Int /\ xBlockSize[c] \in Nat \ {0}
          BY <1>7, <4>1
        <5>2. CASE c = p
          BY <1>3, <4>2, <4>4, <5>2
        <5>3. CASE p < c
          <6>1. q <= c
            BY <2>2, <4>1, <5>3
          <6> QED
            BY <1>2, <4>2, <4>4, <5>1, <6>1
        <5>4. CASE c < p
          <6>1. p # xStart
            BY <1>7, <4>1, <5>1, <5>4
          <6>2. p \in Blocks /\ c \in Blocks
            BY <1>2, <1>7, <4>1, <6>1
          <6>3. c + xBlockSize[c] <= p
            BY <1>7, <5>4, <6>2
          <6> QED
            BY <1>2, <4>2, <4>4, <5>1, <6>3
        <5> QED
          BY <1>2, <5>1, <5>2, <5>3, <5>4
      <4> QED
        BY <2>4, <4>3, <4>4
    <3> QED
      BY <3>1, <3>2
  <2> QED
    BY <1>23, <2>8 DEF Merged
<1>27. LinksInv'
  <2>1. Linked(Free, pxNextFreeBlock, pxEnd)'
    BY <1>2, <1>22, <1>23 DEF Linked
  <2>2. xBlockSize'[xStart] = 0
    <3>1. xBlockSize[xStart] = 0 /\ xStart \in Headers
      BY <1>4, <1>6 DEF LinksInv
    <3>2. p = xStart => ~ after
      BY <1>9
    <3> QED
      BY <1>8, <1>14, <3>1, <3>2
  <2>3. xBlockSize'[pxEnd] = 0 /\ pxNextFreeBlock'[pxEnd] = NULL
    <3>1. xBlockSize[pxEnd] = 0 /\ pxNextFreeBlock[pxEnd] = NULL /\ pxEnd \in Headers
      BY <1>4, <1>6, <1>7 DEF LinksInv
    <3>2. pxEnd = q => ~ before
      BY <1>9
    <3> QED
      BY <1>8, <1>13, <1>14, <3>1, <3>2
  <2> QED
    BY <1>2, <1>26, <2>1, <2>2, <2>3 DEF LinksInv
<1>28. xBlockSize' \in [Headers -> 0..configTOTAL_HEAP_SIZE]
  <2>1. ASSUME NEW a \in Headers
        PROVE  xBlockSize'[a] \in 0..configTOTAL_HEAP_SIZE
    <3>1. xBlockSize[a] \in 0..configTOTAL_HEAP_SIZE /\ 0 \in 0..configTOTAL_HEAP_SIZE
      BY <1>4, ConstantsFacts DEF HeapTypeOK
    <3>2. CASE a \in B3
      <4>1. /\ a \in Int /\ uxStartAddress <= a /\ xBlockSize'[a] \in Nat
            /\ a + xBlockSize'[a] <= pxEnd
        BY <1>22, <3>2 DEF Tiles
      <4>2. pxEnd - uxStartAddress <= configTOTAL_HEAP_SIZE
        BY <1>4, <1>7, HeapBounds, ConstantsFacts DEF HeapTypeOK
      <4> QED
        BY <1>7, <4>1, <4>2, ConstantsFacts
    <3>3. CASE a \in Absorbed
      BY <1>12, <3>1, <3>3
    <3>4. CASE a \notin B3 /\ a \notin Absorbed
      <4>1. Lower \in B3
        <5>1. after => p \in B3
          BY <1>2, <1>7, <1>8, <1>9, <1>16, <1>19
        <5>2. ~ after => x \in B3
          BY <1>2, <1>8, <1>16, <1>19
        <5> QED
          BY <1>11, <5>1, <5>2
      <4>2. xBlockSize'[a] = xBlockSize[a]
        BY <1>12, <3>4, <4>1
      <4> QED
        BY <3>1, <4>2
    <3> QED
      BY <3>2, <3>3, <3>4
  <2> QED
    BY <1>12, <2>1
<1>29. \A c \in Owned : xBlockSize'[c] = xBlockSize[c]
  <2>1. ASSUME NEW c \in Owned
        PROVE  c \in Headers /\ c \notin {p, x, q}
    <3>1. c \notin Free /\ c # pxEnd /\ c # xStart /\ c \in Headers /\ c # x
      BY <1>2, <1>4, <1>6, <1>7, <2>1 DEF BlocksHaveOneOwner
    <3> QED
      BY <1>2, <3>1
  <2> QED
    BY <1>14, <2>1
<1>30. BytesOf(Free, xBlockSize)' = BytesOf(Free, xBlockSize) \union (x..(x + xBlockSize[x] - 1))
  <2>1. BytesOf(Free, xBlockSize)' = BytesOf(F3, xBlockSize')
    BY <1>23 DEF BytesOf
  <2> QED
    BY <1>18, <1>22, <2>1
<1>31. Free' \subseteq Free \union {x}
  BY <1>16, <1>19, <1>23
<1> QED
  BY <1>1, <1>15, <1>25, <1>27, <1>28, <1>29, <1>30, <1>31 DEF LinkedIn

LEMMA InsertInv ==
  ASSUME HeapInv, prvInsertBlockIntoFreeList
  PROVE  HeapInv'
<1>1. PICK x : x = pxBlockToInsert
  OBVIOUS
<1>2. LinkedIn(x)
  BY <1>1, InsertRow
<1>3. /\ Initialised /\ Initialised' /\ UNCHANGED <<ucHeap, pxEnd>>
      /\ x \in Blocks /\ x \notin Free \union Owned
      /\ Owned' = Owned /\ Freed' = Freed \ {x}
  BY <1>1, InsertFacts
<1>4. /\ walk = "free" /\ walk' = "none" /\ position' = xStart
      /\ xWantedSize' = 0 /\ asked' = 0 /\ pxBlockToInsert' = NULL
      /\ UNCHANGED <<counters, allocated, freeing>>
  BY DEF prvInsertBlockIntoFreeList, EndOfWalk
<1>5. HeapTypeOK /\ OwnersInv /\ CountInv
  BY <1>3 DEF HeapInv
<1>6. /\ uxStartAddress' = uxStartAddress /\ uxEndAddress' = uxEndAddress
      /\ Addresses' = Addresses /\ Headers' = Headers
  BY <1>3, SameHeap
<1>7. PICK bytes, n : bytes = BytesOf(Free, xBlockSize) /\ n = xBlockSize[x] /\ n \in Nat
  BY <1>3, HeapFacts
<1>8. /\ IsFiniteSet(bytes) /\ Cardinality(bytes) \in Nat /\ x \in Int
      /\ \A a \in bytes : a \in Int /\ (a < x \/ x + n <= a)
  <2>1. /\ Tiles(Blocks, xBlockSize, uxStartAddress, uxEndAddress)
        /\ Free \in SUBSET Blocks /\ uxStartAddress \in Int /\ uxEndAddress \in Int
    BY <1>3, <1>5, HeapBounds DEF HeapInv, HeapTypeOK, Blocks
  <2>2. IsFiniteSet(bytes) /\ Cardinality(bytes) \in Nat
    BY <1>7, <2>1, BytesFacts
  <2>3. x \in Int
    BY <1>3, HeapFacts
  <2>4. ASSUME NEW a \in bytes
        PROVE  a \in Int /\ (a < x \/ x + n <= a)
    <3>1. PICK c \in Free : a \in c..(c + xBlockSize[c] - 1)
      BY <1>7, <2>4 DEF BytesOf
    <3>2. /\ c \in Int /\ xBlockSize[c] \in Nat /\ c # x
          /\ c < x => c + xBlockSize[c] <= x
          /\ x < c => x + n <= c
      BY <1>3, <1>7, HeapFacts
    <3> QED
      BY <1>7, <2>3, <3>1, <3>2
  <2> QED
    BY <2>2, <2>3, <2>4
<1>9. CountInv'
  <2>1. Cardinality(BytesOf(Free, xBlockSize)') = Cardinality(bytes) + n
    <3>1. BytesOf(Free, xBlockSize)' = bytes \union (x..(x + n - 1))
      BY <1>2, <1>7 DEF LinkedIn
    <3>2. Cardinality(bytes \union (x..(x + n - 1))) = Cardinality(bytes) + n
      BY <1>7, <1>8, BytesAdded
    <3> QED
      BY <3>1, <3>2
  <2>2. xFreeBytesRemaining = Cardinality(bytes) + n
    BY <1>1, <1>4, <1>5, <1>7 DEF CountInv, InsertedSize
  <2>3. InsertedSize' = 0
    BY <1>4 DEF InsertedSize
  <2> QED
    BY <1>4, <1>5, <1>7, <1>8, <2>1, <2>2, <2>3 DEF CountInv, counters
<1>10. OwnersInv'
  <2>1. (Free \intersect (Owned \union Freed) = {} /\ Owned \intersect Freed = {})'
    BY <1>2, <1>3, <1>5 DEF LinkedIn, OwnersInv, BlocksHaveOneOwner
  <2>2. \A m \in allocated' :
          /\ m.asked \in Requests \union {r[1] * r[2] : r \in CallocRequests}
          /\ m.asked > 0 /\ m.asked + xHeapStructSize <= xBlockSize'[m.block]
    BY <1>2, <1>4, <1>5 DEF LinkedIn, OwnersInv, Owned
  <2> QED
    BY <1>4, <1>5, <2>1, <2>2 DEF OwnersInv, BlocksHaveOneOwner
<1>11. WalkInv'
  BY <1>4 DEF WalkInv
<1>12. HeapTypeOK'
  <2>1. xStart \in Headers
    BY <1>5, AddressFacts DEF HeapTypeOK
  <2> QED
    BY <1>2, <1>3, <1>4, <1>5, <1>6, <2>1, ConstantsFacts
       DEF LinkedIn, HeapTypeOK, counters
<1> QED
  BY <1>2, <1>3, <1>4, <1>9, <1>10, <1>11, <1>12 DEF LinkedIn, HeapInv, NotYetInv

LEMMA HeapNextInv ==
  HeapInv /\ [HeapNext]_heapVars => HeapInv'
<1> SUFFICES ASSUME HeapInv, [HeapNext]_heapVars PROVE HeapInv'
  OBVIOUS
<1>1. CASE UNCHANGED heapVars
  <2>1. /\ UNCHANGED <<ucHeap, pxEnd, pxNextFreeBlock, xBlockSize, xFreeBytesRemaining>>
        /\ UNCHANGED <<xMinimumEverFreeBytesRemaining, allocated, freeing, walk, position>>
        /\ UNCHANGED <<xWantedSize, asked, pxBlockToInsert>>
    BY <1>1 DEF heapVars, links, counters, walkVars
  <2>2. HeapTypeOK'
    BY <2>1, SameHeap DEF HeapInv, HeapTypeOK
  <2>3. NotYetInv' /\ (walk # "free" => pxBlockToInsert = NULL)'
    BY <2>1 DEF HeapInv, NotYetInv, Initialised
  <2>4. CASE Initialised
    <3>1. Owned' = Owned /\ Freed' = Freed
      BY <2>1 DEF Owned, Freed
    <3>2. Blocks' = Blocks
      BY <2>1, <3>1, SameHeap DEF Blocks, Free, Initialised
    <3>3. /\ Free' = Free /\ Initialised'
          /\ Tiles(Blocks, xBlockSize, uxStartAddress, uxEndAddress)' /\ LinksInv'
          /\ BytesOf(Free, xBlockSize)' = BytesOf(Free, xBlockSize)
      BY <2>1, <2>4, <3>2, SameBlocks DEF links
    <3>4. OwnersInv'
      BY <2>1, <2>4, <3>1, <3>3 DEF HeapInv, OwnersInv, BlocksHaveOneOwner
    <3>5. CountInv'
      BY <2>1, <2>4, <3>3 DEF HeapInv, CountInv, InsertedSize
    <3>6. WalkInv'
      <4>1. WantedSize(asked)' = WantedSize(asked)
        BY <2>1 DEF WantedSize, heapADD_WILL_OVERFLOW
      <4> QED
        BY <2>1, <2>4, <3>3, <4>1 DEF HeapInv, WalkInv
    <3> QED
      BY <2>2, <2>3, <3>3, <3>4, <3>5, <3>6 DEF HeapInv
  <2>5. CASE ~ Initialised
    BY <2>1, <2>2, <2>3, <2>5 DEF HeapInv, Initialised
  <2> QED
    BY <2>4, <2>5
<1>2. CASE pvPortMalloc
  BY <1>2, pvPortMallocInv
<1>3. CASE pvPortCalloc
  BY <1>3, pvPortCallocInv
<1>4. CASE SearchOn
  BY <1>4, SearchOnInv
<1>5. CASE Take
  BY <1>5, TakeInv
<1>6. CASE NotFound
  BY <1>6, NotFoundInv
<1>7. ASSUME NEW t \in Callers, vPortFree(t)
      PROVE  HeapInv'
  BY <1>7, vPortFreeInv
<1>8. ASSUME NEW t \in Callers, InsertFreedBlock(t)
      PROVE  HeapInv'
  BY <1>8, InsertFreedBlockInv
<1>9. CASE IterateOn
  BY <1>9, IterateOnInv
<1>10. CASE prvInsertBlockIntoFreeList
  BY <1>10, InsertInv
<1>11. CASE xPortResetHeapMinimumEverFreeHeapSize
  BY <1>11, ResetMinimumInv
<1>12. CASE vPortHeapResetState
  BY <1>12, ResetStateInv
<1> QED
  BY <1>1, <1>2, <1>3, <1>4, <1>5, <1>6, <1>7, <1>8, <1>9, <1>10, <1>11, <1>12 DEF HeapNext

LEMMA HeapSpecInv == HeapSpec => []HeapInv
<1>1. HeapInit => HeapInv
  BY HeapInitInv
<1> QED
  BY <1>1, HeapNextInv, PTL DEF HeapSpec

-----------------------------------------------------------------------------

LEMMA HeapInvTiles ==
  ASSUME HeapInv
  PROVE  BlocksTileTheHeap
<1> SUFFICES ASSUME Initialised
             PROVE  /\ BlocksCoverTheHeap /\ BlocksHaveOneOwner
                    /\ FreeBlocksAreLinked /\ FreeBytesAreCounted
  BY DEF HeapInv, BlocksTileTheHeap
<1>1. /\ pxEnd = uxEndAddress /\ pxEnd \in Int /\ uxStartAddress \in Int
      /\ \A b \in Blocks :
           /\ b \in Int /\ uxStartAddress <= b /\ b < pxEnd
           /\ xBlockSize[b] \in Nat \ {0} /\ b + xBlockSize[b] <= pxEnd
           /\ b % portBYTE_ALIGNMENT = 0
      /\ \A b, c \in Blocks : b < c => b + xBlockSize[b] <= c
      /\ Free \subseteq Blocks
  BY HeapFacts
<1>2. BlocksCoverTheHeap
  <2>1. \A a \in uxStartAddress..(pxEnd - 1) : \E b \in Blocks : b <= a /\ a < b + xBlockSize[b]
    BY <1>1 DEF HeapInv, Tiles
  <2>2. ASSUME NEW a \in uxStartAddress..(pxEnd - 1)
        PROVE  \E b \in Blocks : a \in Extent(b)
    <3>1. PICK b \in Blocks : b <= a /\ a < b + xBlockSize[b]
      BY <2>1
    <3>2. a \in Int /\ b \in Int /\ xBlockSize[b] \in Int
      BY <1>1
    <3>3. a \in Extent(b)
      BY <3>1, <3>2 DEF Extent
    <3> QED
      BY <3>3
  <2>3. ASSUME NEW b \in Blocks, NEW a \in Extent(b)
        PROVE  a \in uxStartAddress..(pxEnd - 1)
    BY <1>1, <2>3 DEF Extent
  <2>4. UNION {Extent(b) : b \in Blocks} = uxStartAddress..(pxEnd - 1)
    BY <2>2, <2>3
  <2>5. ASSUME NEW b \in Blocks, NEW c \in Blocks, b # c
        PROVE  Extent(b) \intersect Extent(c) = {}
    <3>1. /\ b \in Int /\ c \in Int /\ xBlockSize[b] \in Nat /\ xBlockSize[c] \in Nat
          /\ b + xBlockSize[b] <= c \/ c + xBlockSize[c] <= b
      <4>1. b < c \/ c < b
        BY <1>1, <2>5
      <4> QED
        BY <1>1, <4>1
    <3> QED
      BY <3>1 DEF Extent
  <2>6. \A b \in Blocks : xBlockSize[b] > 0 /\ b % portBYTE_ALIGNMENT = 0
    BY <1>1
  <2> QED
    BY <2>4, <2>5, <2>6 DEF BlocksCoverTheHeap
<1>3. BlocksHaveOneOwner
  BY DEF HeapInv, OwnersInv
<1>4. FreeBlocksAreLinked
  <2>1. ASSUME NEW p \in Free \union {xStart}
        PROVE  /\ pxNextFreeBlock[p] \in Free \union {pxEnd} /\ p < pxNextFreeBlock[p]
               /\ \A b \in Free \union {pxEnd} : p < b => pxNextFreeBlock[p] <= b
    <3>1. /\ pxNextFreeBlock[p] \in Free \union {pxEnd} /\ p < pxNextFreeBlock[p]
          /\ \A b \in Free : p < b => pxNextFreeBlock[p] <= b
      BY HeapFacts
    <3>2. pxNextFreeBlock[p] <= pxEnd
      BY <1>1, <3>1
    <3> QED
      BY <3>1, <3>2
  <2>2. \A b, c \in Free : b + xBlockSize[b] # c
    BY DEF HeapInv, LinksInv, Merged
  <2> QED
    BY <2>1, <2>2 DEF FreeBlocksAreLinked
<1>5. FreeBytesAreCounted
  <2>1. FreeBytes = BytesOf(Free, xBlockSize)
    BY DEF FreeBytes, Extent, BytesOf
  <2>2. Cardinality(FreeBytes) \in Nat
    <3>1. Tiles(Blocks, xBlockSize, uxStartAddress, pxEnd)
      BY <1>1 DEF HeapInv
    <3> QED
      BY <1>1, <2>1, <3>1, BytesFacts
  <2>3. CountInv
    BY DEF HeapInv
  <2> QED
    BY <2>1, <2>2, <2>3 DEF CountInv, InsertedSize, FreeBytesAreCounted
<1> QED
  BY <1>2, <1>3, <1>4, <1>5

(* Whatever is allocated, freed and merged in whatever order: the blocks    *)
(* tile the heap, the list has the free ones in order and merged, and the   *)
(* number of free bytes is right.                                           *)
THEOREM HeapIsTiled == HeapSpec => []BlocksTileTheHeap
<1>1. HeapInv => BlocksTileTheHeap
  BY HeapInvTiles
<1> QED
  BY <1>1, HeapSpecInv, PTL

(* Free blocks do not touch, so a run of free bytes is in one of them.      *)
LEMMA RunsAreInOneBlock ==
  ASSUME HeapInv, Initialised, NEW a \in FreeBytes, NEW n \in Nat \ {0},
         a..(a + n - 1) \subseteq FreeBytes
  PROVE  /\ a \in Int /\ \E b \in Free : b <= a /\ a + n <= b + xBlockSize[b]
<1>1. \A b \in Free : b \in Int /\ xBlockSize[b] \in Nat \ {0}
  BY HeapFacts
<1>2. \A b, c \in Free : b < c => b + xBlockSize[b] <= c
  BY HeapFacts
<1>3. \A b, c \in Free : b + xBlockSize[b] # c
  BY DEF HeapInv, LinksInv, Merged
<1>4. PICK b \in Free : a \in b..(b + xBlockSize[b] - 1)
  BY DEF FreeBytes, Extent
<1>5. PICK end \in Int : end = b + xBlockSize[b] /\ a \in Int /\ b <= a /\ a < end
  BY <1>1, <1>4
<1>6. ASSUME end < a + n
      PROVE  FALSE
  <2>1. end \in FreeBytes
    BY <1>5, <1>6
  <2>2. PICK c \in Free : end \in c..(c + xBlockSize[c] - 1)
    BY <2>1 DEF FreeBytes, Extent
  <2>3. c # end
    BY <1>3, <1>5
  <2>4. CASE c < b
    BY <1>1, <1>2, <1>5, <2>2, <2>4
  <2>5. CASE b < c
    BY <1>1, <1>2, <1>5, <2>2, <2>3, <2>5
  <2>6. CASE c = b
    BY <1>1, <1>5, <2>2, <2>6
  <2> QED
    BY <1>1, <2>4, <2>5, <2>6
<1> QED
  BY <1>5, <1>6

(* Where there is room there is a block that is large enough.               *)
LEMMA RoomIsInOneBlock ==
  ASSUME HeapInv, Initialised, NEW request \in Nat \ {0}, HasRoom(request)
  PROVE  /\ IsSearched(WantedSize(request), xFreeBytesRemaining)
         /\ \E b \in Free : WantedSize(request) <= xBlockSize[b]
<1>1. PICK n \in Nat \ {0} : n = request + xHeapStructSize
  BY ConstantsFacts
<1>2. PICK a \in FreeBytes : a..(a + request + xHeapStructSize - 1) \subseteq FreeBytes
  BY DEF HasRoom
<1>3. a \in Int
  <2>1. PICK b \in Free : a \in b..(b + xBlockSize[b] - 1)
    BY DEF FreeBytes, Extent
  <2> QED
    BY <2>1
<1>4. a + request + xHeapStructSize - 1 = a + n - 1
  BY <1>1, <1>3, ConstantsFacts
<1>5. PICK b \in Free : b <= a /\ a + n <= b + xBlockSize[b]
  BY <1>2, <1>4, RunsAreInOneBlock
<1>6. PICK s : s = xBlockSize[b]
  OBVIOUS
<1>7. /\ b \in Int /\ uxStartAddress <= b /\ s \in Nat \ {0} /\ b + s <= uxEndAddress
      /\ s % portBYTE_ALIGNMENT = 0 /\ ucHeap \in HeapAddresses /\ uxStartAddress \in Int
  BY <1>6, HeapFacts
<1>8. n <= s
  BY <1>3, <1>5, <1>6, <1>7
<1>9. s <= SIZE_MAX \div 2 /\ SIZE_MAX \div 2 \in Nat
  <2>1. /\ ucHeap \in Nat /\ uxEndAddress \in Int /\ ucHeap <= uxStartAddress
        /\ uxEndAddress + xHeapStructSize <= ucHeap + configTOTAL_HEAP_SIZE
    BY <1>7, HeapBounds
  <2>2. PICK half \in Nat : half = SIZE_MAX \div 2 /\ configTOTAL_HEAP_SIZE <= half + 1
    BY ConstantsFacts
  <2>3. s <= half
    BY <1>7, <2>1, <2>2, ConstantsFacts
  <2> QED
    BY <2>2, <2>3
<1>10. s <= SIZE_MAX
  BY <1>7, <1>9, ConstantsFacts
<1>11. PICK missing \in Nat : missing = (-n) % portBYTE_ALIGNMENT /\ n + missing <= s
  <2>1. n \in Int /\ portBYTE_ALIGNMENT \in Nat \ {0} /\ s \in Int
    BY <1>7, ConstantsFacts
  <2>2. /\ (-n) % portBYTE_ALIGNMENT \in 0..(portBYTE_ALIGNMENT - 1)
        /\ \A c \in Int : c % portBYTE_ALIGNMENT = 0 /\ n <= c
                            => n + ((-n) % portBYTE_ALIGNMENT) <= c
    BY <2>1, RoundUp, Zenon
  <2>3. PICK missing : missing = (-n) % portBYTE_ALIGNMENT
    OBVIOUS
  <2>4. missing \in Nat /\ n + missing <= s
    <3>1. s % portBYTE_ALIGNMENT = 0 /\ n <= s
      BY <1>7, <1>8
    <3>2. n + ((-n) % portBYTE_ALIGNMENT) <= s
      BY <2>1, <2>2, <3>1, Zenon
    <3> QED
      BY <2>1, <2>2, <2>3, <3>2
  <2> QED
    BY <2>3, <2>4, Zenon
<1>12. WantedSize(request) = n + missing
  <2>1. ~ heapADD_WILL_OVERFLOW(request, xHeapStructSize)
    BY <1>1, <1>8, <1>7, <1>10, ConstantsFacts DEF heapADD_WILL_OVERFLOW
  <2>2. ~ heapADD_WILL_OVERFLOW(n, missing)
    BY <1>7, <1>10, <1>11, ConstantsFacts DEF heapADD_WILL_OVERFLOW
  <2> QED
    BY <1>1, <1>11, <2>1, <2>2 DEF WantedSize
<1>13. s <= xFreeBytesRemaining
  <2>1. PICK bytes : bytes = BytesOf(Free, xBlockSize)
    OBVIOUS
  <2>2. IsFiniteSet(bytes) /\ Cardinality(bytes) \in Nat
    <3>1. /\ Tiles(Blocks, xBlockSize, uxStartAddress, uxEndAddress)
          /\ Free \in SUBSET Blocks /\ uxEndAddress \in Int
      BY <1>7, HeapBounds DEF HeapInv, Blocks
    <3> QED
      BY <1>7, <2>1, <3>1, BytesFacts
  <2>3. PICK l \in Int : l = b + s - 1 /\ b <= l
    BY <1>7
  <2>4. b..l \subseteq bytes
    BY <1>6, <2>1, <2>3 DEF BytesOf
  <2>5. Cardinality(b..l) = l - b + 1
    BY <1>7, <2>3, FS_Interval
  <2>6. Cardinality(b..l) <= Cardinality(bytes)
    BY <2>2, <2>4, FS_Subset
  <2>7. s <= Cardinality(bytes)
    BY <1>7, <2>3, <2>5, <2>6
  <2>8. InsertedSize \in Nat
    <3>1. CASE walk = "free"
      <4>1. pxBlockToInsert \in Blocks
        BY <3>1 DEF HeapInv, WalkInv, Blocks, Freed
      <4> QED
        BY <3>1, <4>1, HeapFacts DEF InsertedSize
    <3>2. CASE walk # "free"
      BY <3>2 DEF InsertedSize
    <3> QED
      BY <3>1, <3>2
  <2>9. xFreeBytesRemaining = Cardinality(bytes) + InsertedSize
    BY <2>1 DEF HeapInv, CountInv
  <2> QED
    BY <1>7, <2>2, <2>7, <2>8, <2>9
<1>14. PICK w \in Nat : w = WantedSize(request) /\ w <= s /\ w > 0
  BY <1>11, <1>12
<1>15. IsSearched(w, xFreeBytesRemaining)
  <2>1. PICK free \in Int : free = xFreeBytesRemaining
    BY DEF HeapInv, HeapTypeOK
  <2>2. w <= SIZE_MAX \div 2
    <3>1. PICK half \in Nat : half = SIZE_MAX \div 2
      BY <1>9
    <3> QED
      BY <1>7, <1>9, <1>14, <3>1
  <2>3. w <= free
    BY <1>7, <1>13, <1>14, <2>1
  <2> QED
    BY <1>14, <2>1, <2>2, <2>3 DEF IsSearched, heapBLOCK_SIZE_IS_VALID
<1> QED
  BY <1>6, <1>14, <1>15

(* An allocation fails only where no run of free bytes is long enough.      *)
THEOREM AllocationsFailOnlyWithoutRoom == HeapSpec => []FailsOnlyWithoutRoom
<1>1. ASSUME HeapInv
      PROVE  FailsOnlyWithoutRoom
  <2> SUFFICES ASSUME Initialised
               PROVE  /\ \A request \in Requests \ {0} :
                           HasRoom(request)
                             => IsSearched(WantedSize(request), xFreeBytesRemaining)
                      /\ walk = "malloc" /\ pxBlock = pxEnd => ~ HasRoom(asked)
    BY DEF FailsOnlyWithoutRoom
  <2>1. ASSUME NEW request \in Requests \ {0}, HasRoom(request)
        PROVE  IsSearched(WantedSize(request), xFreeBytesRemaining)
    <3>1. request \in Nat \ {0}
      BY HeapAssumption
    <3> QED
      BY <1>1, <2>1, <3>1, RoomIsInOneBlock
  <2>2. ASSUME walk = "malloc", pxBlock = pxEnd, HasRoom(asked)
        PROVE  FALSE
    <3>1. /\ asked \in 1..SIZE_MAX /\ xWantedSize = WantedSize(asked)
          /\ position \in Free \union {xStart}
          /\ \A b \in Free : b <= position => xBlockSize[b] < xWantedSize
      BY <1>1, <2>2 DEF HeapInv, WalkInv
    <3>2. asked \in Nat \ {0}
      BY <3>1
    <3>3. PICK b \in Free : WantedSize(asked) <= xBlockSize[b]
      BY <1>1, <2>2, <3>2, RoomIsInOneBlock
    <3>4. /\ b \in Int /\ b < pxEnd /\ xBlockSize[b] \in Nat /\ position \in Int
          /\ position < b => pxEnd <= b
      BY <1>1, <2>2, <3>1, HeapFacts DEF pxBlock
    <3>5. WantedSize(asked) \in Nat
      BY <3>2, WantedFacts
    <3>6. ~ (b <= position)
      BY <3>1, <3>3, <3>4, <3>5
    <3> QED
      BY <1>1, <3>4, <3>6, HeapFacts
  <2> QED
    BY <2>1, <2>2
<1> QED
  BY <1>1, HeapSpecInv, PTL

-----------------------------------------------------------------------------
(* heap_4 implements MemoryAllocator.                                       *)

Handed(m) == [pv |-> m.block + xHeapStructSize, size |-> m.asked]
HandedOut == {Handed(m) : m \in allocated}
Memory == uxStartAddress..(uxEndAddress - 1)
AskedFor == Requests \union {r[1] * r[2] : r \in CallocRequests}

LEMMA HandedFacts ==
  ASSUME NEW m
  PROVE  Handed(m).pv = m.block + xHeapStructSize /\ Handed(m).size = m.asked
BY DEF Handed

(* The memory of an owner lies inside of the block.                         *)
LEMMA MemoryOfOwner ==
  ASSUME HeapInv, Initialised, NEW m \in allocated
  PROVE  /\ m.block \in Owned /\ m.block \in Int /\ m.asked \in Nat
         /\ xBlockSize[m.block] \in Nat
         /\ m.asked + xHeapStructSize <= xBlockSize[m.block]
<1>1. m.block \in Owned
  BY DEF Owned
<1>2. m.asked \in Nat
  BY DEF HeapInv, HeapTypeOK
<1>3. m.asked + xHeapStructSize <= xBlockSize[m.block]
  BY DEF HeapInv, OwnersInv
<1> QED
  BY <1>1, <1>2, <1>3, HeapFacts

LEMMA TakeAllocates ==
  ASSUME HeapInv, Take
  PROVE  \E pv \in Memory, size \in AskedFor :
           /\ size > 0 /\ pv % portBYTE_ALIGNMENT = 0
           /\ pv..(pv + size - 1) \subseteq Memory
           /\ \A o \in HandedOut :
                (o.pv..(o.pv + o.size - 1)) \intersect (pv..(pv + size - 1)) = {}
           /\ HandedOut' = HandedOut \union {[pv |-> pv, size |-> size]}
<1>1. PICK b, n, h : b = pxBlock /\ n = asked /\ h = xHeapStructSize
  OBVIOUS
<1>2. /\ Initialised /\ b \in Free /\ n \in AskedFor /\ n \in Nat \ {0}
      /\ n + h <= xBlockSize[b] /\ h \in Nat \ {0} /\ h % portBYTE_ALIGNMENT = 0
  <2>1. /\ xWantedSize \in Nat /\ xWantedSize <= xBlockSize[b] /\ n + h <= xWantedSize
        /\ Initialised /\ b \in Free /\ n \in AskedFor /\ n \in Nat \ {0}
    BY <1>1, TakeFacts DEF AskedFor
  <2>2. xBlockSize[b] \in Nat
    BY <2>1, HeapFacts
  <2> QED
    BY <1>1, <2>1, <2>2, ConstantsFacts
<1>3. PICK s : s = xBlockSize[b]
  OBVIOUS
<1>4. /\ b \in Int /\ uxStartAddress <= b /\ s \in Nat /\ b + s <= uxEndAddress
      /\ b % portBYTE_ALIGNMENT = 0 /\ uxStartAddress \in Int /\ uxEndAddress \in Int
      /\ b \in Blocks /\ b \notin Owned
  <2>1. b \notin Owned
    BY <1>2 DEF HeapInv, OwnersInv, BlocksHaveOneOwner
  <2> QED
    BY <1>2, <1>3, <2>1, HeapFacts
<1>5. PICK pv \in Int : pv = b + h
  BY <1>2, <1>4
<1>6. pv % portBYTE_ALIGNMENT = 0
  <2>1. /\ b \in Int /\ h \in Int /\ portBYTE_ALIGNMENT \in Nat \ {0}
        /\ b % portBYTE_ALIGNMENT = 0 /\ h % portBYTE_ALIGNMENT = 0
    BY <1>2, <1>4, ConstantsFacts
  <2>2. (b + h) % portBYTE_ALIGNMENT = 0
    BY <2>1, SumOfMultiples, Zenon
  <2> QED
    BY <1>5, <2>2
<1>7. pv \in Memory /\ pv..(pv + n - 1) \subseteq Memory
  BY <1>2, <1>3, <1>4, <1>5 DEF Memory
<1>8. ASSUME NEW o \in HandedOut
      PROVE  (o.pv..(o.pv + o.size - 1)) \intersect (pv..(pv + n - 1)) = {}
  <2>1. PICK m \in allocated : o = Handed(m)
    BY <1>8 DEF HandedOut
  <2>2. PICK c, k, t : c = m.block /\ k = m.asked /\ t = xBlockSize[c]
    OBVIOUS
  <2>3. /\ c \in Owned /\ c \in Int /\ k \in Nat /\ t \in Nat /\ k + h <= t
    BY <1>1, <1>2, <2>2, MemoryOfOwner
  <2>4. o.pv = c + h /\ o.size = k
    BY <1>1, <2>1, <2>2, HandedFacts
  <2>5. c # b /\ c \in Blocks
    BY <1>4, <2>3 DEF Blocks
  <2>6. c + t <= b \/ b + s <= c
    <3>1. c < b \/ b < c
      BY <1>4, <2>3, <2>5
    <3> QED
      BY <1>2, <1>3, <1>4, <2>2, <2>5, <3>1, HeapFacts
  <2> QED
    BY <1>2, <1>3, <1>4, <1>5, <2>3, <2>4, <2>6
<1>9. HandedOut' = HandedOut \union {[pv |-> pv, size |-> n]}
  <2>1. PICK m : m = [block |-> b, asked |-> n]
    OBVIOUS
  <2>2. allocated' = allocated \union {m} /\ m.block = b /\ m.asked = n
    BY <1>1, <2>1 DEF Take
  <2>3. Handed(m) = [pv |-> pv, size |-> n]
    BY <1>1, <1>5, <2>2 DEF Handed
  <2>4. HandedOut' = HandedOut \union {Handed(m)}
    BY <2>2 DEF HandedOut, Handed
  <2> QED
    BY <2>3, <2>4
<1> QED
  BY <1>2, <1>6, <1>7, <1>8, <1>9

LEMMA FreeReleases ==
  ASSUME HeapInv, NEW t \in Callers, vPortFree(t)
  PROVE  \E o \in HandedOut : HandedOut' = HandedOut \ {o}
<1>1. PICK m \in allocated : allocated' = allocated \ {m}
  BY DEF vPortFree
<1>2. Initialised
  BY <1>1 DEF HeapInv, NotYetInv
<1>3. ASSUME NEW n \in allocated, Handed(n) = Handed(m)
      PROVE  n = m
  <2>1. n.block + xHeapStructSize = m.block + xHeapStructSize
    BY <1>3, HandedFacts
  <2>2. n.block \in Int /\ m.block \in Int
    BY <1>2, MemoryOfOwner
  <2>3. n.block = m.block
    BY <2>1, <2>2, ConstantsFacts
  <2> QED
    BY <1>2, <2>3 DEF HeapInv, OwnersInv, BlocksHaveOneOwner
<1>4. Handed(m) \in HandedOut
  BY DEF HandedOut
<1>5. HandedOut' = {Handed(n) : n \in allocated \ {m}}
  BY <1>1 DEF HandedOut, Handed
<1>6. HandedOut' = HandedOut \ {Handed(m)}
  BY <1>3, <1>5 DEF HandedOut
<1> QED
  BY <1>4, <1>6

LEMMA HeapStepRefines ==
  HeapInv /\ [HeapNext]_heapVars
    => [Allocator!Next]_<<uxStartAddress..(uxEndAddress - 1),
                          {[pv |-> m.block + xHeapStructSize, size |-> m.asked] :
                             m \in allocated}>>
<1> SUFFICES ASSUME HeapInv, [HeapNext]_heapVars
             PROVE  \/ /\ Memory' = Memory
                       /\ \/ \E pv \in Memory, size \in AskedFor :
                               Allocator!Allocate([pv |-> pv, size |-> size])
                          \/ \E o \in HandedOut : Allocator!Release(o)
                          \/ Allocator!Reset
                    \/ Memory' = Memory /\ HandedOut' = HandedOut
  BY DEF Allocator!Next, Memory, AskedFor, HandedOut, Handed
<1>1. Memory' = Memory
  <2>1. ucHeap' = ucHeap
    BY DEF HeapNext, heapVars, pvPortMalloc, pvPortCalloc, Malloc, SearchOn, Take, NotFound,
           vPortFree, InsertFreedBlock, IterateOn, prvInsertBlockIntoFreeList,
           xPortResetHeapMinimumEverFreeHeapSize, vPortHeapResetState
  <2> QED
    BY <2>1, SameHeap DEF Memory
<1>2. CASE Take
  <2>1. PICK pv \in Memory, size \in AskedFor :
          /\ size > 0 /\ pv % portBYTE_ALIGNMENT = 0
          /\ pv..(pv + size - 1) \subseteq Memory
          /\ \A o \in HandedOut :
               (o.pv..(o.pv + o.size - 1)) \intersect (pv..(pv + size - 1)) = {}
          /\ HandedOut' = HandedOut \union {[pv |-> pv, size |-> size]}
    BY <1>2, TakeAllocates
  <2>2. PICK m : m = [pv |-> pv, size |-> size]
    OBVIOUS
  <2>3. m.pv = pv /\ m.size = size
    BY <2>2
  <2>4. Allocator!Allocate(m)
    BY <2>1, <2>2, <2>3 DEF Allocator!Allocate, Allocator!Bytes, Memory, HandedOut, Handed
  <2> QED
    BY <1>1, <2>2, <2>4
<1>3. ASSUME NEW t \in Callers, vPortFree(t)
      PROVE  \E o \in HandedOut : Allocator!Release(o)
  <2>1. PICK o \in HandedOut : HandedOut' = HandedOut \ {o}
    BY <1>3, FreeReleases
  <2>2. Allocator!Release(o)
    BY <2>1 DEF Allocator!Release, HandedOut, Handed
  <2> QED
    BY <2>2
<1>4. CASE vPortHeapResetState
  <2>1. Allocator!Reset
    BY <1>4 DEF vPortHeapResetState, Allocator!Reset
  <2> QED
    BY <1>1, <2>1
<1>5. ASSUME allocated' = allocated
      PROVE  HandedOut' = HandedOut
  BY <1>5 DEF HandedOut, Handed
<1>6. \/ allocated' = allocated
      \/ Take \/ vPortHeapResetState
      \/ \E t \in Callers : vPortFree(t)
  BY DEF HeapNext, heapVars, pvPortMalloc, pvPortCalloc, Malloc, SearchOn, NotFound,
         InsertFreedBlock, IterateOn, prvInsertBlockIntoFreeList,
         xPortResetHeapMinimumEverFreeHeapSize
<1> QED
  BY <1>1, <1>2, <1>3, <1>4, <1>5, <1>6

(* What pvPortMalloc and pvPortCalloc return is aligned, of the size that   *)
(* was asked for and nobody else's, until vPortFree.                        *)
THEOREM HeapRefinement == HeapSpec => ImplementsAllocator
<1>1. HeapInit => Allocator!Init
  BY DEF HeapInit, Allocator!Init
<1> QED
  BY <1>1, HeapSpecInv, HeapStepRefines, PTL DEF HeapSpec, ImplementsAllocator, Allocator!Spec

=============================================================================

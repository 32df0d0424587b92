------------------------- MODULE FreeRTOSEventGroup -------------------------
(***************************************************************************)
(* An event group of event_groups.c, used by tasks (interrupts only use one *)
(* through xTimerPendFunctionCall, which this configuration leaves out).    *)
(*                                                                          *)
(* What is done with the scheduler suspended or in a critical section is a  *)
(* step.  A task that blocked goes on when it is scheduled again, which may *)
(* be long after it was woken or its time was over.                         *)
(***************************************************************************)
EXTENDS Integers, FiniteSetsExt

CONSTANTS
  Tasks,
  Bits,              \* the event bits
  Applications       \* how the group is used

(* The control bits of an event item.                                       *)
ControlBits == {"CLEAR_EVENTS_ON_EXIT", "WAIT_FOR_ALL", "UNBLOCKED_DUE_TO_BIT_SET"}

(* In a rendezvous the tasks only call xEventGroupSync, each to set its own *)
(* bit and to wait for all of them, and wait for ever.                      *)
ASSUME ConstantsAssumption ==
  /\ IsFiniteSet(Tasks) /\ IsFiniteSet(Bits)
  /\ \A a \in Applications :
       /\ DOMAIN a = {"rendezvous", "deletes", "sets", "waits"}
       /\ a.rendezvous \in BOOLEAN /\ a.deletes \in BOOLEAN
       /\ a.sets \subseteq SUBSET Bits
       /\ a.waits \subseteq [bits : (SUBSET Bits) \ {{}},
                             control : SUBSET {"CLEAR_EVENTS_ON_EXIT", "WAIT_FOR_ALL"}]
       /\ a.rendezvous => ~ a.deletes /\ a.sets = {} /\ a.waits = {}
  /\ (\E a \in Applications : a.rendezvous) => Tasks = Bits

VARIABLES
  application,
  exists,                  \* the group has not been deleted
  uxEventBits,
  xTasksWaitingForBits,
  xItemValue,              \* of a task's xEventListItem while it waits here
  pc,                      \* where a task is in its call
  wait,                    \* what it waits for: bits and control bits
  arrivals, returns        \* how often a task has begun and ended a rendezvous,
                           \* since the round all have returned from

vars == <<application, exists, uxEventBits, xTasksWaitingForBits, xItemValue, pc,
          wait, arrivals, returns>>
rounds == <<arrivals, returns>>

Nothing == [bits |-> {}, control |-> {}]

Group == exists /\ UNCHANGED <<application, exists>>

-----------------------------------------------------------------------------

prvTestWaitCondition(bits, w) ==
  IF "WAIT_FOR_ALL" \in w.control THEN w.bits \subseteq bits
  ELSE w.bits \intersect bits # {}

ClearedBy(w) == IF "CLEAR_EVENTS_ON_EXIT" \in w.control THEN w.bits ELSE {}

(* vTaskRemoveFromUnorderedEventList for these tasks: they become ready,    *)
(* with the bits that were set in their event item.                         *)
Wake(tasks, bits) ==
  [t \in Tasks |->
     IF t \in tasks
     THEN [bits |-> bits, control |-> {"UNBLOCKED_DUE_TO_BIT_SET"}] ELSE xItemValue[t]]

(* The walk of xEventGroupSetBits: every task whose bits match is woken, and*)
(* what they want cleared is cleared after all have been looked at.         *)
BitsAfterSetting(bits) == uxEventBits \union bits

MatchingNew(bits) ==                                                   \* mutant
  {t \in xTasksWaitingForBits : prvTestWaitCondition(bits, xItemValue[t])}
Matching(bits) ==
  {t \in xTasksWaitingForBits :
     prvTestWaitCondition(BitsAfterSetting(bits), xItemValue[t])}

BitsToClear(bits) == UNION {ClearedBy(xItemValue[t]) : t \in Matching(bits)}

BitsLeft(bits) == BitsAfterSetting(bits) \ BitsToClear(bits)

(* vTaskPlaceOnUnorderedEventList: the task blocks, with what it waits for  *)
(* in its event item.                                                       *)
Block(t, w, items) ==
  /\ pc' = [pc EXCEPT ![t] = "blocked"]
  /\ wait' = [wait EXCEPT ![t] = w]
  /\ xItemValue' = [items EXCEPT ![t] = w]

-----------------------------------------------------------------------------
(* The calls.                                                               *)

Calls(t) == pc[t] = "application" /\ Group

(* Mutant: the tasks are told the bits that are left.                       *)
SetAndTellBitsLeft(t) ==
  /\ Calls(t)
  /\ \E bits \in application.sets :
       /\ xTasksWaitingForBits' = xTasksWaitingForBits \ Matching(bits)
       /\ xItemValue' = Wake(Matching(bits), BitsLeft(bits))
       /\ uxEventBits' = BitsLeft(bits)
  /\ UNCHANGED <<pc, wait, rounds>>

xEventGroupSetBits(t) ==
  /\ Calls(t)
  /\ \E bits \in application.sets :
       /\ xTasksWaitingForBits' = xTasksWaitingForBits \ Matching(bits)
       /\ xItemValue' = Wake(Matching(bits), BitsAfterSetting(bits))
       /\ uxEventBits' = BitsLeft(bits)
  /\ UNCHANGED <<pc, wait, rounds>>

xEventGroupClearBits(t) ==
  /\ Calls(t)
  /\ \E bits \in application.sets : uxEventBits' = uxEventBits \ bits
  /\ UNCHANGED <<xTasksWaitingForBits, xItemValue, pc, wait, rounds>>

xEventGroupWaitBits(t) ==
  /\ Calls(t)
  /\ \E w \in application.waits :
       IF prvTestWaitCondition(uxEventBits, w)
       THEN /\ uxEventBits' = uxEventBits \ ClearedBy(w)
            /\ UNCHANGED <<xTasksWaitingForBits, xItemValue, pc, wait>>
       ELSE /\ xTasksWaitingForBits' = xTasksWaitingForBits \union {t}
            /\ Block(t, w, xItemValue)
            /\ UNCHANGED uxEventBits
  /\ UNCHANGED rounds

(* Mutant: the bits of a complete rendezvous stay set.                      *)
SyncKeepingBits(t, set, wanted) ==
  LET w == [bits |-> wanted, control |-> {"WAIT_FOR_ALL"}]
      items == Wake(Matching(set), BitsAfterSetting(set))
  IN  /\ uxEventBits' = BitsLeft(set)
      /\ IF wanted \subseteq BitsAfterSetting(set)
         THEN /\ xTasksWaitingForBits' = xTasksWaitingForBits \ Matching(set)
              /\ xItemValue' = items
              /\ UNCHANGED <<pc, wait>>
         ELSE /\ xTasksWaitingForBits' =
                   (xTasksWaitingForBits \ Matching(set)) \union {t}
              /\ Block(t, w, items)

(* xEventGroupSync sets bits, as xEventGroupSetBits does, and waits for     *)
(* others; all bits of the rendezvous are cleared when it is complete.      *)
SyncOn(t, set, wanted) ==
  LET w == [bits |-> wanted, control |-> {"CLEAR_EVENTS_ON_EXIT", "WAIT_FOR_ALL"}]
      complete == wanted \subseteq BitsAfterSetting(set)
      items == Wake(Matching(set), BitsAfterSetting(set))
  IN  IF complete
      THEN /\ xTasksWaitingForBits' = xTasksWaitingForBits \ Matching(set)
           /\ uxEventBits' = BitsLeft(set) \ wanted
           /\ xItemValue' = items
           /\ UNCHANGED <<pc, wait>>
      ELSE /\ xTasksWaitingForBits' =
                (xTasksWaitingForBits \ Matching(set)) \union {t}
           /\ uxEventBits' = BitsLeft(set)
           /\ Block(t, w, items)

xEventGroupSync(t) ==
  /\ Calls(t)
  /\ ~ application.rendezvous
  /\ \E set \in application.sets, w \in application.waits : SyncOn(t, set, w.bits)
  /\ UNCHANGED rounds

Count(begun, ended) ==
  LET oldest == Min({ended[t] : t \in Tasks})
  IN  /\ arrivals' = [t \in Tasks |-> begun[t] - oldest]
      /\ returns' = [t \in Tasks |-> ended[t] - oldest]

Rendezvous(t) ==
  /\ Calls(t)
  /\ application.rendezvous
  /\ SyncOn(t, {t}, Bits)
  /\ Count([arrivals EXCEPT ![t] = @ + 1],
           IF Bits \subseteq BitsAfterSetting({t})
           THEN [returns EXCEPT ![t] = @ + 1] ELSE returns)

(* The time of a task is over, or the task is suspended and resumed: it     *)
(* leaves the list and becomes ready.  Its event item keeps its value.      *)
TimeOut(t) ==
  /\ ~ application.rendezvous
  /\ t \in xTasksWaitingForBits
  /\ xTasksWaitingForBits' = xTasksWaitingForBits \ {t}
  /\ UNCHANGED <<application, exists, uxEventBits, xItemValue, pc, wait, rounds>>

(* uxTaskResetEventItemValue and the rest of a call that blocked: a task    *)
(* that was not woken by its bits looks at them once more, and clears them  *)
(* if they have been set since its time was over.                           *)
Return(t) ==
  /\ pc[t] = "blocked" /\ t \notin xTasksWaitingForBits
  /\ IF /\ "UNBLOCKED_DUE_TO_BIT_SET" \notin xItemValue[t].control
        /\ prvTestWaitCondition(uxEventBits, wait[t])
     THEN uxEventBits' = uxEventBits \ ClearedBy(wait[t])
     ELSE UNCHANGED uxEventBits
  /\ xItemValue' = [xItemValue EXCEPT ![t] = Nothing]
  /\ wait' = [wait EXCEPT ![t] = Nothing]
  /\ pc' = [pc EXCEPT ![t] = "application"]
  /\ IF application.rendezvous THEN Count(arrivals, [returns EXCEPT ![t] = @ + 1])
     ELSE UNCHANGED rounds
  /\ UNCHANGED <<application, exists, xTasksWaitingForBits>>

(* The tasks that wait are woken without any bits.  The application deletes *)
(* the group when no task is about to look at it after its time was over.   *)
vEventGroupDelete(t) ==
  /\ exists /\ application.deletes
  /\ pc[t] = "application"
  /\ \A u \in Tasks :
       pc[u] = "blocked" /\ u \notin xTasksWaitingForBits =>
         "UNBLOCKED_DUE_TO_BIT_SET" \in xItemValue[u].control
  /\ exists' = FALSE
  /\ xTasksWaitingForBits' = {}
  /\ xItemValue' = Wake(xTasksWaitingForBits, {})
  /\ uxEventBits' = {}
  /\ UNCHANGED <<application, pc, wait, rounds>>

xEventGroupCreate ==
  /\ ~ exists
  /\ \A t \in Tasks : pc[t] = "application"
  /\ exists' = TRUE
  /\ uxEventBits' = {}
  /\ xTasksWaitingForBits' = {}
  /\ UNCHANGED <<application, xItemValue, pc, wait, rounds>>

Init ==
  /\ application \in Applications
  /\ exists = TRUE
  /\ uxEventBits = {}
  /\ xTasksWaitingForBits = {}
  /\ xItemValue = [t \in Tasks |-> Nothing]
  /\ pc = [t \in Tasks |-> "application"]
  /\ wait = [t \in Tasks |-> Nothing]
  /\ arrivals = [t \in Tasks |-> 0] /\ returns = [t \in Tasks |-> 0]

Next ==
  \/ \E t \in Tasks :
       \/ xEventGroupSetBits(t)
       \/ xEventGroupClearBits(t)
       \/ xEventGroupWaitBits(t)
       \/ xEventGroupSync(t)
       \/ Rendezvous(t)
       \/ TimeOut(t)
       \/ Return(t)
       \/ vEventGroupDelete(t)
  \/ xEventGroupCreate

Spec == Init /\ [][Next]_vars

-----------------------------------------------------------------------------

TypeOK ==
  LET Waits == [bits : SUBSET Bits, control : SUBSET ControlBits]
  IN  /\ application \in Applications
      /\ exists \in BOOLEAN
      /\ uxEventBits \subseteq Bits
      /\ xTasksWaitingForBits \subseteq {t \in Tasks : pc[t] = "blocked"}
      /\ xItemValue \in [Tasks -> Waits]
      /\ wait \in [Tasks -> Waits]
      /\ pc \in [Tasks -> {"application", "blocked"}]
      /\ arrivals \in [Tasks -> Nat] /\ returns \in [Tasks -> Nat]

(* No task waits for what is there: whatever the calls that set and clear   *)
(* bits and the timeouts of others, a task that waits would have to block   *)
(* again if it called now.                                                  *)
NobodyWaitsForSetBits ==
  \A t \in xTasksWaitingForBits : ~ prvTestWaitCondition(uxEventBits, wait[t])

(* A task that was woken has been given bits it was waiting for, also when  *)
(* they are cleared before it runs; only the deletion of the group gives it *)
(* none.                                                                    *)
WokenWithTheirBits ==
  \A t \in Tasks :
    "UNBLOCKED_DUE_TO_BIT_SET" \in xItemValue[t].control =>
      /\ t \notin xTasksWaitingForBits
      /\ prvTestWaitCondition(xItemValue[t].bits, wait[t]) \/ ~ exists

(* xEventGroupSync is a barrier: nobody returns from a round before all     *)
(* have come to it, and nobody is left waiting once they have.              *)
RendezvousIsComplete ==
  application.rendezvous =>
    \A t \in Tasks :
      /\ \A u \in Tasks : returns[t] <= arrivals[u]
      /\ t \in xTasksWaitingForBits => \E u \in Tasks : arrivals[u] < arrivals[t]
=============================================================================

-------------------------- MODULE FreeRTOSQueueMC --------------------------
(***************************************************************************)
(* Instances of FreeRTOSQueue for TLC.                                      *)
(***************************************************************************)
EXTENDS FreeRTOSQueue

CONSTANTS a, b, x, y

Forever == MaxDelay

QueueCalls == {"sendToBack", "sendToFront", "receive", "peek"}

Queue ==
  [uxLength |-> 2, uxItemSize |-> 1, calls |-> QueueCalls,
   isrCalls |-> {"sendToBack", "receive"}, waits |-> {0, Forever}]
ResetQueue ==
  [Queue EXCEPT !.calls = {"sendToBack", "receive", "reset"},
                !.isrCalls = {"sendToFront", "receive"}]
Mailbox ==
  [uxLength |-> 1, uxItemSize |-> 1,
   calls |-> {"overwrite", "sendToBack", "receive", "peek", "reset"},
   isrCalls |-> {"overwrite", "receive"}, waits |-> {0, Forever}]
Semaphore ==
  [uxLength |-> 1, uxItemSize |-> 0, calls |-> {"sendToBack", "take"},
   isrCalls |-> {"give", "receive"}, waits |-> {2}]

AllKinds == {Queue, ResetQueue, Mailbox, Semaphore}

(* a waits in front of b, whoever came first.                               *)
AFirst == [t \in Tasks |-> IF t = a THEN 0 ELSE 1]

(* All messages are alike.                                                  *)
MessagesAlike == Permutations(Messages)
=============================================================================

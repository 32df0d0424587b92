------------------------- MODULE FreeRTOSKernelMC -------------------------
(***************************************************************************)
(* Instances of FreeRTOSKernel for TLC: which calls each task makes, and    *)
(* with which deadlines and periods.                                        *)
(***************************************************************************)
EXTENDS FreeRTOSKernel

CONSTANTS a, b

(* Tasks that come and go, sleep, wait for events, suspend and resume each  *)
(* other and the scheduler.                                                 *)
AllCalls ==
  [t \in Tasks |->
     IF t = a
     THEN {"delay", "wait", "suspend", "resume", "suspendAll", "resumeAll", "create"}
     ELSE {"delay", "wait", "signal", "suspend", "catchUp", "create", "delete"}]

(* Periodic tasks, that wait for events in between, and that share the      *)
(* processor with another that sleeps and waits.                            *)
PeriodicCalls == [t \in Tasks |-> {"delayUntil", "suspendAll", "resumeAll"}]
PeriodicAndOther ==
  [t \in Tasks |-> IF t = a THEN {"delayUntil", "suspendAll", "resumeAll"}
                   ELSE {"delay", "wait"}]
PeriodOneTwo == [t \in Tasks |-> IF t = a THEN 1 ELSE 2]

NoPeriod == [t \in Tasks |-> 1]
OwnDeadline == [t \in Tasks |-> IF t = a THEN {1} ELSE {2}]
EarlyOrMax == [t \in Tasks |-> {1, MaxDelay}]
=============================================================================

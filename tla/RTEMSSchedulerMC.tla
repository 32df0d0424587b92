------------------------- MODULE RTEMSSchedulerMC -------------------------
(***************************************************************************)
(* Instances of RTEMSScheduler for TLC.                                     *)
(***************************************************************************)
EXTENDS RTEMSScheduler, TLC

CONSTANTS a, b, c, j, k

(* a owns two periods, so that one job may be released or cancelled while    *)
(* another decides its priority.                                            *)
TwoPeriodsOfA == [p \in Jobs |-> a]
OneEach == [p \in Jobs |-> IF p = j THEN a ELSE b]

(* The threads without a period differ in nothing.                          *)
OthersAlike == Permutations(Threads \ {a})

SamePriority == [t \in AllThreads |-> IF t = Idle THEN 3 ELSE 2]
=============================================================================

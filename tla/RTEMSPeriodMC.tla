--------------------------- MODULE RTEMSPeriodMC ---------------------------
(***************************************************************************)
(* Instances of RTEMSPeriod for TLC.                                        *)
(***************************************************************************)
EXTENDS RTEMSPeriod, TLC

CONSTANTS a, b, j, k

(* Two jobs of one thread, which without a job comes after the other one.   *)
TwoPeriodsOfA == [p \in Jobs |-> a]
OwnerLast == (a :> 3) @@ (b :> 2) @@ (Idle :> 4)
=============================================================================

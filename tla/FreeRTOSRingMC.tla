--------------------------- MODULE FreeRTOSRingMC ---------------------------
(***************************************************************************)
(* Instances of FreeRTOSRing for TLC.                                       *)
(***************************************************************************)
EXTENDS FreeRTOSRing

CONSTANTS a, b, i1, i2, i3, sorted, pending

Symmetric == Permutations(Callers)
=============================================================================

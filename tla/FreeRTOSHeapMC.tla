--------------------------- MODULE FreeRTOSHeapMC ---------------------------
(***************************************************************************)
(* An instance of FreeRTOSHeap for TLC.                                     *)
(***************************************************************************)
EXTENDS FreeRTOSHeap, TLC

CONSTANTS a, b

(* The largest sizes a size_t holds, for the overflow checks, among others   *)
(* that have to be rounded up or not.                                       *)
ManySizes == {0, 1, 2, 5, SIZE_MAX \div 2, SIZE_MAX - 2, SIZE_MAX}
(* The last product is too large for a size_t; its remainder is not.        *)
Arrays == {<<2, 2>>, <<SIZE_MAX \div 2 + 2, 2>>}

Symmetric == Permutations(Callers)
=============================================================================

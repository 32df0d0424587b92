------------------------- MODULE OrderedSequences -------------------------
(***************************************************************************)
(* Sequences of distinct items kept in the order of a value: what the       *)
(* ordered lists of FreeRTOS and the red-black trees of RTEMS are to their  *)
(* callers.                                                                 *)
(***************************************************************************)
EXTENDS Integers, SequencesExt

Items(list) == {list[i] : i \in 1..Len(list)}

Sorted(list, value) ==
  \A i, j \in 1..Len(list) : i < j => value[list[i]] <= value[list[j]]

NoDuplicates(list) ==
  \A i, j \in 1..Len(list) : i < j => list[i] # list[j]

(* The list with the (first) occurrence of the item taken out.              *)
Without(list, item) ==
  IF Contains(list, item)
  THEN RemoveAt(list, CHOOSE i \in 1..Len(list) : list[i] = item)
  ELSE list
=============================================================================

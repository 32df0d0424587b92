-------------------------- MODULE MemoryAllocator --------------------------
(***************************************************************************)
(* What an allocator promises: the memory it hands out is aligned, as large *)
(* as was asked for, and belongs to nobody else until it is given back.     *)
(***************************************************************************)
EXTENDS Integers

CONSTANTS Alignment, Sizes

VARIABLES
  memory,          \* the addresses it has at its disposal
  owned            \* the memory handed out: where, and how much was asked for

Bytes(m) == m.pv..(m.pv + m.size - 1)

Allocate(m) ==
  /\ m.size > 0 /\ m.pv % Alignment = 0
  /\ Bytes(m) \subseteq memory
  /\ \A o \in owned : Bytes(o) \intersect Bytes(m) = {}
  /\ owned' = owned \union {m}

Release(m) == m \in owned /\ owned' = owned \ {m}

(* All memory is taken back: the application starts anew.                   *)
Reset == owned' = {}

Init == owned = {}

Next ==
  /\ UNCHANGED memory
  /\ \/ \E pv \in memory, size \in Sizes : Allocate([pv |-> pv, size |-> size])
     \/ \E m \in owned : Release(m)
     \/ Reset

Spec == Init /\ [][Next]_<<memory, owned>>
=============================================================================

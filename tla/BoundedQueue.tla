---------------------------- MODULE BoundedQueue ----------------------------
(***************************************************************************)
(* What a queue of queue.c promises its users, as the comments of queue.h   *)
(* state it: a bounded sequence of items.                                   *)
(***************************************************************************)
EXTENDS Integers, Sequences

CONSTANTS
  Elements,   \* what can be queued
  Nothing     \* what there is before anything is received

VARIABLES
  length,     \* how many elements at most, decided at creation
  content,    \* the queued elements, the next to be received first
  received    \* what was received or peeked last

vars == <<length, content, received>>

Init ==
  /\ length \in Nat \ {0}
  /\ content \in Seq(Elements) /\ Len(content) <= length
  /\ received = Nothing

SendToBack(x) ==
  /\ Len(content) < length
  /\ content' = Append(content, x)
  /\ UNCHANGED <<length, received>>

SendToFront(x) ==
  /\ Len(content) < length
  /\ content' = <<x>> \o content
  /\ UNCHANGED <<length, received>>

(* For queues of length 1 only.                                             *)
Overwrite(x) ==
  /\ length = 1
  /\ content' = <<x>>
  /\ UNCHANGED <<length, received>>

Peek ==
  /\ content # <<>>
  /\ received' = Head(content)
  /\ UNCHANGED <<length, content>>

Receive ==
  /\ content # <<>>
  /\ received' = Head(content)
  /\ content' = Tail(content)
  /\ UNCHANGED length

Reset ==
  /\ content' = <<>>
  /\ UNCHANGED <<length, received>>

Next ==
  \/ \E x \in Elements : SendToBack(x) \/ SendToFront(x) \/ Overwrite(x)
  \/ Peek
  \/ Receive
  \/ Reset

Spec == Init /\ [][Next]_vars
=============================================================================

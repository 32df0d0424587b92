----------------------------- MODULE ByteStream -----------------------------
(***************************************************************************)
(* What a stream buffer or a message buffer promises its one writer and its *)
(* one reader (stream_buffer.h, message_buffer.h): bytes come out in the    *)
(* order in which they went in, messages whole.                             *)
(***************************************************************************)
EXTENDS Integers, Sequences

CONSTANTS
  Sendable   \* what may be sent: a stream is also sent the beginning of it

VARIABLES
  capacity,  \* how many bytes at most
  discrete,  \* TRUE: messages, each with its length before it
  content,
  received   \* what the reader was given last

vars == <<capacity, discrete, content, received>>

Frame(data) == IF discrete THEN <<Len(data)>> \o data ELSE data

Init ==
  /\ capacity \in Nat /\ discrete \in BOOLEAN
  /\ content = <<>> /\ received = <<>>

Send(data) ==
  /\ Len(content) + Len(Frame(data)) <= capacity
  /\ content' = content \o Frame(data)
  /\ UNCHANGED <<capacity, discrete, received>>

Receive(n) ==
  /\ content # <<>>
  /\ LET first == IF discrete THEN 2 ELSE 1
         last  == first + n - 1
     IN  /\ discrete => n = Head(content)
         /\ last <= Len(content)
         /\ received' = SubSeq(content, first, last)
         /\ content' = SubSeq(content, last + 1, Len(content))
  /\ UNCHANGED <<capacity, discrete>>

Reset == content' = <<>> /\ UNCHANGED <<capacity, discrete, received>>

Next ==
  \/ \E data \in Sendable : Send(data)
  \/ \E n \in 1..capacity : Receive(n)
  \/ Reset

Spec == Init /\ [][Next]_vars
=============================================================================

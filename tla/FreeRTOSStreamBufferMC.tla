----------------------- MODULE FreeRTOSStreamBufferMC -----------------------
(***************************************************************************)
(* Instances of FreeRTOSStreamBuffer for TLC.                               *)
(***************************************************************************)
EXTENDS FreeRTOSStreamBuffer

LOCAL INSTANCE FiniteSetsExt

CONSTANTS a, b, x, y

Quiet == [waits |-> {}, notifies |-> {}, clears |-> FALSE, suspends |-> FALSE]

Buffer(kind, length, levels, writer, reader, sends, sizes, times) ==
  [kind |-> kind, length |-> length, levels |-> levels, writer |-> writer,
   reader |-> reader, sends |-> sends, sizes |-> sizes, times |-> times]

With(r, s) == [f \in DOMAIN r \union DOMAIN s |-> IF f \in DOMAIN r THEN r[f] ELSE s[f]]

Data == {<<x>>, <<x, y>>}

(* Two tasks, a writer and a reader.  What is sent to a stream may be cut   *)
(* short, so that one string gives bytes at every offset of the ring.       *)
TwoTasks ==
  {With(Quiet, Buffer("stream", 3, {1, 2}, a, b, {<<x, y>>}, {1, 2}, Times)),
   With(Quiet, Buffer("batching", 4, {1, 2}, a, b, {<<x, y>>}, {2}, {"some", "forever"})),
   With(Quiet, Buffer("message", 5, {1}, a, b, Data, {2}, {"some", "forever"}))}

(* A task and an interrupt.                                                 *)
WithInterrupt ==
  {With(Quiet, Buffer("stream", 4, {1, 2}, "interrupt", b, Data, {1, 2},
                      {"some", "forever"})),
   With(Quiet, Buffer("message", 5, {1}, a, "interrupt", Data, {2}, {"some", "forever"}))}

(* Tasks that are notified by the application and suspended while they      *)
(* wait for the buffer.                                                     *)
Disturbed ==
  {With([Quiet EXCEPT !.notifies = {[action |-> "eNoAction", value |-> {}]},
                      !.suspends = TRUE],
        Buffer("message", 4, {1}, a, b, {<<x, y>>}, {2}, {"some"}))}

(* Notifications alone.                                                     *)
NoBuffer == Buffer("none", 2, {1}, a, b, {}, {}, {})
Request(op, ticks, entry, exit) ==
  [op |-> op, ticks |-> ticks, clearOnEntry |-> entry, clearOnExit |-> exit]

Notifying ==
  {With([waits |-> {Request("wait", "some", {0}, {1}), Request("take", "forever", {}, {}),
                    Request("takeAll", "some", {}, {})},
         notifies |-> {[action |-> act, value |-> {0}] : act \in Actions},
         clears |-> TRUE, suspends |-> TRUE], NoBuffer)}

(* A value stands for a number, of which Increment and Decrement are the    *)
(* successor and the predecessor in ulNotifiedValue.                        *)
Number(value) == MapThenSumSet(LAMBDA k : 2^k, value)
ASSUME ValuesAreNumbers ==
  \A value \in Values :
    /\ Number(Increment(value)) = (Number(value) + 1) % 2^ValueBits
    /\ Number(Decrement(value)) = (Number(value) - 1) % 2^ValueBits

AllApplications == TwoTasks \union WithInterrupt \union Disturbed \union Notifying
=============================================================================

------------------------ MODULE FreeRTOSEventGroupMC ------------------------
(***************************************************************************)
(* An instance of FreeRTOSEventGroup for TLC.                               *)
(***************************************************************************)
EXTENDS FreeRTOSEventGroup

CONSTANTS a, b, c

Wait(bits, control) == [bits |-> bits, control |-> control]

(* Tasks that set, clear and wait for bits in all ways ...                  *)
Signals ==
  [rendezvous |-> FALSE, deletes |-> TRUE, sets |-> {{a}, {b}, {a, b}},
   waits |-> {Wait({a, b}, control) :
                control \in SUBSET {"CLEAR_EVENTS_ON_EXIT", "WAIT_FOR_ALL"}}
               \union {Wait({a}, {"CLEAR_EVENTS_ON_EXIT"})}]

(* ... and tasks that meet.                                                 *)
Meeting == [rendezvous |-> TRUE, deletes |-> FALSE, sets |-> {}, waits |-> {}]

AllApplications == {Signals, Meeting}
=============================================================================

-------------------------- MODULE FreeRTOSTimersMC --------------------------
(***************************************************************************)
(* Instances of FreeRTOSTimers for TLC.                                     *)
(***************************************************************************)
EXTENDS FreeRTOSTimers

CONSTANTS s, d, c

AutoReload == {"AUTORELOAD"}

(* One timer with all there is to do with it ...                            *)
OneTimer(t, periods) ==
  [timers |-> {t} \X periods \X Modes, modes |-> Modes,
   taskCommands |-> {"start", "delete"},
   isrCommands |-> {"stop", "changePeriod"}]

(* ... and two that are started and stopped again and again.                *)
TwoTimers(p, q) ==
  [timers |-> {<<s, p, AutoReload>>} \union ({d} \X {q} \X Modes), modes |-> {},
   taskCommands |-> {}, isrCommands |-> {"start", "stop"}]

OneOrTwoTimers ==
  {OneTimer(s, {1}), OneTimer(d, Periods), TwoTimers(1, 2), TwoTimers(2, 2)}
=============================================================================

SPECIFICATION Spec
CONSTANTS
  s = s
  d = d
  c = c
  Timers = {s, d}
  StaticTimers = {s}
  Clients = {c}
  Applications <- OneOrTwoTimers
  NULL = NULL
  Periods = {1, 2}
  TickValues = 4
  QueueLength = 1
  MaxLate = 1
  MaxNow = 8
INVARIANTS
  TimersInTheirList
  NeverEarly
  DaemonSleepsUntilNextTimer
  ActiveTimersAreListed

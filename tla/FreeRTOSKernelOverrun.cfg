SPECIFICATION Spec
CONSTANTS
  a = a
  b = b
  Tasks = {a, b}
  Idle = Idle
  NULL = NULL
  MaxDelay = 7
  EventObjects = {}
  Calls <- PeriodicCalls
  MainCalls = {}
  IsrCalls = {}
  DelayTicks = {1}
  Period <- PeriodOneTwo
  InitialDeadlines <- OwnDeadline
  RefreshOnOverrun = FALSE
  MaxNesting = 1
  MaxPended = 2
  NumOverflows = 1
INVARIANTS
  EDFProperty

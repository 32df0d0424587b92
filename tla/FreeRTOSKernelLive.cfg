SPECIFICATION FairSpec
CONSTANTS
  a = a
  b = b
  Tasks = {a, b}
  Idle = Idle
  NULL = NULL
  MaxDelay = 7
  EventObjects = {"q"}
  Calls <- PeriodicAndOther
  MainCalls = {"suspend"}
  IsrCalls = {"signal"}
  DelayTicks = {2}
  Period <- PeriodOneTwo
  InitialDeadlines <- OwnDeadline
  RefreshOnOverrun = TRUE
  MaxNesting = 1
  MaxPended = 1
  NumOverflows = 1
INVARIANTS
  ReadyListDeadlineMatches
PROPERTIES
  SwitchesToEarliest
  DelayEnds
  InterruptsAreHonoured

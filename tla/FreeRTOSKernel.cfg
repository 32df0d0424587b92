SPECIFICATION Spec
CONSTANTS
  a = a
  b = b
  Tasks = {a, b}
  Idle = Idle
  NULL = NULL
  MaxDelay = 3
  EventObjects = {"q"}
  Calls <- AllCalls
  MainCalls = {"suspend"}
  IsrCalls = {"resume", "signal"}
  DelayTicks = {0, 1, 3}
  Period <- NoPeriod
  InitialDeadlines <- EarlyOrMax
  RefreshOnOverrun = FALSE
  MaxNesting = 2
  MaxPended = 1
  NumOverflows = 2
INVARIANTS
  ListDiscipline
  DelayedListsValid
  WaitersAreBlocked
  DeletedTasksAreFreed
  EDFProperty
PROPERTIES
  WakesExactlyOnTime
  NoTickLost

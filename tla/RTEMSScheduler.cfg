SPECIFICATION Spec
CONSTANTS
  a = a
  b = b
  c = c
  j = j
  k = k
  Threads = {a, b, c}
  Idle = Idle
  Jobs = {j, k}
  Owner <- TwoPeriodsOfA
  Real = Real
  MSB = 3
  InitialPriority <- SamePriority
  Priorities = {1}
  Deadlines = {1, 2}
  Version = "5.1"
SYMMETRY OthersAlike
INVARIANTS
  ReadyTreeWellFormed
  PrioritiesTakeEffect
  EDFDecision
PROPERTIES
  NotPreempted

SPECIFICATION FairPeriodSpec
CONSTANTS
  a = a
  b = b
  j = j
  k = k
  Threads = {a, b}
  Idle = Idle
  Jobs = {j, k}
  Owner <- TwoPeriodsOfA
  Real = Real
  MSB = 3
  InitialPriority <- OwnerLast
  Priorities = {}
  Deadlines = {1, 2}
  Version = "6.2"
  Null = Null
  MaxPostponed = 2
INVARIANTS
  PeriodsConsistent
  NobodyWaitsInVain
PROPERTIES
  ImplementsScheduler
  PeriodEnds

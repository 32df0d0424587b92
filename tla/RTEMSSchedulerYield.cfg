SPECIFICATION Spec
CONSTANTS
  a = a
  b = b
  c = c
  j = j
  k = k
  Threads = {a, b}
  Idle = Idle
  Jobs = {j, k}
  Owner <- OneEach
  Real = Real
  MSB = 3
  InitialPriority <- SamePriority
  Priorities = {}
  Deadlines = {1, 2}
  Version = "6.2"
PROPERTIES
  YieldTransfersControl

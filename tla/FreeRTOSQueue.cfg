SPECIFICATION Spec
CONSTANTS
  a = a
  b = b
  x = x
  y = y
  Tasks = {a, b}
  NULL = NULL
  Messages = {x, y}
  Kinds <- AllKinds
  MaxDelay = 3
  MaxLate = 1
  NumOverflows = 2
  EventValue <- AFirst
SYMMETRY MessagesAlike
INVARIANTS
  TimeoutIsGenuine
  SleepsForTheRest
  WaitersAreWoken
PROPERTIES
  ImplementsQueue

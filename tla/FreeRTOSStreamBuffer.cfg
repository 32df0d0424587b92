SPECIFICATION Spec
CONSTANTS
  a = a
  b = b
  x = x
  y = y
  Tasks = {a, b}
  NULL = NULL
  ValueBits = 2
  Bytes = {x, y}
  Applications <- AllApplications
INVARIANTS
  TypeOK
  NoNotificationIsMissed
  WaitersAreTold
PROPERTIES
  ImplementsByteStream
CHECK_DEADLOCK FALSE

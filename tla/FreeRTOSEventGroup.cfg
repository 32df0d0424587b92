SPECIFICATION Spec
CONSTANTS
  a = a
  b = b
  c = c
  Tasks = {a, b, c}
  Bits = {a, b, c}
  Applications <- AllApplications
INVARIANTS
  NobodyWaitsForSetBits
  WokenWithTheirBits
  RendezvousIsComplete

SPECIFICATION Spec
CONSTANTS
  a = a
  b = b
  i1 = i1
  i2 = i2
  i3 = i3
  sorted = sorted
  pending = pending
  Callers = {a, b}
  ListItems = {i1, i2, i3}
  Lists = {sorted, pending}
  SortedLists = {sorted}
  Values = {1, 2}
  portMAX_DELAY = 2
  NULL = NULL
SYMMETRY Symmetric
INVARIANTS
  ListInv
  WalksAdvance
PROPERTIES
  ImplementsOrderedLists

SPECIFICATION HeapSpec
CONSTANTS
  a = a
  b = b
  Callers = {a, b}
  NULL = NULL
  HeapAddresses = {4, 5}
  configTOTAL_HEAP_SIZE = 24
  xHeapStructSize = 2
  portBYTE_ALIGNMENT = 2
  SIZE_MAX = 63
  Requests <- ManySizes
  CallocRequests <- Arrays
SYMMETRY Symmetric
INVARIANTS
  BlocksTileTheHeap
  FailsOnlyWithoutRoom
PROPERTIES
  ImplementsAllocator

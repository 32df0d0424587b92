---------------------------- MODULE FreeRTOSHeap ----------------------------
(***************************************************************************)
(* The allocator of heap_4.c.  The heap is a row of blocks, each behind a   *)
(* BlockLink_t that holds its size and the bit that says whether the        *)
(* application owns it; the free ones are linked in address order.          *)
(*                                                                          *)
(* pvPortMalloc and the end of vPortFree walk along the links with the      *)
(* scheduler suspended, so no other call runs meanwhile.  A task that frees *)
(* a block clears the block's bit before that, so others may run while the  *)
(* block is neither owned nor free.                                         *)
(***************************************************************************)
EXTENDS Integers, FiniteSetsExt

CONSTANTS
  Callers,                 \* the tasks
  NULL,
  HeapAddresses,           \* where the linker may put ucHeap
  configTOTAL_HEAP_SIZE,
  xHeapStructSize,         \* the size of a BlockLink_t, aligned
  portBYTE_ALIGNMENT,
  SIZE_MAX,                \* the largest size_t, all bits ones
  Requests,                \* arguments of pvPortMalloc
  CallocRequests           \* and of pvPortCalloc, a number and a size

(* xStart is outside of the heap, and so is address 0.                      *)
ASSUME HeapAssumption ==
  /\ HeapAddresses \subseteq Nat \ {0}
  /\ NULL \notin Int
  /\ portBYTE_ALIGNMENT \in Nat \ {0} /\ xHeapStructSize \in Nat \ {0}
  /\ xHeapStructSize % portBYTE_ALIGNMENT = 0
  /\ SIZE_MAX \in Nat
  /\ configTOTAL_HEAP_SIZE \in (3 * xHeapStructSize)..(SIZE_MAX \div 2 + 1)
  /\ Requests \subseteq 0..SIZE_MAX
  /\ CallocRequests \subseteq (0..SIZE_MAX) \X (0..SIZE_MAX)

xStart == -1

VARIABLES
  ucHeap,             \* decided by the linker
  pxEnd,              \* NULL until the first allocation
  pxNextFreeBlock, xBlockSize,      \* of xStart and of a block at an address
  xFreeBytesRemaining, xMinimumEverFreeBytesRemaining,
  allocated,          \* the blocks with the bit set, and what was asked for
  freeing,            \* the block whose bit a task has cleared
  walk,               \* who walks along the links: "none", "malloc", "free"
  position,           \* its pxPreviousBlock or pxIterator
  xWantedSize, asked, \* of pvPortMalloc, and what its caller wants
  pxBlockToInsert     \* of prvInsertBlockIntoFreeList

links == <<pxEnd, pxNextFreeBlock, xBlockSize>>
counters == <<xFreeBytesRemaining, xMinimumEverFreeBytesRemaining>>
walkVars == <<walk, position, xWantedSize, asked, pxBlockToInsert>>
heapVars == <<ucHeap, links, counters, allocated, freeing, walkVars>>

-----------------------------------------------------------------------------

AlignDown(a) == a - (a % portBYTE_ALIGNMENT)

uxStartAddress == AlignDown(ucHeap + portBYTE_ALIGNMENT - 1)
uxEndAddress ==
  LET xTotalHeapSize == configTOTAL_HEAP_SIZE - (uxStartAddress - ucHeap)
  IN  AlignDown(uxStartAddress + xTotalHeapSize - xHeapStructSize)

Addresses == ucHeap..(ucHeap + configTOTAL_HEAP_SIZE - 1)
Headers == {xStart} \union Addresses

prvHeapInit ==
  /\ pxEnd' = uxEndAddress
  /\ pxNextFreeBlock' = [a \in Headers |->
                           IF a = xStart THEN uxStartAddress
                           ELSE IF a = uxStartAddress THEN uxEndAddress ELSE NULL]
  /\ xBlockSize' = [a \in Headers |->
                      IF a = uxStartAddress THEN uxEndAddress - uxStartAddress ELSE 0]
  /\ xFreeBytesRemaining' = uxEndAddress - uxStartAddress
  /\ xMinimumEverFreeBytesRemaining' = uxEndAddress - uxStartAddress

heapADD_WILL_OVERFLOW(a, b) == a > SIZE_MAX - b
NeverOverflows(a, b) == FALSE                                          \* mutant
heapMULTIPLY_WILL_OVERFLOW(a, b) == a > 0 /\ b > SIZE_MAX \div a

(* The size of the block for a request, 0 when it cannot be told.           *)
WantedSize(request) ==
  LET size == request + xHeapStructSize
      missing == (-size) % portBYTE_ALIGNMENT
  IN  IF \/ request = 0
         \/ heapADD_WILL_OVERFLOW(request, xHeapStructSize)
         \/ heapADD_WILL_OVERFLOW(size, missing)
      THEN 0 ELSE size + missing

(* The top bit of a size is kept for the owner.                             *)
heapBLOCK_SIZE_IS_VALID(size) == size <= SIZE_MAX \div 2

IsSearched(wanted, free) == heapBLOCK_SIZE_IS_VALID(wanted) /\ wanted > 0 /\ wanted <= free

EndOfWalk ==
  /\ walk' = "none" /\ position' = xStart
  /\ xWantedSize' = 0 /\ asked' = 0 /\ pxBlockToInsert' = NULL

-----------------------------------------------------------------------------
(* pvPortMalloc up to its walk, called for so many bytes; the caller wants  *)
(* that many of them, or as many as it told pvPortCalloc.                   *)
Malloc(request, number) ==
  /\ walk = "none"
  /\ IF pxEnd = NULL THEN prvHeapInit ELSE UNCHANGED <<links, counters>>
  /\ IF IsSearched(WantedSize(request), xFreeBytesRemaining')
     THEN /\ walk' = "malloc" /\ position' = xStart
          /\ xWantedSize' = WantedSize(request) /\ asked' = number
     ELSE UNCHANGED <<walk, position, xWantedSize, asked>>
  /\ UNCHANGED <<ucHeap, allocated, freeing, pxBlockToInsert>>

pvPortMalloc == \E request \in Requests : Malloc(request, request)

(* The product is taken modulo the width of a size_t, which the check       *)
(* before it makes harmless.                                                *)
pvPortCalloc ==
  \E r \in CallocRequests :
    /\ ~ heapMULTIPLY_WILL_OVERFLOW(r[1], r[2])
    /\ Malloc((r[1] * r[2]) % (SIZE_MAX + 1), r[1] * r[2])

pxBlock == pxNextFreeBlock[position]

(* A round of the loop.                                                     *)
TooSmall == xBlockSize[pxBlock] < xWantedSize /\ pxNextFreeBlock[pxBlock] # NULL

SearchOn ==
  /\ walk = "malloc" /\ TooSmall
  /\ position' = pxBlock
  /\ UNCHANGED <<ucHeap, links, counters, allocated, freeing, walk, xWantedSize, asked,
                 pxBlockToInsert>>

NotFound ==
  /\ walk = "malloc" /\ ~ TooSmall /\ pxBlock = pxEnd
  /\ EndOfWalk
  /\ UNCHANGED <<ucHeap, links, counters, allocated, freeing>>

(* What is left of a block is split off when it is worth it.                *)
heapMINIMUM_BLOCK_SIZE == 2 * xHeapStructSize

IsSplit == xBlockSize[pxBlock] - xWantedSize > heapMINIMUM_BLOCK_SIZE
NewBlock == pxBlock + xWantedSize

(* Mutant: the size of a block that is split is not reduced.                *)
SizesKept == IF IsSplit THEN [xBlockSize EXCEPT ![NewBlock] = xBlockSize[pxBlock] - xWantedSize]
             ELSE xBlockSize

SizesAfterTake ==
  IF IsSplit
  THEN [xBlockSize EXCEPT ![pxBlock] = xWantedSize,
                          ![NewBlock] = xBlockSize[pxBlock] - xWantedSize]
  ELSE xBlockSize

Take ==
  /\ walk = "malloc" /\ ~ TooSmall /\ pxBlock # pxEnd
  /\ xBlockSize' = SizesAfterTake
  /\ pxNextFreeBlock' =
       [a \in Headers |->
          IF a = position THEN IF IsSplit THEN NewBlock ELSE pxNextFreeBlock[pxBlock]
          ELSE IF a = pxBlock THEN NULL
          ELSE IF IsSplit /\ a = NewBlock THEN pxNextFreeBlock[pxBlock]
          ELSE pxNextFreeBlock[a]]
  /\ LET left == xFreeBytesRemaining - xBlockSize'[pxBlock]
     IN  /\ xFreeBytesRemaining' = left
         /\ xMinimumEverFreeBytesRemaining' =
              IF left < xMinimumEverFreeBytesRemaining
              THEN left ELSE xMinimumEverFreeBytesRemaining
  /\ allocated' = allocated \union {[block |-> pxBlock, asked |-> asked]}
  /\ EndOfWalk
  /\ UNCHANGED <<ucHeap, pxEnd, freeing>>

-----------------------------------------------------------------------------
(* vPortFree up to vTaskSuspendAll: the bit and the contents are cleared.   *)
vPortFree(t) ==
  /\ walk = "none" /\ freeing[t] = NULL
  /\ \E m \in allocated :
       /\ pxNextFreeBlock[m.block] = NULL
       /\ allocated' = allocated \ {m}
       /\ freeing' = [freeing EXCEPT ![t] = m.block]
  /\ UNCHANGED <<ucHeap, links, counters, walkVars>>

(* The rest of vPortFree up to the loop.                                    *)
InsertFreedBlock(t) ==
  /\ walk = "none" /\ freeing[t] # NULL
  /\ xFreeBytesRemaining' = xFreeBytesRemaining + xBlockSize[freeing[t]]
  /\ walk' = "free" /\ position' = xStart
  /\ pxBlockToInsert' = freeing[t] /\ freeing' = [freeing EXCEPT ![t] = NULL]
  /\ UNCHANGED <<ucHeap, links, xMinimumEverFreeBytesRemaining, allocated, xWantedSize,
                 asked>>

IterateOn ==
  /\ walk = "free" /\ pxNextFreeBlock[position] < pxBlockToInsert
  /\ position' = pxNextFreeBlock[position]
  /\ UNCHANGED <<ucHeap, links, counters, allocated, freeing, walk, xWantedSize, asked,
                 pxBlockToInsert>>

(* The block goes behind the last free one with a lower address, and is     *)
(* merged with its neighbours.  The headers inside a merged block are never *)
(* read again, and not kept here.                                           *)
AfterFree == position + xBlockSize[position] = pxBlockToInsert
Lower == IF AfterFree THEN position ELSE pxBlockToInsert
LowerSize ==
  xBlockSize[pxBlockToInsert] + (IF AfterFree THEN xBlockSize[position] ELSE 0)

NotMerged == FALSE                                                     \* mutant
BeforeFree == Lower + LowerSize = pxBlock /\ pxBlock # pxEnd

Absorbed ==
  (IF AfterFree THEN {pxBlockToInsert} ELSE {}) \union (IF BeforeFree THEN {pxBlock} ELSE {})

prvInsertBlockIntoFreeList ==
  /\ walk = "free" /\ ~ (pxNextFreeBlock[position] < pxBlockToInsert)
  /\ pxNextFreeBlock' =
       [a \in Headers |->
          IF a \in Absorbed THEN NULL
          ELSE IF a = Lower THEN IF BeforeFree THEN pxNextFreeBlock[pxBlock] ELSE pxBlock
          ELSE IF a = position THEN Lower ELSE pxNextFreeBlock[a]]
  /\ xBlockSize' =
       [a \in Headers |->
          IF a \in Absorbed THEN 0
          ELSE IF a = Lower THEN LowerSize + (IF BeforeFree THEN xBlockSize[pxBlock] ELSE 0)
          ELSE xBlockSize[a]]
  /\ EndOfWalk
  /\ UNCHANGED <<ucHeap, pxEnd, counters, allocated, freeing>>

xPortResetHeapMinimumEverFreeHeapSize ==
  /\ walk = "none"
  /\ xMinimumEverFreeBytesRemaining' = xFreeBytesRemaining
  /\ UNCHANGED <<ucHeap, links, xFreeBytesRemaining, allocated, freeing, walkVars>>

(* Called before the scheduler is started again, when no task is left.      *)
vPortHeapResetState ==
  /\ walk = "none" /\ \A t \in Callers : freeing[t] = NULL
  /\ pxEnd' = NULL
  /\ xFreeBytesRemaining' = 0 /\ xMinimumEverFreeBytesRemaining' = 0
  /\ allocated' = {}
  /\ UNCHANGED <<ucHeap, pxNextFreeBlock, xBlockSize, freeing, walkVars>>

HeapInit ==
  /\ ucHeap \in HeapAddresses
  /\ pxEnd = NULL
  /\ pxNextFreeBlock = [a \in Headers |-> NULL]
  /\ xBlockSize = [a \in Headers |-> 0]
  /\ xFreeBytesRemaining = 0 /\ xMinimumEverFreeBytesRemaining = 0
  /\ allocated = {}
  /\ freeing = [t \in Callers |-> NULL]
  /\ walk = "none" /\ position = xStart
  /\ xWantedSize = 0 /\ asked = 0 /\ pxBlockToInsert = NULL

HeapNext ==
  \/ pvPortMalloc
  \/ pvPortCalloc
  \/ SearchOn \/ Take \/ NotFound
  \/ \E t \in Callers : vPortFree(t) \/ InsertFreedBlock(t)
  \/ IterateOn \/ prvInsertBlockIntoFreeList
  \/ xPortResetHeapMinimumEverFreeHeapSize
  \/ vPortHeapResetState

HeapSpec == HeapInit /\ [][HeapNext]_heapVars

-----------------------------------------------------------------------------

Initialised == pxEnd # NULL

(* The blocks there are: free, owned, or on the way from owned to free.     *)
Free == {b \in Addresses : Initialised /\ pxNextFreeBlock[b] # NULL}
Owned == {m.block : m \in allocated}
Freed == ({freeing[t] : t \in Callers} \union {pxBlockToInsert}) \ {NULL}
Blocks == Free \union Owned \union Freed

Extent(b) == b..(b + xBlockSize[b] - 1)
FreeBytes == UNION {Extent(b) : b \in Free}

HeapTypeOK ==
  /\ ucHeap \in HeapAddresses
  /\ pxEnd \in {NULL, uxEndAddress}
  /\ pxNextFreeBlock \in [Headers -> Addresses \union {NULL}]
  /\ xBlockSize \in [Headers -> 0..configTOTAL_HEAP_SIZE]
  /\ xFreeBytesRemaining \in 0..configTOTAL_HEAP_SIZE
  /\ xMinimumEverFreeBytesRemaining \in 0..configTOTAL_HEAP_SIZE
  /\ allocated \subseteq [block : Addresses, asked : Nat]
  /\ freeing \in [Callers -> Addresses \union {NULL}]
  /\ walk \in {"none", "malloc", "free"}
  /\ position \in Headers
  /\ xWantedSize \in 0..configTOTAL_HEAP_SIZE /\ asked \in 0..SIZE_MAX
  /\ pxBlockToInsert \in Addresses \union {NULL}

(* Every byte of the heap is in one block, whatever was split, freed and    *)
(* merged, and also while a block is being freed.                           *)
BlocksCoverTheHeap ==
  /\ UNION {Extent(b) : b \in Blocks} = uxStartAddress..(pxEnd - 1)
  /\ \A b, c \in Blocks : b # c => Extent(b) \intersect Extent(c) = {}
  /\ \A b \in Blocks : xBlockSize[b] > 0 /\ b % portBYTE_ALIGNMENT = 0

(* No block is owned and free, has two owners, or is freed twice.           *)
BlocksHaveOneOwner ==
  /\ Free \intersect (Owned \union Freed) = {} /\ Owned \intersect Freed = {}
  /\ \A m, n \in allocated : m.block = n.block => m = n
  /\ \A t, u \in Callers : freeing[t] = freeing[u] /\ freeing[t] # NULL => t = u

(* The links lead through all free blocks in the order of their addresses,  *)
(* and of two free blocks none begins where the other ends.                 *)
FreeBlocksAreLinked ==
  /\ \A p \in Free \union {xStart} :
       /\ pxNextFreeBlock[p] \in Free \union {pxEnd} /\ p < pxNextFreeBlock[p]
       /\ \A b \in Free \union {pxEnd} : p < b => pxNextFreeBlock[p] <= b
  /\ \A b, c \in Free : b + xBlockSize[b] # c

(* What xPortGetFreeHeapSize and its minimum return.                        *)
FreeBytesAreCounted ==
  /\ walk # "free" => xFreeBytesRemaining = Cardinality(FreeBytes)
  /\ xMinimumEverFreeBytesRemaining <= xFreeBytesRemaining

(* The blocks tile the heap: no byte is lost and none is in two blocks; the *)
(* list has all the free ones, merged, and the count is theirs.             *)
BlocksTileTheHeap ==
  /\ HeapTypeOK
  /\ Initialised => /\ BlocksCoverTheHeap /\ BlocksHaveOneOwner
                    /\ FreeBlocksAreLinked /\ FreeBytesAreCounted

(* An allocation fails only when there is no room for it: where there is a  *)
(* run of free bytes that is long enough, pvPortMalloc begins to search,    *)
(* and no search for it ends without a block, since a freed block was       *)
(* merged with both its neighbours.                                         *)
HasRoom(request) ==
  \E a \in FreeBytes :
    /\ a % portBYTE_ALIGNMENT = 0
    /\ a..(a + request + xHeapStructSize - 1) \subseteq FreeBytes

FailsOnlyWithoutRoom ==
  Initialised =>
    /\ \A request \in Requests \ {0} :
         HasRoom(request) => IsSearched(WantedSize(request), xFreeBytesRemaining)
    /\ walk = "malloc" /\ pxBlock = pxEnd => ~ HasRoom(asked)

(* heap_4 is an allocator.                                                  *)
Allocator == INSTANCE MemoryAllocator WITH
  Alignment <- portBYTE_ALIGNMENT,
  Sizes <- Requests \union {r[1] * r[2] : r \in CallocRequests},
  memory <- uxStartAddress..(uxEndAddress - 1),
  owned <- {[pv |-> m.block + xHeapStructSize, size |-> m.asked] : m \in allocated}

ImplementsAllocator == Allocator!Spec
=============================================================================

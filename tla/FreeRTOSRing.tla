---------------------------- MODULE FreeRTOSRing ----------------------------
(***************************************************************************)
(* list.c with its pointers.  A List_t is a ring of items and of its own    *)
(* end marker xListEnd, linked both ways; the end marker is named by the    *)
(* list it belongs to.                                                      *)
(*                                                                          *)
(* Most callers have suspended the scheduler and leave interrupts enabled;  *)
(* the timer task does not even suspend the scheduler.  So their calls are  *)
(* taken apart into the writes of the code.  An interrupt, or a task in a   *)
(* critical section, makes a whole call at once.  What keeps them apart is  *)
(* that nobody touches the list or the item of a call under way: a queue is *)
(* locked meanwhile, the timer task's lists are its own, and a task that an *)
(* interrupt readies waits in xPendingReadyList by its other item.          *)
(***************************************************************************)
EXTENDS OrderedSequences

CONSTANTS
  Callers,             \* of list.c, that pre-empt each other
  ListItems, Lists,
  SortedLists,         \* the lists that vListInsert fills; the others are
                       \* filled by vListInsertEnd
  Values,              \* the values the callers give to items
  portMAX_DELAY,
  NULL

Nodes == ListItems \union Lists

ASSUME ListsAssumption ==
  /\ ListItems \intersect Lists = {} /\ NULL \notin Nodes
  /\ SortedLists \subseteq Lists
  /\ portMAX_DELAY \in Nat /\ Values \subseteq 0..portMAX_DELAY

VARIABLES
  pxNext, pxPrevious, xItemValue,    \* of a ListItem_t or an xListEnd
  pxContainer,                       \* of a ListItem_t
  pxIndex, uxNumberOfItems,          \* of a List_t
  contents,                          \* of a List_t: its items in the order of the
                                     \* links, changed by the write that links or
                                     \* unlinks (no variable of the code)
  call                               \* of each caller: its call under way
                                     \* and the call's locals

vars ==
  <<pxNext, pxPrevious, xItemValue, pxContainer, pxIndex, uxNumberOfItems, contents, call>>

links == <<pxNext, pxPrevious>>
heads == <<pxIndex, uxNumberOfItems>>

-----------------------------------------------------------------------------
(* A call under way: the statement it has come to, its list and its item;   *)
(* node is pxIterator of vListInsert and pxIndex of vListInsertEnd.         *)

CallAt(statement, l, i, n) == [at |-> statement, list |-> l, item |-> i, node |-> n]
NoCall == CallAt("returned", NULL, NULL, NULL)

Idle(c) == call[c] = NoCall

(* The list and the item are nobody else's while the call is under way.     *)
InUse(n) == n # NULL /\ \E c \in Callers : n \in {call[c].list, call[c].item}

Begin(c, new) ==
  /\ Idle(c) /\ ~InUse(new.list) /\ ~InUse(new.item)
  /\ call' = [call EXCEPT ![c] = new]

At(c, statement) == call[c].at = statement
GoTo(c, statement) == call' = [call EXCEPT ![c].at = statement]
Return(c) == call' = [call EXCEPT ![c] = NoCall]

list(c) == call[c].list
item(c) == call[c].item
node(c) == call[c].node

(* A ring has a list's items in their order, with the end marker before and *)
(* behind them.  The place of a node in it, and the node at a place.        *)
Place(l, s, n) == IF n = l THEN 0 ELSE CHOOSE k \in 1..Len(s) : s[k] = n
Node(l, s, k) == IF k \in 1..Len(s) THEN s[k] ELSE l

LinkBehind(l, n, i) ==
  contents' = [contents EXCEPT ![l] = InsertAt(@, Place(l, @, n) + 1, i)]
Unlink(l, i) == contents' = [contents EXCEPT ![l] = Without(@, i)]

Linked(i) == pxContainer[i] # NULL

-----------------------------------------------------------------------------
(* vListInsert                                                              *)

AlwaysWalk(l, i) == CallAt("walk", l, i, l)                            \* mutant

(* The loop would not end if the value were that of the end marker.         *)
StartOfWalk(l, i) ==
  IF xItemValue[i] = portMAX_DELAY THEN CallAt("setNext", l, i, pxPrevious[l])
  ELSE CallAt("walk", l, i, l)

vListInsert(c, l, i) ==
  /\ ~Linked(i)
  /\ Begin(c, StartOfWalk(l, i))
  /\ UNCHANGED <<links, xItemValue, pxContainer, heads, contents>>

PassesSmaller(i, n) == xItemValue[pxNext[n]] < xItemValue[i]           \* mutant

Passes(i, n) == xItemValue[pxNext[n]] <= xItemValue[i]

Walk(c) ==
  /\ At(c, "walk")
  /\ IF Passes(item(c), node(c)) THEN call' = [call EXCEPT ![c].node = pxNext[@]]
     ELSE GoTo(c, "setNext")
  /\ UNCHANGED <<links, xItemValue, pxContainer, heads, contents>>

SetNext(c) ==
  /\ At(c, "setNext")
  /\ pxNext' = [pxNext EXCEPT ![item(c)] = pxNext[node(c)]]
  /\ GoTo(c, "setPreviousOfNext")
  /\ UNCHANGED <<pxPrevious, xItemValue, pxContainer, heads, contents>>

(* Mutant: the old neighbour goes on pointing past the new item.            *)
LeavePreviousOfNext(c) ==
  /\ At(c, "setPreviousOfNext")
  /\ GoTo(c, "setPrevious")
  /\ UNCHANGED <<links, xItemValue, pxContainer, heads, contents>>

SetPreviousOfNext(c) ==
  /\ At(c, "setPreviousOfNext")
  /\ pxPrevious' = [pxPrevious EXCEPT ![pxNext[item(c)]] = item(c)]
  /\ GoTo(c, "setPrevious")
  /\ UNCHANGED <<pxNext, xItemValue, pxContainer, heads, contents>>

SetPrevious(c) ==
  /\ At(c, "setPrevious")
  /\ pxPrevious' = [pxPrevious EXCEPT ![item(c)] = node(c)]
  /\ GoTo(c, "setNextOfNode")
  /\ UNCHANGED <<pxNext, xItemValue, pxContainer, heads, contents>>

SetNextOfNode(c) ==
  /\ At(c, "setNextOfNode")
  /\ pxNext' = [pxNext EXCEPT ![node(c)] = item(c)]
  /\ LinkBehind(list(c), node(c), item(c))
  /\ GoTo(c, "setContainer")
  /\ UNCHANGED <<pxPrevious, xItemValue, pxContainer, heads>>

(* Both insertions end with these.                                          *)
SetContainer(c) ==
  /\ At(c, "setContainer")
  /\ pxContainer' = [pxContainer EXCEPT ![item(c)] = list(c)]
  /\ GoTo(c, "countUp")
  /\ UNCHANGED <<links, xItemValue, heads, contents>>

CountUp(c) ==
  /\ At(c, "countUp")
  /\ uxNumberOfItems' = [uxNumberOfItems EXCEPT ![list(c)] = @ + 1]
  /\ Return(c)
  /\ UNCHANGED <<links, xItemValue, pxContainer, pxIndex, contents>>

-----------------------------------------------------------------------------
(* vListInsertEnd: in front of the node that pxIndex is at.                 *)

vListInsertEnd(c, l, i) ==
  /\ ~Linked(i)
  /\ Begin(c, CallAt("setNextToIndex", l, i, pxIndex[l]))
  /\ UNCHANGED <<links, xItemValue, pxContainer, heads, contents>>

SetNextToIndex(c) ==
  /\ At(c, "setNextToIndex")
  /\ pxNext' = [pxNext EXCEPT ![item(c)] = node(c)]
  /\ GoTo(c, "copyPrevious")
  /\ UNCHANGED <<pxPrevious, xItemValue, pxContainer, heads, contents>>

CopyPrevious(c) ==
  /\ At(c, "copyPrevious")
  /\ pxPrevious' = [pxPrevious EXCEPT ![item(c)] = pxPrevious[node(c)]]
  /\ GoTo(c, "setNextOfPrevious")
  /\ UNCHANGED <<pxNext, xItemValue, pxContainer, heads, contents>>

SetNextOfPrevious(c) ==
  /\ At(c, "setNextOfPrevious")
  /\ pxNext' = [pxNext EXCEPT ![pxPrevious[node(c)]] = item(c)]
  /\ LinkBehind(list(c), pxPrevious[node(c)], item(c))
  /\ GoTo(c, "setPreviousOfIndex")
  /\ UNCHANGED <<pxPrevious, xItemValue, pxContainer, heads>>

SetPreviousOfIndex(c) ==
  /\ At(c, "setPreviousOfIndex")
  /\ pxPrevious' = [pxPrevious EXCEPT ![node(c)] = item(c)]
  /\ GoTo(c, "setContainer")
  /\ UNCHANGED <<pxNext, xItemValue, pxContainer, heads, contents>>

-----------------------------------------------------------------------------
(* uxListRemove finds the list by the item.                                 *)

uxListRemove(c, i) ==
  /\ Linked(i)
  /\ Begin(c, CallAt("unlinkPrevious", pxContainer[i], i, NULL))
  /\ UNCHANGED <<links, xItemValue, pxContainer, heads, contents>>

UnlinkPrevious(c) ==
  /\ At(c, "unlinkPrevious")
  /\ pxPrevious' = [pxPrevious EXCEPT ![pxNext[item(c)]] = pxPrevious[item(c)]]
  /\ GoTo(c, "unlinkNext")
  /\ UNCHANGED <<pxNext, xItemValue, pxContainer, heads, contents>>

UnlinkNext(c) ==
  /\ At(c, "unlinkNext")
  /\ pxNext' = [pxNext EXCEPT ![pxPrevious[item(c)]] = pxNext[item(c)]]
  /\ Unlink(list(c), item(c))
  /\ GoTo(c, "moveIndex")
  /\ UNCHANGED <<pxPrevious, xItemValue, pxContainer, heads>>

(* The index must not be left at an item that is not in the list any more.  *)
IndexWithout(l, i) == IF pxIndex[l] = i THEN pxPrevious[i] ELSE pxIndex[l]

MoveIndex(c) ==
  /\ At(c, "moveIndex")
  /\ pxIndex' = [pxIndex EXCEPT ![list(c)] = IndexWithout(list(c), item(c))]
  /\ GoTo(c, "clearContainer")
  /\ UNCHANGED <<links, xItemValue, pxContainer, uxNumberOfItems, contents>>

ClearContainer(c) ==
  /\ At(c, "clearContainer")
  /\ pxContainer' = [pxContainer EXCEPT ![item(c)] = NULL]
  /\ GoTo(c, "countDown")
  /\ UNCHANGED <<links, xItemValue, heads, contents>>

CountDown(c) ==
  /\ At(c, "countDown")
  /\ uxNumberOfItems' = [uxNumberOfItems EXCEPT ![list(c)] = @ - 1]
  /\ Return(c)
  /\ UNCHANGED <<links, xItemValue, pxContainer, pxIndex, contents>>

-----------------------------------------------------------------------------
(* listGET_OWNER_OF_NEXT_ENTRY of a list that is not empty.                 *)

listGET_OWNER_OF_NEXT_ENTRY(c, l) ==
  /\ uxNumberOfItems[l] > 0
  /\ pxIndex' = [pxIndex EXCEPT ![l] = pxNext[@]]
  /\ Begin(c, CallAt("skipEnd", l, NULL, NULL))
  /\ UNCHANGED <<links, xItemValue, pxContainer, uxNumberOfItems, contents>>

SkipEnd(c) ==
  /\ At(c, "skipEnd")
  /\ pxIndex' = [pxIndex EXCEPT ![list(c)] = IF @ = list(c) THEN pxNext[list(c)] ELSE @]
  /\ Return(c)
  /\ UNCHANGED <<links, xItemValue, pxContainer, uxNumberOfItems, contents>>

(* Callers leave the value alone while the order of a list depends on it.   *)
listSET_LIST_ITEM_VALUE(i, v) ==
  /\ ~InUse(i) /\ pxContainer[i] \notin SortedLists
  /\ xItemValue' = [xItemValue EXCEPT ![i] = v]
  /\ UNCHANGED <<links, pxContainer, heads, call, contents>>

-----------------------------------------------------------------------------
(* The same calls, whole: inline with interrupts disabled.                  *)

listINSERT_END(l, i) ==
  LET behind == pxIndex[l]
      before == pxPrevious[behind]
  IN  /\ ~InUse(l) /\ ~InUse(i) /\ ~Linked(i)
      /\ pxNext' = [pxNext EXCEPT ![i] = behind, ![before] = i]
      /\ pxPrevious' = [pxPrevious EXCEPT ![i] = before, ![behind] = i]
      /\ pxContainer' = [pxContainer EXCEPT ![i] = l]
      /\ uxNumberOfItems' = [uxNumberOfItems EXCEPT ![l] = @ + 1]
      /\ LinkBehind(l, before, i)
      /\ UNCHANGED <<xItemValue, pxIndex, call>>

listREMOVE_ITEM(i) ==
  LET l == pxContainer[i]
  IN  /\ ~InUse(i) /\ Linked(i) /\ ~InUse(l)
      /\ pxPrevious' = [pxPrevious EXCEPT ![pxNext[i]] = pxPrevious[i]]
      /\ pxNext' = [pxNext EXCEPT ![pxPrevious[i]] = pxNext[i]]
      /\ pxIndex' = [pxIndex EXCEPT ![l] = IndexWithout(l, i)]
      /\ pxContainer' = [pxContainer EXCEPT ![i] = NULL]
      /\ uxNumberOfItems' = [uxNumberOfItems EXCEPT ![l] = @ - 1]
      /\ Unlink(l, i)
      /\ UNCHANGED <<xItemValue, call>>

-----------------------------------------------------------------------------

(* vListInitialise of every list and vListInitialiseItem of every item.  An *)
(* item's links are not written until it is inserted for the first time.    *)
Init ==
  /\ pxNext = [n \in Nodes |-> IF n \in Lists THEN n ELSE NULL]
  /\ pxPrevious = pxNext
  /\ \E value \in [ListItems -> Values] :
       xItemValue = [n \in Nodes |-> IF n \in Lists THEN portMAX_DELAY ELSE value[n]]
  /\ pxContainer = [i \in ListItems |-> NULL]
  /\ pxIndex = [l \in Lists |-> l]
  /\ uxNumberOfItems = [l \in Lists |-> 0]
  /\ contents = [l \in Lists |-> <<>>]
  /\ call = [c \in Callers |-> NoCall]

Call(c) ==
  \/ \E i \in ListItems :
       \/ \E l \in SortedLists : vListInsert(c, l, i)
       \/ \E l \in Lists \ SortedLists : vListInsertEnd(c, l, i)
       \/ uxListRemove(c, i)
  \/ \E l \in Lists \ SortedLists : listGET_OWNER_OF_NEXT_ENTRY(c, l)

(* The next statement of a call that is under way.                          *)
Statement(c) ==
  \/ Walk(c) \/ SetNext(c) \/ SetPreviousOfNext(c) \/ SetPrevious(c)
  \/ SetNextOfNode(c) \/ SetNextToIndex(c) \/ CopyPrevious(c)
  \/ SetNextOfPrevious(c) \/ SetPreviousOfIndex(c)
  \/ SetContainer(c) \/ CountUp(c)
  \/ UnlinkPrevious(c) \/ UnlinkNext(c) \/ MoveIndex(c)
  \/ ClearContainer(c) \/ CountDown(c)
  \/ SkipEnd(c)

(* An interrupt, or a task in a critical section.                           *)
Interrupt ==
  \E i \in ListItems :
    \/ \E l \in Lists \ SortedLists : listINSERT_END(l, i)
    \/ listREMOVE_ITEM(i)
    \/ \E v \in Values : listSET_LIST_ITEM_VALUE(i, v)

Next == (\E c \in Callers : Call(c) \/ Statement(c)) \/ Interrupt

Spec == Init /\ [][Next]_vars

-----------------------------------------------------------------------------
(* Properties.                                                              *)

Statements ==
  {"walk", "setNext", "setPreviousOfNext", "setPrevious", "setNextOfNode",
   "setNextToIndex", "copyPrevious", "setNextOfPrevious", "setPreviousOfIndex",
   "setContainer", "countUp",
   "unlinkPrevious", "unlinkNext", "moveIndex", "clearContainer", "countDown", "skipEnd"}

TypeOK ==
  /\ pxNext \in [Nodes -> Nodes \union {NULL}]
  /\ pxPrevious \in [Nodes -> Nodes \union {NULL}]
  /\ xItemValue \in [Nodes -> 0..portMAX_DELAY]
  /\ pxContainer \in [ListItems -> Lists \union {NULL}]
  /\ pxIndex \in [Lists -> Nodes]
  /\ uxNumberOfItems \in [Lists -> Nat]
  /\ contents \in [Lists -> Seq(ListItems)]
  /\ call \in [Callers -> [at : Statements \union {"returned"}, list : Lists \union {NULL},
                          item : ListItems \union {NULL}, node : Nodes \union {NULL}]]

In(l) == {i \in ListItems : pxContainer[i] = l}

Forward(l) ==
  \A k \in 0..Len(contents[l]) :
    pxNext[Node(l, contents[l], k)] = Node(l, contents[l], k + 1)
Backward(l) ==
  \A k \in 0..Len(contents[l]) :
    pxPrevious[Node(l, contents[l], k + 1)] = Node(l, contents[l], k)

(* ListInv and HeadIsMinimum of list_model.h: the items that say they are   *)
(* in a list are those met on the way through it, each once, in the order   *)
(* of their values, and as many as are counted; the same on the way back;   *)
(* the index is one of them or the end marker.  It holds whenever somebody  *)
(* who may use the list looks at it, whatever calls on other lists are      *)
(* under way; and the way along pxNext is never broken or out of order, not *)
(* even between two writes, where only the call's item may be missing.      *)
ListInv ==
  \A l \in Lists :
    /\ NoDuplicates(contents[l]) /\ Forward(l)
    /\ l \in SortedLists => Sorted(contents[l], xItemValue)
    /\ {i \in Items(contents[l]) : ~InUse(i)} = {i \in In(l) : ~InUse(i)}
    /\ ~InUse(l) =>
         /\ Backward(l)
         /\ uxNumberOfItems[l] = Len(contents[l])
         /\ pxIndex[l] \in In(l) \union {l}

(* A round of vListInsert's walk that passes a node comes nearer to the end *)
(* of the list, and none passes the end marker: an item that has the end    *)
(* marker's value is not walked for.  So no insertion loops for ever.       *)
WalksAdvance ==
  \A c \in Callers :
    At(c, "walk") /\ Passes(item(c), node(c)) =>
      LET place(n) == Place(list(c), contents[list(c)], n)
      IN  place(node(c)) < place(pxNext[node(c)])

(* Between the writes that unlink the item of a call and move the index     *)
(* away from it, the index is where it will be; the same while a walk steps *)
(* over the end marker.                                                     *)
Index(l) ==
  LET c == CHOOSE c \in Callers : list(c) = l
      n == IF ~InUse(l) THEN pxIndex[l]
           ELSE IF At(c, "moveIndex") THEN IndexWithout(l, item(c))
           ELSE IF At(c, "skipEnd") /\ pxIndex[l] = l THEN pxNext[l]
           ELSE pxIndex[l]
  IN  IF n = l THEN NULL ELSE n

(* Each call is one step for those who use the list: the lists of pointers  *)
(* are the lists in which OrderedLists inserts and removes at once, and the *)
(* lists of the kernel, whose calls are those of FreeRTOSList.              *)
Abstract == INSTANCE OrderedLists WITH
  index <- [l \in Lists |-> Index(l)],
  value <- [i \in ListItems |-> xItemValue[i]]

ImplementsOrderedLists == Abstract!Spec
=============================================================================

---------------------------- MODULE OrderedLists ----------------------------
(***************************************************************************)
(* What list.h promises of its lists: an item is in at most one, inserted   *)
(* behind the items that do not have a larger value, or put at the end of   *)
(* the round of those who walk through the list entry by entry.             *)
(***************************************************************************)
EXTENDS FreeRTOSList

CONSTANTS
  ListItems, Lists,
  SortedLists,     \* those filled by vListInsert only
  Values,
  NULL             \* stands for the end marker, the index of a new list

VARIABLES
  contents,        \* of each list, in order
  index,           \* the item each list's walk returned last
  value            \* of each item

vars == <<contents, index, value>>

Place(list, i) == CHOOSE k \in DOMAIN list : list[k] = i

Linked(i) == \E l \in Lists : Contains(contents[l], i)

Insert(l, i) ==
  /\ ~Linked(i)
  /\ contents' = [contents EXCEPT ![l] = vListInsert(@, value, i)]
  /\ UNCHANGED <<index, value>>

(* The item is the last one the walk comes to before the one it is at.      *)
InsertAtEndOfRound(l, i) ==
  /\ ~Linked(i)
  /\ contents' = [contents EXCEPT ![l] =
       IF index[l] = NULL THEN vListInsertEnd(@, i)
       ELSE InsertAt(@, Place(@, index[l]), i)]
  /\ UNCHANGED <<index, value>>

(* A walk whose item is taken out goes on from the one before it.           *)
Before(list, i) ==
  IF i = Head(list) THEN NULL ELSE list[Place(list, i) - 1]

TakeOut(l, i) ==
  /\ Contains(contents[l], i)
  /\ contents' = [contents EXCEPT ![l] = uxListRemove(@, i)]
  /\ index' = [index EXCEPT ![l] = IF @ = i THEN Before(contents[l], i) ELSE @]
  /\ UNCHANGED value

After(list, i) ==
  IF i = NULL \/ i = Last(list) THEN Head(list)
  ELSE list[Place(list, i) + 1]

NextEntry(l) ==
  /\ contents[l] # <<>>
  /\ index' = [index EXCEPT ![l] = After(contents[l], @)]
  /\ UNCHANGED <<contents, value>>

SetValue(i, v) ==
  /\ \A l \in SortedLists : ~Contains(contents[l], i)
  /\ value' = [value EXCEPT ![i] = v]
  /\ UNCHANGED <<contents, index>>

Init ==
  /\ contents = [l \in Lists |-> <<>>]
  /\ index = [l \in Lists |-> NULL]
  /\ value \in [ListItems -> Values]

Next ==
  \/ \E i \in ListItems :
       \/ \E l \in SortedLists : Insert(l, i)
       \/ \E l \in Lists \ SortedLists : InsertAtEndOfRound(l, i)
       \/ \E l \in Lists : TakeOut(l, i)
       \/ \E v \in Values : SetValue(i, v)
  \/ \E l \in Lists : NextEntry(l)

Spec == Init /\ [][Next]_vars
=============================================================================

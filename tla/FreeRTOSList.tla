--------------------------- MODULE FreeRTOSList ---------------------------
(***************************************************************************)
(* The ordered lists of list.c.  A List_t is a ring of ListItem_t that      *)
(* starts behind the end marker xListEnd; the kernel only ever asks for its *)
(* head, so a list is modelled by the sequence of the owners of its items,  *)
(* head first.  An item carries the value xItemValue of its owner, which is *)
(* the argument `value' of the operators that compare.                      *)
(***************************************************************************)
EXTENDS OrderedSequences

(* listIS_CONTAINED_WITHIN(list, item), is pxContainer of the item this     *)
(* list, is Contains(list, item) of SequencesExt; its uxNumberOfItems is Len.   *)

(* The walk of vListInsert from xListEnd: it stops at the first item whose  *)
(* value is above the one inserted, so the new item goes behind its equals. *)
(* With portMAX_DELAY the walk is skipped and the item goes to the end,     *)
(* where this definition also puts the largest possible value.              *)
InsertPosition(list, value, v) ==
  CHOOSE k \in 1..(Len(list) + 1) :
    /\ \A i \in 1..(k - 1) : value[list[i]] <= v
    /\ k <= Len(list) => value[list[k]] > v

vListInsert(list, value, item) ==
  InsertAt(list, InsertPosition(list, value, value[item]), item)

(* pxIndex stays at xListEnd in this configuration (nothing walks a list    *)
(* with listGET_OWNER_OF_NEXT_ENTRY), so inserting before it appends.       *)
vListInsertEnd(list, item) == Append(list, item)

(* uxListRemove looks the list up in the item's pxContainer; applied to     *)
(* every list it therefore changes only the one that holds the item.        *)
uxListRemove(list, item) == Without(list, item)
=============================================================================

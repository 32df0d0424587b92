----------------------- MODULE FreeRTOSRingTheorems -----------------------
(***************************************************************************)
(* Proofs about FreeRTOSRing for any callers, items, lists and values: the  *)
(* lists nobody is using are proper rings, walks end, and every call is one *)
(* step of OrderedLists, at its write that links or unlinks the item.       *)
(*                                                                          *)
(* The invariant ties the pointers to contents.  A call has one list and    *)
(* one item to itself; while it is between two writes, at most one node of  *)
(* that list, the open one, is not pointed back to by its neighbour.        *)
(***************************************************************************)
EXTENDS FreeRTOSRing, OrderedSequencesTheorems

-----------------------------------------------------------------------------
(* Rings as such: of a list l with the items of s, along any `next'.        *)

Orderly(l, s) == l \in Lists /\ s \in Seq(ListItems) /\ NoDuplicates(s)

Ring(l, s) == Items(s) \union {l}

IsRing(l, s, next) == \A k \in 0..Len(s) : next[Node(l, s, k)] = Node(l, s, k + 1)

(* Places and nodes name each other.                                        *)
LEMMA NodesAndPlaces ==
  ASSUME NEW l, NEW s, Orderly(l, s)
  PROVE  /\ Len(s) \in Nat /\ l \notin Items(s)
         /\ \A k \in 1..Len(s) : Node(l, s, k) = s[k] /\ s[k] \in Items(s)
         /\ Node(l, s, 0) = l /\ Node(l, s, Len(s) + 1) = l
         /\ Place(l, s, l) = 0
         /\ \A i \in Items(s) : Place(l, s, i) \in 1..Len(s) /\ s[Place(l, s, i)] = i
         /\ \A n \in Ring(l, s) :
              Place(l, s, n) \in 0..Len(s) /\ Node(l, s, Place(l, s, n)) = n
         /\ \A k \in 0..Len(s) :
              Node(l, s, k) \in Ring(l, s) /\ Place(l, s, Node(l, s, k)) = k
<1> USE DEF Orderly, Node
<1>1. Len(s) \in Nat
  BY LenProperties
<1>2. l \notin Items(s)
  BY ItemsTyped, ListsAssumption
<1>3. \A k \in 1..Len(s) : Node(l, s, k) = s[k] /\ s[k] \in Items(s)
  BY DEF Items
<1>4. Node(l, s, 0) = l /\ Node(l, s, Len(s) + 1) = l /\ Place(l, s, l) = 0
  BY <1>1 DEF Place
<1>5. \A i \in Items(s) : Place(l, s, i) \in 1..Len(s) /\ s[Place(l, s, i)] = i
  BY <1>2 DEF Items, Place
<1>6. \A n \in Ring(l, s) :
        Place(l, s, n) \in 0..Len(s) /\ Node(l, s, Place(l, s, n)) = n
  BY <1>1, <1>3, <1>4, <1>5 DEF Ring
<1>7. ASSUME NEW k \in 1..Len(s)
      PROVE  Place(l, s, s[k]) = k
  <2>1. Place(l, s, s[k]) \in 1..Len(s) /\ s[Place(l, s, s[k])] = s[k]
    BY <1>3, <1>5
  <2> QED BY <1>1, <2>1 DEF NoDuplicates
<1>8. \A k \in 0..Len(s) :
        Node(l, s, k) \in Ring(l, s) /\ Place(l, s, Node(l, s, k)) = k
  BY <1>1, <1>3, <1>4, <1>7 DEF Ring
<1> QED BY <1>1, <1>2, <1>3, <1>4, <1>5, <1>6, <1>8

(* A step along the ring stays in it, and leads to each node from one.      *)
LEMMA RingSteps ==
  ASSUME NEW l, NEW s, NEW next, Orderly(l, s), IsRing(l, s, next)
  PROVE  /\ \A n \in Ring(l, s) :
              next[n] \in Ring(l, s) /\ next[n] = Node(l, s, Place(l, s, n) + 1)
         /\ \A m, n \in Ring(l, s) : next[m] = next[n] => m = n
         /\ \A n \in Ring(l, s) : \E m \in Ring(l, s) : next[m] = n
         /\ \A i \in Items(s) : next[i] # i
<1> DEFINE p(n) == Place(l, s, n)
           succ(k) == IF k = Len(s) THEN 0 ELSE k + 1
<1>1. /\ Len(s) \in Nat
      /\ \A n \in Ring(l, s) : p(n) \in 0..Len(s) /\ Node(l, s, p(n)) = n
      /\ \A k \in 0..Len(s) : Node(l, s, k) \in Ring(l, s) /\ p(Node(l, s, k)) = k
  BY NodesAndPlaces
<1>2. \A k \in 0..Len(s) : succ(k) \in 0..Len(s) /\ Node(l, s, k + 1) = Node(l, s, succ(k))
  BY <1>1, NodesAndPlaces
<1> HIDE DEF succ
<1>3. ASSUME NEW n \in Ring(l, s)
      PROVE  /\ next[n] = Node(l, s, p(n) + 1)
             /\ next[n] \in Ring(l, s) /\ p(next[n]) = succ(p(n))
  BY <1>1, <1>2, <1>3 DEF IsRing
<1> HIDE DEF p
<1>4. \A m, n \in Ring(l, s) : next[m] = next[n] => m = n
  <2> SUFFICES ASSUME NEW m \in Ring(l, s), NEW n \in Ring(l, s), next[m] = next[n]
               PROVE  m = n
    OBVIOUS
  <2>1. succ(p(m)) = succ(p(n))
    BY <1>3
  <2>2. p(m) = p(n)
    BY <1>1, <2>1 DEF succ
  <2> QED BY <1>1, <2>2
<1>5. ASSUME NEW n \in Ring(l, s)
      PROVE  \E m \in Ring(l, s) : next[m] = n
  <2>1. PICK k \in 0..Len(s) : succ(k) = p(n)
    <3>1. CASE p(n) = 0
      BY <1>1, <3>1 DEF succ
    <3>2. CASE p(n) # 0
      <4>1. p(n) - 1 \in 0..Len(s) /\ succ(p(n) - 1) = p(n)
        BY <1>1, <3>2 DEF succ
      <4> QED BY <4>1
    <3> QED BY <3>1, <3>2
  <2>2. Node(l, s, k) \in Ring(l, s) /\ p(Node(l, s, k)) = k
    BY <1>1
  <2>3. p(next[Node(l, s, k)]) = p(n)
    BY <1>3, <2>1, <2>2
  <2> QED BY <1>1, <1>3, <2>2, <2>3
<1>6. ASSUME NEW i \in Items(s)
      PROVE  next[i] # i
  <2>1. p(i) \in 1..Len(s) /\ i \in Ring(l, s)
    BY NodesAndPlaces DEF p, Ring
  <2>2. succ(p(i)) # p(i)
    BY <1>1, <2>1 DEF succ
  <2> QED BY <1>3, <2>1, <2>2
<1>7. \A n \in Ring(l, s) : next[n] = Node(l, s, Place(l, s, n) + 1)
  BY <1>3 DEF p
<1> QED BY <1>3, <1>4, <1>5, <1>6, <1>7

(* Linking an item behind a node makes the ring of the longer sequence.     *)
LEMMA LinkKeepsRing ==
  ASSUME NEW l, NEW s, NEW next, Orderly(l, s), IsRing(l, s, next),
         NEW i \in ListItems, i \notin Items(s),
         NEW n \in Ring(l, s),
         NEW new, new[i] = next[n], new[n] = i,
         \A m \in Ring(l, s) : m # n => new[m] = next[m]
  PROVE  LET t == InsertAt(s, Place(l, s, n) + 1, i)
         IN  /\ Orderly(l, t) /\ IsRing(l, t, new)
             /\ Items(t) = Items(s) \union {i}
             /\ Len(t) = Len(s) + 1
             /\ InsertedAt(t, s, Place(l, s, n) + 1, i)
<1> DEFINE k == Place(l, s, n) + 1
           t == InsertAt(s, k, i)
<1>1. /\ Len(s) \in Nat /\ k \in 1..(Len(s) + 1)
      /\ Node(l, s, k - 1) = n
      /\ \A j \in 1..Len(s) : Node(l, s, j) = s[j] /\ s[j] \in Items(s)
      /\ Node(l, s, 0) = l /\ Node(l, s, Len(s) + 1) = l
      /\ \A j \in 0..Len(s) : Node(l, s, j) \in Ring(l, s) /\ Place(l, s, Node(l, s, j)) = j
      /\ l \notin Items(s)
  BY NodesAndPlaces
<1>2. t \in Seq(ListItems) /\ InsertedAt(t, s, k, i)
  BY <1>1, InsertAtSeq DEF Orderly
<1> HIDE DEF k
<1>3. /\ Len(t) = Len(s) + 1
      /\ \A j \in 1..(k - 1) : t[j] = s[j]
      /\ t[k] = i
      /\ \A j \in (k + 1)..(Len(s) + 1) : t[j] = s[j - 1]
  BY <1>2 DEF InsertedAt
<1> HIDE DEF t
<1>4. Items(t) = Items(s) \union {i}
  <2>1. \A j \in 1..Len(t) : t[j] \in Items(s) \union {i}
    <3> SUFFICES ASSUME NEW j \in 1..Len(t) PROVE t[j] \in Items(s) \union {i}
      OBVIOUS
    <3>1. j < k \/ j = k \/ (j > k /\ j - 1 \in 1..Len(s))
      BY <1>1, <1>3
    <3> QED BY <1>1, <1>3, <3>1
  <2>2. \A j \in 1..Len(s) : \E m \in 1..Len(t) : t[m] = s[j]
    <3> SUFFICES ASSUME NEW j \in 1..Len(s) PROVE \E m \in 1..Len(t) : t[m] = s[j]
      OBVIOUS
    <3>1. CASE j < k
      BY <1>1, <1>3, <3>1
    <3>2. CASE ~(j < k)
      <4>1. j + 1 \in (k + 1)..(Len(s) + 1) /\ (j + 1) - 1 = j
        BY <1>1, <3>2
      <4>2. t[j + 1] = s[j]
        BY <1>3, <4>1
      <4> QED BY <1>1, <1>3, <4>1, <4>2
    <3> QED BY <3>1, <3>2
  <2>3. k \in 1..Len(t)
    BY <1>1, <1>3
  <2> QED BY <1>3, <2>1, <2>2, <2>3 DEF Items
<1>5. NoDuplicates(t)
  <2> SUFFICES ASSUME NEW a \in 1..Len(t), NEW b \in 1..Len(t), a < b
               PROVE  t[a] # t[b]
    BY DEF NoDuplicates
  <2>1. CASE a # k /\ b # k
    <3>1. /\ Before(k, a) \in 1..Len(s) /\ t[a] = s[Before(k, a)]
          /\ Before(k, b) \in 1..Len(s) /\ t[b] = s[Before(k, b)]
          /\ Before(k, a) < Before(k, b)
      BY <1>1, <1>3, <2>1 DEF Before
    <3> QED BY <3>1 DEF Orderly, NoDuplicates
  <2>2. CASE a = k
    <3>1. b - 1 \in 1..Len(s) /\ t[b] = s[b - 1]
      BY <1>1, <1>3, <2>2
    <3> QED BY <1>1, <1>3, <2>2, <3>1
  <2>3. CASE b = k
    <3>1. a \in 1..Len(s) /\ t[a] = s[a]
      BY <1>1, <1>3, <2>3
    <3> QED BY <1>1, <1>3, <2>3, <3>1
  <2> QED BY <2>1, <2>2, <2>3
<1>6. Orderly(l, t)
  BY <1>2, <1>5 DEF Orderly, t
<1>7. /\ \A j \in 0..(k - 1) : Node(l, t, j) = Node(l, s, j)
      /\ Node(l, t, k) = i
      /\ \A j \in (k + 1)..(Len(s) + 2) : Node(l, t, j) = Node(l, s, j - 1)
  <2>1. ASSUME NEW j \in (k + 1)..(Len(s) + 2)
        PROVE  Node(l, t, j) = Node(l, s, j - 1)
    BY <1>1, <1>3 DEF Node
  <2> QED BY <1>1, <1>3, <2>1 DEF Node
<1>8. IsRing(l, t, new)
  <2> SUFFICES ASSUME NEW j \in 0..Len(t)
               PROVE  new[Node(l, t, j)] = Node(l, t, j + 1)
    BY DEF IsRing
  <2>1. CASE j < k - 1
    <3>1. Node(l, t, j) = Node(l, s, j) /\ Node(l, t, j + 1) = Node(l, s, j + 1)
      BY <1>1, <1>7, <2>1
    <3>2. j \in 0..Len(s) /\ Node(l, s, j) # n
      BY <1>1, <2>1
    <3> QED BY <1>1, <3>1, <3>2 DEF IsRing
  <2>2. CASE j = k - 1
    <3>1. Node(l, t, j) = n /\ Node(l, t, j + 1) = i
      BY <1>1, <1>7, <2>2
    <3> QED BY <3>1
  <2>3. CASE j = k
    <3>1. Node(l, t, j) = i /\ Node(l, t, j + 1) = Node(l, s, k)
      BY <1>1, <1>3, <1>7, <2>3
    <3>2. next[n] = Node(l, s, k)
      <4>1. k - 1 \in 0..Len(s) /\ (k - 1) + 1 = k
        BY <1>1
      <4> QED BY <1>1, <4>1 DEF IsRing
    <3> QED BY <3>1, <3>2
  <2>4. CASE j > k
    <3>1. /\ j - 1 \in 0..Len(s) /\ j \in (k + 1)..(Len(s) + 2)
          /\ j + 1 \in (k + 1)..(Len(s) + 2) /\ (j + 1) - 1 = j /\ (j - 1) + 1 = j
          /\ j - 1 # k - 1 /\ k - 1 \in 0..Len(s)
      BY <1>1, <1>3, <2>4
    <3>2. Node(l, t, j) = Node(l, s, j - 1) /\ Node(l, t, j + 1) = Node(l, s, j)
      BY <1>7, <3>1
    <3>3. Node(l, s, j - 1) # n /\ Node(l, s, j - 1) \in Ring(l, s)
      BY <1>1, <3>1
    <3>4. next[Node(l, s, j - 1)] = Node(l, s, j)
      BY <3>1 DEF IsRing
    <3> QED BY <3>2, <3>3, <3>4
  <2> QED BY <1>1, <2>1, <2>2, <2>3, <2>4
<1> QED BY <1>2, <1>3, <1>4, <1>6, <1>8 DEF t, k

(* Unlinking an item makes the ring of the sequence without it.             *)
LEMMA UnlinkKeepsRing ==
  ASSUME NEW l, NEW s, NEW next, Orderly(l, s), IsRing(l, s, next),
         NEW i \in Items(s), NEW n \in Ring(l, s), next[n] = i,
         NEW new, new[n] = next[i],
         \A m \in Ring(l, s) : m # n => new[m] = next[m]
  PROVE  LET t == Without(s, i)
         IN  /\ Orderly(l, t) /\ IsRing(l, t, new)
             /\ Items(t) = Items(s) \ {i}
             /\ Len(t) = Len(s) - 1
             /\ \A value \in [ListItems -> Int] : Sorted(s, value) => Sorted(t, value)
<1> DEFINE k == Place(l, s, i)
           t == Without(s, i)
<1>1. /\ Len(s) \in Nat /\ k \in 1..Len(s) /\ s[k] = i /\ i # l
      /\ \A j \in 1..Len(s) : Node(l, s, j) = s[j]
      /\ Node(l, s, 0) = l /\ Node(l, s, Len(s) + 1) = l
      /\ \A j \in 0..Len(s) : Node(l, s, j) \in Ring(l, s) /\ Place(l, s, Node(l, s, j)) = j
      /\ Place(l, s, n) \in 0..Len(s) /\ Node(l, s, Place(l, s, n)) = n
  BY NodesAndPlaces
<1>2. t = RemoveAt(s, k)
  <2>1. Contains(s, i)
    BY <1>1 DEF Contains
  <2> QED BY <1>1, <2>1 DEF Without, Place
<1>3. RemovedAt(t, s, k)
  BY <1>1, <1>2, RemoveAtSeq DEF Orderly
<1>4. /\ t \in Seq(ListItems) /\ Items(t) = Items(s) \ {i} /\ NoDuplicates(t)
      /\ \A value \in [ListItems -> Int] : Sorted(s, value) => Sorted(t, value)
  <2>1. t \in Seq(ListItems) /\ Items(t) = Items(s) \ {i} /\ NoDuplicates(t)
    <3>1. PICK value : value \in [ListItems -> Int]
      <4>1. [j \in ListItems |-> 0] \in [ListItems -> Int]
        OBVIOUS
      <4> QED BY <4>1
    <3> QED BY <3>1, WithoutProperties DEF Orderly
  <2> QED BY <2>1, WithoutProperties DEF Orderly
<1> HIDE DEF k, t
<1>5. /\ Len(t) = Len(s) - 1
      /\ \A j \in 1..(k - 1) : t[j] = s[j]
      /\ \A j \in k..(Len(s) - 1) : t[j] = s[j + 1]
  BY <1>3 DEF RemovedAt
<1>6. Place(l, s, n) = k - 1 /\ Node(l, s, k - 1) = n
  <2>1. Node(l, s, Place(l, s, n) + 1) = i
    BY RingSteps
  <2>2. Place(l, s, n) # Len(s)
    BY <1>1, <2>1
  <2>3. Place(l, s, n) + 1 \in 0..Len(s)
    BY <1>1, <2>2
  <2>4. Place(l, s, n) + 1 = k
    BY <1>1, <2>1, <2>3 DEF k
  <2>5. Place(l, s, n) = k - 1
    BY <1>1, <2>4
  <2> QED BY <1>1, <2>5
<1>7. /\ \A j \in 0..(k - 1) : Node(l, t, j) = Node(l, s, j)
      /\ \A j \in k..Len(s) : Node(l, t, j) = Node(l, s, j + 1)
  BY <1>1, <1>5 DEF Node
<1>8. IsRing(l, t, new)
  <2> SUFFICES ASSUME NEW j \in 0..Len(t)
               PROVE  new[Node(l, t, j)] = Node(l, t, j + 1)
    BY DEF IsRing
  <2>1. CASE j < k - 1
    <3>1. Node(l, t, j) = Node(l, s, j) /\ Node(l, t, j + 1) = Node(l, s, j + 1)
      BY <1>1, <1>7, <2>1
    <3>2. j \in 0..Len(s) /\ Node(l, s, j) # n /\ Node(l, s, j) \in Ring(l, s)
      BY <1>1, <1>6, <2>1
    <3> QED BY <3>1, <3>2 DEF IsRing
  <2>2. CASE j = k - 1
    <3>1. Node(l, t, j) = n /\ Node(l, t, j + 1) = Node(l, s, k + 1)
      BY <1>1, <1>6, <1>7, <2>2
    <3>2. next[i] = Node(l, s, k + 1)
      BY <1>1 DEF IsRing
    <3> QED BY <3>1, <3>2
  <2>3. CASE j >= k
    <3>1. /\ j \in k..Len(s) /\ j + 1 \in k..Len(s) /\ j + 1 \in 0..Len(s)
          /\ j + 1 # k - 1 /\ k - 1 \in 0..Len(s)
      BY <1>1, <1>5, <2>3
    <3>2. Node(l, t, j) = Node(l, s, j + 1) /\ Node(l, t, j + 1) = Node(l, s, (j + 1) + 1)
      BY <1>7, <3>1
    <3>3. Node(l, s, j + 1) # n /\ Node(l, s, j + 1) \in Ring(l, s)
      BY <1>1, <1>6, <3>1
    <3>4. next[Node(l, s, j + 1)] = Node(l, s, (j + 1) + 1)
      BY <3>1 DEF IsRing
    <3> QED BY <3>2, <3>3, <3>4
  <2> QED BY <1>1, <1>5, <2>1, <2>2, <2>3
<1>9. Orderly(l, t)
  BY <1>4 DEF Orderly
<1> QED BY <1>4, <1>5, <1>8, <1>9 DEF t

-----------------------------------------------------------------------------
(* The inductive invariant.  Statements by what they are about to do: link  *)
(* the item, finish that, unlink it, or finish that.                        *)

Inserting == {"walk", "setNext", "setPreviousOfNext", "setPrevious", "setNextOfNode"}
Appending == {"setNextToIndex", "copyPrevious", "setNextOfPrevious"}
Linking == Inserting \union Appending
Finishing == {"setPreviousOfIndex", "setContainer"}
Unlinking == {"unlinkPrevious", "unlinkNext"}
Leaving == {"moveIndex", "clearContainer"}
NodesOf(l) == Ring(l, contents[l])

(* What holds of a list at every moment.                                    *)
ListOK(l) ==
  /\ Orderly(l, contents[l])
  /\ IsRing(l, contents[l], pxNext)
  /\ xItemValue[l] = portMAX_DELAY
  /\ l \in SortedLists => Sorted(contents[l], xItemValue)

(* No item is in two lists.                                                 *)
Disjoint ==
  \A l, m \in Lists : l # m => Items(contents[l]) \intersect Items(contents[m]) = {}

PointsBack(l, n) == pxPrevious[pxNext[n]] = n

(* What holds of a list and of an item that are in no call.                 *)
QuietList(l) ==
  /\ \A n \in NodesOf(l) : PointsBack(l, n)
  /\ uxNumberOfItems[l] = Len(contents[l])
  /\ pxIndex[l] \in NodesOf(l)

QuietItem(i) == \A l \in Lists : i \in Items(contents[l]) <=> pxContainer[i] = l

Free(i) == \A l \in Lists : i \notin Items(contents[l])

(* The node of a call's list that the node behind it does not point back to. *)
Open(c) ==
  CASE call[c].at \in {"setPrevious", "setNextOfNode"} -> node(c)
    [] call[c].at \in {"setPreviousOfIndex", "unlinkNext"} -> item(c)
    [] OTHER -> NULL

(* A call's item, its list, and its links while it is inserted, appended or *)
(* removed.                                                                 *)
ItemOK(c) ==
  /\ call[c].at # "skipEnd" => item(c) \in ListItems
  /\ call[c].at = "skipEnd" => item(c) = NULL
  /\ call[c].at \in Linking \union Leaving \union {"countDown"} => Free(item(c))
  /\ call[c].at \in Finishing \union Unlinking \union {"countUp"} =>
       item(c) \in Items(contents[list(c)])
  /\ call[c].at \in Linking \union Finishing \union {"countDown"} =>
       pxContainer[item(c)] = NULL
  /\ call[c].at \in Unlinking \union Leaving \union {"countUp"} =>
       pxContainer[item(c)] = list(c)

HeadOK(c) ==
  /\ \A n \in NodesOf(list(c)) : n # Open(c) => PointsBack(list(c), n)
  /\ call[c].at \in Linking \union Unlinking \union {"skipEnd"} =>
       uxNumberOfItems[list(c)] = Len(contents[list(c)])
  /\ call[c].at \in Finishing \union {"countUp"} =>
       uxNumberOfItems[list(c)] = Len(contents[list(c)]) - 1
  /\ call[c].at \in Leaving \union {"countDown"} =>
       uxNumberOfItems[list(c)] = Len(contents[list(c)]) + 1
  /\ \/ pxIndex[list(c)] \in NodesOf(list(c))
     \/ call[c].at = "moveIndex" /\ pxIndex[list(c)] = item(c)

PlaceOf(c) == Place(list(c), contents[list(c)], node(c))

InsertOK(c) ==
  call[c].at \in Inserting =>
    /\ list(c) \in SortedLists /\ node(c) \in NodesOf(list(c))
    /\ \A k \in 1..PlaceOf(c) : xItemValue[contents[list(c)][k]] <= xItemValue[item(c)]
    /\ call[c].at = "walk" => xItemValue[item(c)] < portMAX_DELAY
    /\ call[c].at # "walk" /\ PlaceOf(c) < Len(contents[list(c)]) =>
         xItemValue[contents[list(c)][PlaceOf(c) + 1]] > xItemValue[item(c)]
    /\ call[c].at \in {"setPreviousOfNext", "setPrevious", "setNextOfNode"} =>
         pxNext[item(c)] = pxNext[node(c)]
    /\ call[c].at \in {"setPrevious", "setNextOfNode"} =>
         pxPrevious[pxNext[node(c)]] = item(c)
    /\ call[c].at = "setNextOfNode" => pxPrevious[item(c)] = node(c)

AppendOK(c) ==
  /\ call[c].at \in Appending \union {"setPreviousOfIndex"} =>
       list(c) \notin SortedLists /\ node(c) \in NodesOf(list(c))
  /\ call[c].at \in Appending => node(c) = pxIndex[list(c)]
  /\ call[c].at \in {"copyPrevious", "setNextOfPrevious", "setPreviousOfIndex"} =>
       pxNext[item(c)] = node(c)
  /\ call[c].at = "setNextOfPrevious" => pxPrevious[item(c)] = pxPrevious[node(c)]

RemoveOK(c) ==
  /\ call[c].at = "unlinkNext" =>
       /\ pxPrevious[item(c)] \in NodesOf(list(c))
       /\ pxNext[pxPrevious[item(c)]] = item(c)
       /\ pxPrevious[pxNext[item(c)]] = pxPrevious[item(c)]
  /\ call[c].at = "moveIndex" => pxPrevious[item(c)] \in NodesOf(list(c))
  /\ call[c].at = "skipEnd" => list(c) \notin SortedLists /\ contents[list(c)] # <<>>

CallOK(c) ==
  /\ call[c].at \in Statements /\ list(c) \in Lists
  /\ ItemOK(c) /\ HeadOK(c) /\ InsertOK(c) /\ AppendOK(c) /\ RemoveOK(c)

(* Calls under way have lists and items of their own.                       *)
Apart ==
  \A c, d \in Callers :
    c # d /\ ~Idle(c) /\ ~Idle(d) =>
      list(c) # list(d) /\ (item(c) # item(d) \/ item(c) = NULL)

IInv ==
  /\ TypeOK /\ Disjoint /\ Apart
  /\ \A l \in Lists : ListOK(l) /\ (~InUse(l) => QuietList(l))
  /\ \A i \in ListItems : ~InUse(i) => QuietItem(i)
  /\ \A c \in Callers : ~Idle(c) => CallOK(c)

-----------------------------------------------------------------------------
(* A step on one list and one item leaves the other lists, items and calls  *)
(* as they are.                                                             *)

StepOn(l, i) ==
  /\ l \in Lists /\ i \in ListItems \union {NULL}
  /\ i \in ListItems => Free(i) \/ i \in Items(contents[l])
  /\ \A n \in Nodes :
       n \notin NodesOf(l) \union {i} =>
         pxNext'[n] = pxNext[n] /\ pxPrevious'[n] = pxPrevious[n]
  /\ \A m \in Lists : m # l =>
       /\ contents'[m] = contents[m]
       /\ pxIndex'[m] = pxIndex[m] /\ uxNumberOfItems'[m] = uxNumberOfItems[m]
  /\ Items(contents'[l]) \ {i} = Items(contents[l]) \ {i}
  /\ \A j \in ListItems : j # i => pxContainer'[j] = pxContainer[j]
  /\ xItemValue' = xItemValue

(* A node of a list or an item that is not linked is a node of no other.    *)
LEMMA NodesApart ==
  ASSUME IInv, NEW l \in Lists, NEW m \in Lists, l # m
  PROVE  /\ NodesOf(m) \subseteq Nodes /\ NodesOf(l) \intersect NodesOf(m) = {}
         /\ \A i \in ListItems : Free(i) => i \notin NodesOf(m)
         /\ NULL \notin NodesOf(m)
<1>1. Items(contents[l]) \subseteq ListItems /\ Items(contents[m]) \subseteq ListItems
  BY ItemsTyped DEF IInv, ListOK, Orderly
<1> QED BY <1>1, ListsAssumption DEF IInv, Disjoint, NodesOf, Ring, Nodes, Free

LEMMA OtherLists ==
  ASSUME IInv, NEW l, NEW i, StepOn(l, i), NEW m \in Lists, m # l
  PROVE  ListOK(m)' /\ (QuietList(m) => QuietList(m)')
<1>1. /\ NodesOf(m) \subseteq Nodes
      /\ \A n \in NodesOf(m) : n \notin NodesOf(l) \union {i}
  BY NodesApart DEF StepOn, NodesOf, Ring
<1>2. /\ contents'[m] = contents[m] /\ NodesOf(m)' = NodesOf(m)
      /\ pxIndex'[m] = pxIndex[m] /\ uxNumberOfItems'[m] = uxNumberOfItems[m]
      /\ \A n \in NodesOf(m) : pxNext'[n] = pxNext[n] /\ pxPrevious'[n] = pxPrevious[n]
  BY <1>1 DEF StepOn, NodesOf
<1>3. ListOK(m)
  BY DEF IInv
<1>4. \A n \in NodesOf(m) : pxNext[n] \in NodesOf(m)
  BY <1>3, RingSteps DEF ListOK, NodesOf
<1>5. IsRing(m, contents[m], pxNext')
  <2>1. \A k \in 0..Len(contents[m]) : Node(m, contents[m], k) \in NodesOf(m)
    BY <1>3, NodesAndPlaces DEF ListOK, NodesOf
  <2> QED BY <1>2, <1>3, <2>1 DEF ListOK, IsRing
<1>6. ListOK(m)'
  BY <1>2, <1>3, <1>5 DEF ListOK, StepOn
<1>7. QuietList(m) => QuietList(m)'
  BY <1>2, <1>4 DEF QuietList, PointsBack
<1> QED BY <1>6, <1>7

LEMMA OtherItems ==
  ASSUME IInv, NEW l, NEW i, StepOn(l, i), NEW j \in ListItems, j # i
  PROVE  /\ QuietItem(j) => QuietItem(j)'
         /\ Free(j) => Free(j)'
         /\ \A m \in Lists : j \in Items(contents'[m]) <=> j \in Items(contents[m])
<1>1. \A m \in Lists : j \in Items(contents'[m]) <=> j \in Items(contents[m])
  BY DEF StepOn
<1> QED BY <1>1 DEF QuietItem, Free, StepOn

LEMMA StillDisjoint ==
  ASSUME IInv, NEW l, NEW i, StepOn(l, i), Orderly(l, contents'[l])
  PROVE  Disjoint'
<1>1. Items(contents'[l]) \subseteq ListItems
  BY ItemsTyped DEF Orderly
<1>2. ASSUME NEW m \in Lists, m # l
      PROVE  Items(contents'[l]) \intersect Items(contents'[m]) = {}
  <2>1. Items(contents'[m]) = Items(contents[m])
    BY <1>2 DEF StepOn
  <2>2. Items(contents[l]) \intersect Items(contents[m]) = {} /\ l \in Lists
    BY <1>2 DEF IInv, Disjoint, StepOn
  <2>3. i \in ListItems => i \notin Items(contents[m])
    BY <1>2, <2>2 DEF StepOn, Free
  <2> QED BY <1>1, <2>1, <2>2, <2>3 DEF StepOn
<1> QED BY <1>2 DEF IInv, Disjoint, StepOn

LEMMA OtherCalls ==
  ASSUME IInv, NEW l, NEW i, StepOn(l, i),
         NEW d \in Callers, ~Idle(d), list(d) # l, item(d) # i \/ item(d) = NULL,
         call'[d] = call[d]
  PROVE  CallOK(d)'
<1> DEFINE m == list(d)
           z == NodesOf(m) \union (IF item(d) \in ListItems THEN {item(d)} ELSE {})
<1>1. CallOK(d) /\ m \in Lists /\ ListOK(m)
  BY DEF IInv, CallOK
<1>2. /\ contents'[m] = contents[m] /\ NodesOf(m)' = NodesOf(m)
      /\ pxIndex'[m] = pxIndex[m] /\ uxNumberOfItems'[m] = uxNumberOfItems[m]
      /\ xItemValue' = xItemValue
  BY <1>1 DEF StepOn, NodesOf, list
<1>3. item(d) \in ListItems => Free(item(d)) \/ item(d) \in Items(contents[m])
  BY <1>1, ListsAssumption DEF CallOK, ItemOK, Statements, Nodes, Linking, Inserting,
       Appending, Finishing, Unlinking, Leaving
<1>4. \A n \in z : n \in Nodes /\ n \notin NodesOf(l) \union {i}
  <2>1. \A n \in NodesOf(m) : n \in Nodes /\ n \notin NodesOf(l) \union {i}
    BY <1>1, NodesApart DEF StepOn, NodesOf, Ring
  <2>2. ASSUME item(d) \in ListItems
        PROVE  item(d) \in Nodes /\ item(d) \notin NodesOf(l) \union {i}
    <3>1. item(d) # NULL
      BY <2>2, ListsAssumption DEF Nodes
    <3>2. item(d) \notin NodesOf(l)
      BY <1>1, <1>3, <2>1, <2>2, NodesApart DEF StepOn, NodesOf, Ring
    <3> QED BY <2>2, <3>1, <3>2 DEF Nodes
  <2> QED BY <2>1, <2>2
<1>5. \A n \in z : pxNext'[n] = pxNext[n] /\ pxPrevious'[n] = pxPrevious[n]
  BY <1>4 DEF StepOn
<1>6. \A n \in NodesOf(m) : pxNext[n] \in NodesOf(m)
  BY <1>1, RingSteps DEF ListOK, NodesOf
<1>7. item(d) \in ListItems =>
        /\ pxContainer'[item(d)] = pxContainer[item(d)]
        /\ Free(item(d)) => Free(item(d))'
        /\ pxNext'[item(d)] = pxNext[item(d)] /\ pxPrevious'[item(d)] = pxPrevious[item(d)]
  <2> SUFFICES ASSUME item(d) \in ListItems
               PROVE  /\ pxContainer'[item(d)] = pxContainer[item(d)]
                      /\ Free(item(d)) => Free(item(d))'
                      /\ pxNext'[item(d)] = pxNext[item(d)]
                      /\ pxPrevious'[item(d)] = pxPrevious[item(d)]
    OBVIOUS
  <2>1. item(d) # i
    BY ListsAssumption DEF Nodes
  <2>2. Free(item(d)) => \A k \in Lists : item(d) \notin Items(contents'[k])
    BY <2>1, OtherItems DEF Free
  <2> QED BY <1>5, <2>1, <2>2 DEF StepOn, Free, item
<1>8. \A n \in NodesOf(m) : pxNext'[n] = pxNext[n] /\ pxPrevious'[n] = pxPrevious[n]
  BY <1>5
<1> HIDE DEF z
<1>9. ItemOK(d)'
  <2>1. ItemOK(d)
    BY <1>1 DEF CallOK
  <2> QED BY <1>2, <1>7, <2>1 DEF ItemOK, item, list, Linking, Leaving, Finishing,
            Unlinking, Inserting, Appending
<1>10. HeadOK(d)'
  <2>1. HeadOK(d)
    BY <1>1 DEF CallOK
  <2>2. \A n \in NodesOf(m) : PointsBack(m, n)' <=> PointsBack(m, n)
    BY <1>6, <1>8 DEF PointsBack
  <2>3. Open(d)' = Open(d)
    BY DEF Open, node, item
  <2> QED BY <1>2, <2>1, <2>2, <2>3 DEF HeadOK, list, item, PointsBack
<1>11. InsertOK(d)'
  <2>1. InsertOK(d) /\ ItemOK(d)
    BY <1>1 DEF CallOK
  <2>2. PlaceOf(d)' = PlaceOf(d)
    BY <1>2 DEF PlaceOf, list, node
  <2> QED BY <1>2, <1>6, <1>7, <1>8, <2>1, <2>2
          DEF InsertOK, ItemOK, list, item, node, Inserting
<1>12. AppendOK(d)'
  <2>1. AppendOK(d) /\ ItemOK(d)
    BY <1>1 DEF CallOK
  <2> QED BY <1>2, <1>7, <1>8, <2>1 DEF AppendOK, ItemOK, list, item, node, Appending
<1>13. RemoveOK(d)'
  <2>1. RemoveOK(d) /\ ItemOK(d)
    BY <1>1 DEF CallOK
  <2>2. item(d) \in Items(contents[m]) => item(d) \in NodesOf(m)
    BY DEF NodesOf, Ring
  <2> QED BY <1>2, <1>6, <1>7, <1>8, <2>1, <2>2
          DEF RemoveOK, ItemOK, list, item, Unlinking, Leaving
<1> QED BY <1>1, <1>9, <1>10, <1>11, <1>12, <1>13 DEF CallOK, list

(* The index of the abstract list, by the state of the call on the list.    *)
IndexOf(l, n) == IF n = l THEN NULL ELSE n

Upcoming(c, l) ==
  IF At(c, "moveIndex") THEN IndexWithout(l, item(c))
  ELSE IF At(c, "skipEnd") /\ pxIndex[l] = l THEN pxNext[l]
  ELSE pxIndex[l]

IndexRight ==
  \A l \in Lists :
    /\ ~InUse(l) => Index(l) = IndexOf(l, pxIndex[l])
    /\ \A c \in Callers : list(c) = l => Index(l) = IndexOf(l, Upcoming(c, l))

LEMMA IndexIsRight == IInv => IndexRight
<1> SUFFICES ASSUME IInv, NEW l \in Lists
             PROVE  /\ ~InUse(l) => Index(l) = IndexOf(l, pxIndex[l])
                    /\ \A c \in Callers : list(c) = l => Index(l) = IndexOf(l, Upcoming(c, l))
  BY DEF IndexRight
<1>1. l # NULL
  BY ListsAssumption DEF Nodes
<1>2. ~InUse(l) => Index(l) = IndexOf(l, pxIndex[l])
  BY DEF Index, IndexOf
<1>3. ASSUME NEW c \in Callers, list(c) = l
      PROVE  Index(l) = IndexOf(l, Upcoming(c, l))
  <2>1. \A d \in Callers : list(d) = l => d = c
    BY <1>1, <1>3 DEF IInv, Apart, Idle, NoCall, CallAt, list
  <2>2. (CHOOSE d \in Callers : list(d) = l) = c
    BY <1>3, <2>1
  <2>3. InUse(l)
    BY <1>1, <1>3 DEF InUse, list
  <2>4. Index(l) = IndexOf(l, Upcoming(CHOOSE d \in Callers : list(d) = l, l))
    BY <2>3 DEF Index, IndexOf, Upcoming
  <2> QED BY <2>2, <2>4, Zenon
<1> QED BY <1>2, <1>3

KeepsOthers(l) == \A m \in Lists : m # l => Index(m)' = Index(m)

LEMMA OtherIndexes ==
  ASSUME IInv, IInv', NEW l, NEW i, StepOn(l, i),
         \A m \in Lists : m # l => (InUse(m)' <=> InUse(m)),
         \A d \in Callers : list(d) \in Lists \ {l} =>
           call'[d] = call[d] /\ (item(d) # i \/ item(d) = NULL)
  PROVE  KeepsOthers(l)
<1> SUFFICES ASSUME NEW m \in Lists, m # l
             PROVE  Index(m)' = Index(m)
  BY DEF KeepsOthers
<1>1. IndexRight /\ IndexRight'
  BY IndexIsRight, PTL
<1>2. pxIndex'[m] = pxIndex[m]
  BY DEF StepOn
<1>3. CASE ~InUse(m)
  BY <1>1, <1>2, <1>3 DEF IndexRight, IndexOf
<1>4. CASE InUse(m)
  <2>1. PICK d \in Callers : list(d) = m
    <3>1. PICK d \in Callers : m \in {call[d].list, call[d].item}
      BY <1>4 DEF InUse
    <3>2. call[d].item # m
      BY ListsAssumption DEF IInv, TypeOK, Nodes
    <3> QED BY <3>1, <3>2 DEF list
  <2>2. call'[d] = call[d] /\ list(d)' = m /\ item(d)' = item(d)
        /\ (item(d) # i \/ item(d) = NULL)
    BY <2>1 DEF list, item
  <2>3. m \in Nodes /\ m \notin NodesOf(l) \union {i}
    <3>1. m \in NodesOf(m) /\ NodesOf(l) \intersect NodesOf(m) = {} /\ m # NULL /\ m \notin ListItems
      BY NodesApart, ListsAssumption DEF StepOn, NodesOf, Ring, Nodes
    <3> QED BY <3>1 DEF StepOn, Nodes
  <2>4. pxNext'[m] = pxNext[m]
    BY <2>3 DEF StepOn
  <2>5. At(d, "moveIndex") => pxPrevious'[item(d)] = pxPrevious[item(d)]
    <3> SUFFICES ASSUME call[d].at = "moveIndex"
                 PROVE  pxPrevious'[item(d)] = pxPrevious[item(d)]
      BY DEF At
    <3>1. CallOK(d)
      <4>1. ~Idle(d)
        BY DEF Idle, NoCall, CallAt
      <4> QED BY <4>1 DEF IInv
    <3>2. item(d) \in ListItems /\ Free(item(d)) /\ item(d) # NULL
      BY <3>1, ListsAssumption DEF CallOK, ItemOK, Leaving, Nodes
    <3>3. item(d) \in Nodes /\ item(d) \notin NodesOf(l) \union {i}
      BY <2>2, <3>2, NodesApart DEF StepOn, Nodes
    <3> QED BY <3>3 DEF StepOn
  <2>6. Upcoming(d, m)' = Upcoming(d, m)
    BY <1>2, <2>2, <2>4, <2>5 DEF Upcoming, At, IndexWithout
  <2> QED BY <1>1, <2>1, <2>2, <2>6 DEF IndexRight, IndexOf
<1> QED BY <1>3, <1>4

(* So the invariant is kept if the step keeps its own list and item right.  *)
LEMMA CallerStep ==
  ASSUME IInv, TypeOK', NEW c \in Callers, NEW l, NEW i, StepOn(l, i),
         \A d \in Callers : d # c => call'[d] = call[d],
         \/ ~Idle(c) /\ list(c) = l /\ item(c) = i
         \/ Idle(c) /\ ~InUse(l) /\ ~InUse(i),
         call'[c] = NoCall \/ (call'[c].list = l /\ call'[c].item = i),
         ListOK(l)',
         call'[c] = NoCall => QuietList(l)' /\ (i \in ListItems => QuietItem(i)'),
         call'[c] # NoCall => CallOK(c)'
  PROVE  IInv' /\ KeepsOthers(l)
<1> USE DEF Idle
<1>1. /\ l \in Lists /\ i \in ListItems \union {NULL} /\ l # NULL
      /\ \A n \in ListItems : n # NULL /\ n \notin Lists
      /\ NULL \notin Lists
  BY ListsAssumption DEF StepOn, Nodes
<1>2. ASSUME NEW d \in Callers, d # c, ~Idle(d)
      PROVE  list(d) # l /\ (item(d) # i \/ item(d) = NULL)
  BY <1>1, <1>2 DEF IInv, Apart, InUse, list, item
<1>3. call[c].list \in {l, NULL} /\ call[c].item \in {i, NULL}
  BY DEF list, item, NoCall, CallAt
<1>4. \A m \in Lists : m # l /\ ~InUse(m)' => ~InUse(m)
  <2> SUFFICES ASSUME NEW m \in Lists, m # l, InUse(m)
               PROVE  InUse(m)'
    OBVIOUS
  <2>1. PICK d \in Callers : m \in {call[d].list, call[d].item}
    BY DEF InUse
  <2>2. d # c
    BY <1>1, <1>3, <2>1
  <2> QED BY <2>1, <2>2 DEF InUse
<1>5. \A j \in ListItems : j # i /\ ~InUse(j)' => ~InUse(j)
  <2> SUFFICES ASSUME NEW j \in ListItems, j # i, InUse(j)
               PROVE  InUse(j)'
    OBVIOUS
  <2>1. PICK d \in Callers : j \in {call[d].list, call[d].item}
    BY DEF InUse
  <2>2. d # c
    BY <1>1, <1>3, <2>1
  <2> QED BY <2>1, <2>2 DEF InUse
<1>6. ~InUse(l)' => QuietList(l)'
  BY <1>1 DEF InUse
<1>7. i \in ListItems /\ ~InUse(i)' => QuietItem(i)'
  BY <1>1 DEF InUse
<1>8. Disjoint'
  BY StillDisjoint DEF ListOK
<1>9. Apart'
  <2> SUFFICES ASSUME NEW d \in Callers, d # c, ~Idle(d)', ~Idle(c)'
               PROVE  /\ list(c)' # list(d)' /\ (item(c)' # item(d)' \/ item(c)' = NULL)
                      /\ item(c)' # item(d)' \/ item(d)' = NULL
    BY DEF IInv, Apart, list, item
  <2>1. ~Idle(d)
    OBVIOUS
  <2> QED BY <1>1, <1>2, <2>1 DEF list, item
<1>10. \A m \in Lists : ListOK(m)' /\ (~InUse(m)' => QuietList(m)')
  <2> SUFFICES ASSUME NEW m \in Lists
               PROVE  ListOK(m)' /\ (~InUse(m)' => QuietList(m)')
    OBVIOUS
  <2>1. CASE m = l
    BY <1>6, <2>1
  <2>2. CASE m # l
    BY <1>4, <2>2, OtherLists DEF IInv
  <2> QED BY <2>1, <2>2
<1>11. \A j \in ListItems : ~InUse(j)' => QuietItem(j)'
  <2> SUFFICES ASSUME NEW j \in ListItems, ~InUse(j)'
               PROVE  QuietItem(j)'
    OBVIOUS
  <2>1. CASE j = i
    BY <1>7, <2>1
  <2>2. CASE j # i
    BY <1>5, <2>2, OtherItems DEF IInv
  <2> QED BY <2>1, <2>2
<1>12. \A d \in Callers : ~Idle(d)' => CallOK(d)'
  <2> SUFFICES ASSUME NEW d \in Callers, ~Idle(d)'
               PROVE  CallOK(d)'
    OBVIOUS
  <2>1. CASE d = c
    BY <2>1
  <2>2. CASE d # c
    <3>1. call'[d] = call[d] /\ ~Idle(d)
      BY <2>2
    <3> QED BY <1>2, <2>2, <3>1, OtherCalls
  <2> QED BY <2>1, <2>2
<1>13. IInv'
  BY <1>8, <1>9, <1>10, <1>11, <1>12 DEF IInv
<1>14. \A m \in Lists : m # l /\ InUse(m)' => InUse(m)
  <2> SUFFICES ASSUME NEW m \in Lists, m # l, InUse(m)'
               PROVE  InUse(m)
    OBVIOUS
  <2>1. PICK d \in Callers : m \in {call'[d].list, call'[d].item}
    BY DEF InUse
  <2>2. d # c
    BY <1>1, <2>1 DEF NoCall, CallAt
  <2> QED BY <1>1, <2>1, <2>2 DEF InUse
<1>15. ASSUME NEW d \in Callers, list(d) \in Lists \ {l}
       PROVE  call'[d] = call[d] /\ (item(d) # i \/ item(d) = NULL)
  <2>1. d # c /\ ~Idle(d)
    BY <1>1, <1>3, <1>15 DEF NoCall, CallAt, list
  <2> QED BY <1>2, <2>1
<1> QED BY <1>4, <1>13, <1>14, <1>15, OtherIndexes

(* The same for a whole call.                                               *)
LEMMA WholeStep ==
  ASSUME IInv, TypeOK', NEW l, NEW i \in ListItems, StepOn(l, i),
         call' = call, ~InUse(l), ~InUse(i),
         ListOK(l)', QuietList(l)', QuietItem(i)'
  PROVE  IInv' /\ KeepsOthers(l)
<1>1. l \in Lists /\ l # NULL /\ i # NULL
  BY ListsAssumption DEF StepOn, Nodes
<1>2. ASSUME NEW d \in Callers, ~Idle(d)
      PROVE  list(d) # l /\ item(d) # i
  BY <1>1 DEF InUse, list, item
<1>3. \A n : InUse(n)' <=> InUse(n)
  BY DEF InUse
<1>4. Disjoint' /\ Apart'
  BY StillDisjoint DEF ListOK, IInv, Apart, Idle, list, item
<1>5. \A m \in Lists : ListOK(m)' /\ (~InUse(m)' => QuietList(m)')
  <2> SUFFICES ASSUME NEW m \in Lists
               PROVE  ListOK(m)' /\ (~InUse(m)' => QuietList(m)')
    OBVIOUS
  <2>1. CASE m = l
    BY <2>1
  <2>2. CASE m # l
    BY <1>3, <2>2, OtherLists DEF IInv
  <2> QED BY <2>1, <2>2
<1>6. \A j \in ListItems : ~InUse(j)' => QuietItem(j)'
  <2> SUFFICES ASSUME NEW j \in ListItems, ~InUse(j)'
               PROVE  QuietItem(j)'
    OBVIOUS
  <2>1. CASE j = i
    BY <2>1
  <2>2. CASE j # i
    BY <1>3, <2>2, OtherItems DEF IInv
  <2> QED BY <2>1, <2>2
<1>7. \A d \in Callers : ~Idle(d)' => CallOK(d)'
  <2> SUFFICES ASSUME NEW d \in Callers, ~Idle(d)'
               PROVE  CallOK(d)'
    OBVIOUS
  <2>1. ~Idle(d)
    BY DEF Idle
  <2> QED BY <1>2, <2>1, OtherCalls
<1>8. IInv'
  BY <1>4, <1>5, <1>6, <1>7 DEF IInv
<1>9. ASSUME NEW d \in Callers, list(d) \in Lists \ {l}
      PROVE  item(d) # i \/ item(d) = NULL
  BY <1>1 DEF InUse, item
<1> QED BY <1>3, <1>8, <1>9, OtherIndexes

-----------------------------------------------------------------------------
(* What the actions need of a list, and of a call under way.                *)
LEMMA ListFacts ==
  ASSUME IInv, NEW l \in Lists
  PROVE  /\ Orderly(l, contents[l]) /\ IsRing(l, contents[l], pxNext)
         /\ NodesOf(l) \subseteq Nodes /\ l \in NodesOf(l) /\ NULL \notin NodesOf(l)
         /\ Items(contents[l]) \subseteq NodesOf(l) /\ l \notin ListItems
         /\ \A n \in NodesOf(l) : pxNext[n] \in NodesOf(l)
         /\ \A m, n \in NodesOf(l) : pxNext[m] = pxNext[n] => m = n
         /\ \A n \in NodesOf(l) : \E m \in NodesOf(l) : pxNext[m] = n
         /\ \A i \in Items(contents[l]) : pxNext[i] # i
         /\ \A i \in ListItems : Free(i) => i \notin NodesOf(l)
         /\ \A n \in NodesOf(l) : n \in Items(contents[l]) \/ n = l
<1>1. Orderly(l, contents[l]) /\ IsRing(l, contents[l], pxNext)
  BY DEF IInv, ListOK
<1>2. Items(contents[l]) \subseteq ListItems
  BY <1>1, ItemsTyped DEF Orderly
<1>3. /\ NodesOf(l) \subseteq Nodes /\ l \in NodesOf(l) /\ NULL \notin NodesOf(l)
      /\ Items(contents[l]) \subseteq NodesOf(l) /\ l \notin ListItems
      /\ \A i \in ListItems : Free(i) => i \notin NodesOf(l)
      /\ \A n \in NodesOf(l) : n \in Items(contents[l]) \/ n = l
  BY <1>2, ListsAssumption DEF NodesOf, Ring, Nodes, Free
<1> QED BY <1>1, <1>3, RingSteps DEF NodesOf

LEMMA CallFacts ==
  ASSUME IInv, NEW c \in Callers, call[c].at # "returned"
  PROVE  /\ ~Idle(c) /\ CallOK(c) /\ list(c) \in Lists
         /\ call[c] \in [at : Statements \union {"returned"}, list : Lists \union {NULL},
                         item : ListItems \union {NULL}, node : Nodes \union {NULL}]
         /\ call[c].at # "skipEnd" => item(c) \in ListItems /\ item(c) \in Nodes
         /\ list(c) \in Nodes
<1>1. ~Idle(c)
  BY DEF Idle, NoCall, CallAt
<1> QED BY <1>1 DEF IInv, CallOK, ItemOK, TypeOK, Nodes

LEMMA ListKept ==
  ASSUME IInv, NEW l \in Lists, contents' = contents, xItemValue' = xItemValue,
         \A n \in NodesOf(l) : pxNext'[n] = pxNext[n]
  PROVE  ListOK(l)' /\ NodesOf(l)' = NodesOf(l)
<1>1. ListOK(l)
  BY DEF IInv
<1>2. \A k \in 0..Len(contents[l]) : Node(l, contents[l], k) \in NodesOf(l)
  BY <1>1, NodesAndPlaces DEF ListOK, NodesOf
<1>3. IsRing(l, contents[l], pxNext')
  BY <1>1, <1>2 DEF ListOK, IsRing
<1> QED BY <1>1, <1>3 DEF ListOK, NodesOf

(* The node before the end marker is the last.                              *)
LEMMA LastNode ==
  ASSUME IInv, NEW l \in Lists, QuietList(l)
  PROVE  /\ pxPrevious[l] \in NodesOf(l)
         /\ Place(l, contents[l], pxPrevious[l]) = Len(contents[l])
<1> DEFINE s == contents[l]
<1>1. Orderly(l, s) /\ IsRing(l, s, pxNext)
  BY ListFacts
<1>2. /\ Len(s) \in Nat /\ Node(l, s, Len(s)) \in Ring(l, s)
      /\ Place(l, s, Node(l, s, Len(s))) = Len(s) /\ Node(l, s, Len(s) + 1) = l
  BY <1>1, NodesAndPlaces
<1>3. pxNext[Node(l, s, Len(s))] = l
  BY <1>1, <1>2 DEF IsRing
<1> QED BY <1>2, <1>3 DEF QuietList, PointsBack, NodesOf

-----------------------------------------------------------------------------
(* Steps that only begin a call.                                            *)
LEMMA BeginStep ==
  ASSUME IInv, NEW c \in Callers,
         NEW statement \in Statements, NEW l \in Lists, NEW i \in ListItems \union {NULL},
         NEW n \in Nodes \union {NULL},
         Begin(c, CallAt(statement, l, i, n)),
         pxIndex' \in [Lists -> Nodes],
         \A m \in Lists : m # l => pxIndex'[m] = pxIndex[m],
         UNCHANGED <<links, xItemValue, pxContainer, uxNumberOfItems, contents>>,
         i \in ListItems => Free(i) \/ i \in Items(contents[l]),
         CallOK(c)'
  PROVE  IInv' /\ KeepsOthers(l)
<1> USE DEF links
<1> DEFINE new == CallAt(statement, l, i, n)
<1>1. statement # "returned"
  BY DEF Statements
<1>2. call' = [call EXCEPT ![c] = new] /\ call'[c] = new
  BY DEF Begin, IInv, TypeOK
<1>3. /\ new \in [at : Statements \union {"returned"}, list : Lists \union {NULL},
                 item : ListItems \union {NULL}, node : Nodes \union {NULL}]
      /\ new.list = l /\ new.item = i /\ new # NoCall
  BY <1>1 DEF CallAt, NoCall
<1> HIDE DEF new
<1>4. TypeOK'
  BY <1>2, <1>3 DEF IInv, TypeOK
<1>5. StepOn(l, i)
  BY DEF StepOn
<1>6. ListOK(l)'
  BY ListKept
<1>7. \A d \in Callers : d # c => call'[d] = call[d]
  BY <1>2 DEF IInv, TypeOK
<1>8. Idle(c) /\ ~InUse(l) /\ ~InUse(i)
  BY <1>3 DEF Begin, new
<1> QED BY <1>2, <1>3, <1>4, <1>5, <1>6, <1>7, <1>8, CallerStep

(* An item that is in no call and in no list.                               *)
LEMMA UnlinkedIsFree ==
  ASSUME IInv, NEW i \in ListItems, ~InUse(i), ~Linked(i)
  PROVE  Free(i) /\ pxContainer[i] = NULL
BY ListsAssumption DEF IInv, QuietItem, Linked, Free, Nodes

LEMMA InsertStep ==
  ASSUME IInv, NEW c \in Callers, NEW l \in SortedLists, NEW i \in ListItems,
         vListInsert(c, l, i)
  PROVE  IInv' /\ KeepsOthers(l)
<1> DEFINE new == StartOfWalk(l, i)
           s == contents[l]
<1>1. l \in Lists /\ l # NULL
  BY ListsAssumption DEF Nodes
<1>2. /\ Begin(c, new) /\ ~Linked(i)
      /\ UNCHANGED <<links, xItemValue, pxContainer, heads, contents>>
  BY DEF vListInsert
<1>3. new.list = l /\ new.item = i /\ new.at \in {"walk", "setNext"}
  BY DEF StartOfWalk, CallAt
<1>4. ~InUse(l) /\ ~InUse(i) /\ call'[c] = new
  BY <1>2, <1>3 DEF Begin, IInv, TypeOK
<1>5. Free(i) /\ pxContainer[i] = NULL
  BY <1>2, <1>4, UnlinkedIsFree
<1>6. QuietList(l) /\ ListOK(l) /\ NodesOf(l) \subseteq Nodes /\ l \in NodesOf(l)
  BY <1>1, <1>4, ListFacts DEF IInv
<1>7. /\ Len(s) \in Nat /\ \A k \in 1..Len(s) : s[k] \in ListItems
      /\ Place(l, s, l) = 0
  BY <1>6, NodesAndPlaces, ElementOfSeq DEF ListOK, Orderly
<1>8. /\ new.node \in NodesOf(l)
      /\ new.at = "walk" => new.node = l /\ xItemValue[i] < portMAX_DELAY
      /\ new.at = "setNext" =>
           Place(l, s, new.node) = Len(s) /\ xItemValue[i] = portMAX_DELAY
      /\ xItemValue \in [Nodes -> 0..portMAX_DELAY] /\ portMAX_DELAY \in Nat
  <2>1. xItemValue \in [Nodes -> 0..portMAX_DELAY] /\ portMAX_DELAY \in Nat
    BY ListsAssumption DEF IInv, TypeOK
  <2>2. xItemValue[i] \in 0..portMAX_DELAY
    BY <2>1 DEF Nodes
  <2>3. pxPrevious[l] \in NodesOf(l) /\ Place(l, s, pxPrevious[l]) = Len(s)
    BY <1>1, <1>6, LastNode
  <2> QED BY <1>6, <2>1, <2>2, <2>3 DEF StartOfWalk, CallAt
<1>9. \A k \in 1..Len(s) : xItemValue[s[k]] \in 0..portMAX_DELAY
  BY <1>7, <1>8 DEF Nodes
<1>10. new = CallAt(new.at, l, i, new.node) /\ new.at \in Statements
  <2>1. new = CallAt(new.at, l, i, new.node)
    BY DEF StartOfWalk, CallAt
  <2> QED BY <1>3, <2>1 DEF Statements
<1>11. NodesOf(l)' = NodesOf(l)
  BY <1>2 DEF NodesOf
<1> HIDE DEF new
<1>12. CallOK(c)'
  <2> USE <1>2, <1>3, <1>4, <1>11 DEF list, item, node, links, heads
  <2>1. ItemOK(c)'
    BY <1>5 DEF ItemOK, Linking, Inserting, Appending, Leaving, Finishing, Unlinking, Free
  <2>2. HeadOK(c)'
    BY <1>6 DEF HeadOK, QuietList, PointsBack, Linking, Inserting, Unlinking,
         Finishing, Leaving
  <2>3. InsertOK(c)'
    <3>1. PlaceOf(c)' = Place(l, s, new.node)
      BY DEF PlaceOf
    <3>2. \A k \in 1..Place(l, s, new.node) : xItemValue[s[k]] <= xItemValue[i]
      BY <1>6, <1>7, <1>8, <1>9
    <3> QED BY <1>1, <1>6, <1>7, <1>8, <3>1, <3>2 DEF InsertOK
  <2>4. AppendOK(c)' /\ RemoveOK(c)'
    BY DEF AppendOK, RemoveOK, Appending
  <2>5. call'[c].at \in Statements
    BY DEF Statements
  <2> QED BY <1>1, <2>1, <2>2, <2>3, <2>4, <2>5 DEF CallOK
<1>13. new.node \in Nodes
  BY <1>6, <1>8
<1>14. Begin(c, CallAt(new.at, l, i, new.node))
  BY <1>2, <1>10
<1> QED BY <1>1, <1>2, <1>5, <1>10, <1>12, <1>13, <1>14, BeginStep DEF heads, IInv, TypeOK

LEMMA InsertEndStep ==
  ASSUME IInv, NEW c \in Callers, NEW l \in Lists \ SortedLists, NEW i \in ListItems,
         vListInsertEnd(c, l, i)
  PROVE  IInv' /\ KeepsOthers(l)
<1> DEFINE new == CallAt("setNextToIndex", l, i, pxIndex[l])
<1>1. /\ Begin(c, new) /\ ~Linked(i)
      /\ UNCHANGED <<links, xItemValue, pxContainer, heads, contents>>
  BY DEF vListInsertEnd
<1>2. ~InUse(l) /\ ~InUse(i) /\ call'[c] = new
  BY <1>1 DEF Begin, IInv, TypeOK, CallAt
<1>3. Free(i) /\ pxContainer[i] = NULL
  BY <1>1, <1>2, UnlinkedIsFree
<1>4. QuietList(l) /\ NodesOf(l) \subseteq Nodes /\ pxIndex[l] \in NodesOf(l)
  BY <1>2, ListFacts DEF IInv, QuietList
<1>5. NodesOf(l)' = NodesOf(l)
  BY <1>1 DEF NodesOf
<1>6. CallOK(c)'
  <2> USE <1>1, <1>2, <1>5 DEF list, item, node, links, heads, CallAt
  <2>1. ItemOK(c)'
    BY <1>3 DEF ItemOK, Linking, Inserting, Appending, Leaving, Finishing, Unlinking, Free
  <2>2. HeadOK(c)'
    BY <1>4 DEF HeadOK, QuietList, PointsBack, Linking, Inserting, Unlinking,
         Finishing, Leaving
  <2>3. InsertOK(c)' /\ AppendOK(c)' /\ RemoveOK(c)'
    BY <1>4 DEF InsertOK, Inserting, AppendOK, RemoveOK, Appending
  <2>4. call'[c].at \in Statements
    BY DEF Statements
  <2> QED BY <2>1, <2>2, <2>3, <2>4 DEF CallOK
<1>7. "setNextToIndex" \in Statements /\ pxIndex[l] \in Nodes
  BY <1>4 DEF Statements
<1> QED BY <1>1, <1>3, <1>6, <1>7, BeginStep DEF heads, IInv, TypeOK

LEMMA RemoveStep ==
  ASSUME IInv, NEW c \in Callers, NEW i \in ListItems, uxListRemove(c, i)
  PROVE  IInv' /\ KeepsOthers(pxContainer[i])
<1> DEFINE l == pxContainer[i]
           new == CallAt("unlinkPrevious", l, i, NULL)
<1>1. /\ Begin(c, new) /\ l \in Lists
      /\ UNCHANGED <<links, xItemValue, pxContainer, heads, contents>>
  BY DEF uxListRemove, Linked, IInv, TypeOK
<1>2. ~InUse(l) /\ ~InUse(i) /\ call'[c] = new
  BY <1>1 DEF Begin, IInv, TypeOK, CallAt
<1>3. i \in Items(contents[l])
  BY <1>1, <1>2 DEF IInv, QuietItem
<1>4. QuietList(l)
  BY <1>1, <1>2 DEF IInv
<1>5. NodesOf(l)' = Ring(l, contents[l])
  BY <1>1 DEF NodesOf
<1> HIDE DEF l
<1>6. CallOK(c)'
  <2> USE <1>1, <1>2, <1>5 DEF list, item, node, links, heads, CallAt
  <2>1. ItemOK(c)'
    BY <1>3 DEF ItemOK, Linking, Inserting, Appending, Leaving, Finishing, Unlinking, l
  <2>2. HeadOK(c)'
    BY <1>4 DEF HeadOK, QuietList, PointsBack, Linking, Inserting, Appending, Unlinking,
         Finishing, Leaving, NodesOf
  <2>3. InsertOK(c)' /\ AppendOK(c)' /\ RemoveOK(c)'
    BY DEF InsertOK, Inserting, AppendOK, RemoveOK, Appending
  <2>4. call'[c].at \in Statements
    BY DEF Statements
  <2> QED BY <2>1, <2>2, <2>3, <2>4 DEF CallOK
<1>7. "unlinkPrevious" \in Statements
  BY DEF Statements
<1> QED BY <1>1, <1>3, <1>6, <1>7, BeginStep DEF heads, IInv, TypeOK, l

LEMMA NextEntryStep ==
  ASSUME IInv, NEW c \in Callers, NEW l \in Lists \ SortedLists,
         listGET_OWNER_OF_NEXT_ENTRY(c, l)
  PROVE  IInv' /\ KeepsOthers(l)
<1> DEFINE new == CallAt("skipEnd", l, NULL, NULL)
<1>1. /\ Begin(c, new) /\ uxNumberOfItems[l] > 0
      /\ pxIndex' = [pxIndex EXCEPT ![l] = pxNext[@]]
      /\ UNCHANGED <<links, xItemValue, pxContainer, uxNumberOfItems, contents>>
  BY DEF listGET_OWNER_OF_NEXT_ENTRY
<1>2. ~InUse(l) /\ call'[c] = new
  BY <1>1 DEF Begin, IInv, TypeOK, CallAt
<1>3. QuietList(l)
  BY <1>2 DEF IInv
<1>4. pxNext[pxIndex[l]] \in NodesOf(l) /\ NodesOf(l) \subseteq Nodes
  BY <1>3, ListFacts DEF QuietList
<1>5. /\ pxIndex' \in [Lists -> Nodes] /\ pxIndex'[l] = pxNext[pxIndex[l]]
      /\ \A m \in Lists : m # l => pxIndex'[m] = pxIndex[m]
  BY <1>1, <1>4 DEF IInv, TypeOK
<1>6. contents[l] # <<>>
  BY <1>1, <1>3, EmptySeq DEF QuietList
<1>7. NodesOf(l)' = NodesOf(l)
  BY <1>1 DEF NodesOf
<1>8. CallOK(c)'
  <2> USE <1>1, <1>2, <1>5, <1>7 DEF list, item, node, links, CallAt
  <2>1. ItemOK(c)'
    BY DEF ItemOK, Linking, Inserting, Appending, Leaving, Finishing, Unlinking
  <2>2. HeadOK(c)'
    BY <1>3, <1>4 DEF HeadOK, QuietList, PointsBack, Linking, Inserting, Appending,
         Unlinking, Finishing, Leaving
  <2>3. InsertOK(c)' /\ AppendOK(c)' /\ RemoveOK(c)'
    BY <1>6 DEF InsertOK, Inserting, AppendOK, RemoveOK, Appending
  <2>4. call'[c].at \in Statements
    BY DEF Statements
  <2> QED BY <2>1, <2>2, <2>3, <2>4 DEF CallOK
<1>9. NULL \notin ListItems
  BY ListsAssumption DEF Nodes
<1>10. "skipEnd" \in Statements
  BY DEF Statements
<1> QED BY <1>1, <1>5, <1>8, <1>9, <1>10, BeginStep

-----------------------------------------------------------------------------
(* Steps in a call that write a link but neither link nor unlink an item.   *)

LEMMA GoToCall ==
  ASSUME IInv, NEW c \in Callers, NEW statement \in Statements, GoTo(c, statement)
  PROVE  /\ call'[c].at = statement
         /\ list(c)' = list(c) /\ item(c)' = item(c) /\ node(c)' = node(c)
         /\ call'[c] # NoCall
         /\ call' \in [Callers -> [at : Statements \union {"returned"},
                                   list : Lists \union {NULL},
                                   item : ListItems \union {NULL},
                                   node : Nodes \union {NULL}]]
         /\ \A d \in Callers : d # c => call'[d] = call[d]
<1>1. statement # "returned"
  BY DEF Statements
<1> QED BY <1>1 DEF GoTo, IInv, TypeOK, NoCall, CallAt, list, item, node

LEMMA LinkWrite ==
  ASSUME IInv, NEW c \in Callers, call[c].at \notin {"returned", "skipEnd"},
         NEW statement \in Statements, GoTo(c, statement),
         NEW x \in NodesOf(list(c)) \union {item(c)}, NEW v \in Nodes \union {NULL},
         \/ /\ pxNext' = [pxNext EXCEPT ![x] = v] /\ x \notin NodesOf(list(c))
            /\ UNCHANGED pxPrevious
         \/ pxPrevious' = [pxPrevious EXCEPT ![x] = v] /\ UNCHANGED pxNext,
         UNCHANGED <<xItemValue, pxContainer, heads, contents>>,
         CallOK(c)'
  PROVE  IInv' /\ KeepsOthers(list(c))
<1>1. /\ ~Idle(c) /\ CallOK(c) /\ list(c) \in Lists
      /\ item(c) \in ListItems /\ item(c) \in Nodes
  BY CallFacts
<1>2. PICK l \in Lists, i \in ListItems : l = list(c) /\ i = item(c)
  BY <1>1
<1>3. NodesOf(l) \subseteq Nodes /\ i \in Nodes /\ x \in Nodes
  BY <1>1, <1>2, ListFacts
<1>4. call'[c].list = l /\ call'[c].item = i
  BY <1>2, GoToCall DEF list, item
<1>5. TypeOK'
  <2>1. pxNext' \in [Nodes -> Nodes \union {NULL}] /\ pxPrevious' \in [Nodes -> Nodes \union {NULL}]
    <3>1. /\ pxNext \in [Nodes -> Nodes \union {NULL}]
          /\ pxPrevious \in [Nodes -> Nodes \union {NULL}]
      BY DEF IInv, TypeOK
    <3>2. CASE pxNext' = [pxNext EXCEPT ![x] = v] /\ UNCHANGED pxPrevious
      BY <3>1, <3>2
    <3>3. CASE pxPrevious' = [pxPrevious EXCEPT ![x] = v] /\ UNCHANGED pxNext
      BY <3>1, <3>3
    <3> QED BY <3>2, <3>3
  <2> QED BY <2>1, GoToCall DEF IInv, TypeOK, heads
<1>6. Free(i) \/ i \in Items(contents[l])
  BY <1>1, <1>2 DEF CallOK, ItemOK, Statements, Linking, Inserting, Appending, Finishing,
       Unlinking, Leaving
<1>7. \A n \in Nodes : n \notin NodesOf(l) \union {i} =>
        pxNext'[n] = pxNext[n] /\ pxPrevious'[n] = pxPrevious[n]
  BY <1>2, <1>3 DEF IInv, TypeOK
<1>8. StepOn(l, i)
  BY <1>6, <1>7 DEF StepOn, heads
<1>9. \A n \in NodesOf(l) : pxNext'[n] = pxNext[n]
  BY <1>2, <1>3 DEF IInv, TypeOK
<1>10. ListOK(l)'
  BY <1>9, ListKept
<1>11. ~Idle(c) /\ list(c) = l /\ item(c) = i
  BY <1>1, <1>2
<1> QED BY <1>4, <1>5, <1>8, <1>10, <1>11, GoToCall, CallerStep

LEMMA SetNextStep ==
  ASSUME IInv, NEW c \in Callers, SetNext(c)
  PROVE  IInv' /\ KeepsOthers(list(c))
<1> DEFINE l == list(c)
           i == item(c)
           n == node(c)
<1>1. call[c].at = "setNext" /\ GoTo(c, "setPreviousOfNext") /\ "setPreviousOfNext" \in Statements
  BY DEF SetNext, At, Statements
<1>2. ~Idle(c) /\ CallOK(c) /\ l \in Lists /\ i \in ListItems /\ i \in Nodes
  BY <1>1, CallFacts
<1>3. ItemOK(c) /\ HeadOK(c) /\ InsertOK(c) /\ n \in NodesOf(l) /\ Free(i)
  BY <1>1, <1>2 DEF CallOK, ItemOK, InsertOK, Linking, Inserting
<1>4. /\ i \notin NodesOf(l) /\ NodesOf(l) \subseteq Nodes
      /\ \A m \in NodesOf(l) : pxNext[m] \in NodesOf(l)
  BY <1>2, <1>3, ListFacts
<1>5. /\ pxNext' = [pxNext EXCEPT ![i] = pxNext[n]]
      /\ UNCHANGED <<pxPrevious, xItemValue, pxContainer, heads, contents>>
  BY DEF SetNext
<1>6. pxNext[n] \in Nodes
  BY <1>3, <1>4
<1>7. /\ call'[c].at = "setPreviousOfNext"
      /\ list(c)' = l /\ item(c)' = i /\ node(c)' = n /\ NodesOf(l)' = NodesOf(l)
  BY <1>1, <1>5, GoToCall DEF NodesOf, list
<1>8. \A m \in NodesOf(l) : pxNext'[m] = pxNext[m]
  BY <1>4, <1>5 DEF IInv, TypeOK
<1>9. pxNext'[i] = pxNext[n]
  BY <1>2, <1>5 DEF IInv, TypeOK
<1>10. CallOK(c)'
  <2> USE <1>5, <1>7
  <2>1. ItemOK(c)'
    BY <1>1, <1>2, <1>3 DEF ItemOK, Linking, Inserting, Appending, Leaving, Finishing,
         Unlinking, Free
  <2>2. HeadOK(c)'
    BY <1>1, <1>3, <1>4, <1>8 DEF HeadOK, Open, PointsBack, Linking, Inserting,
         Appending, Unlinking, Finishing, Leaving, heads
  <2>3. InsertOK(c)'
    BY <1>1, <1>3, <1>8, <1>9 DEF InsertOK, PlaceOf, Inserting
  <2>4. AppendOK(c)' /\ RemoveOK(c)'
    BY DEF AppendOK, RemoveOK, Appending
  <2> QED BY <1>1, <1>2, <2>1, <2>2, <2>3, <2>4 DEF CallOK
<1> QED BY <1>1, <1>4, <1>5, <1>6, <1>10, LinkWrite

LEMMA SetPreviousOfNextStep ==
  ASSUME IInv, NEW c \in Callers, SetPreviousOfNext(c)
  PROVE  IInv' /\ KeepsOthers(list(c))
<1> DEFINE l == list(c)
           i == item(c)
           n == node(c)
<1>1. call[c].at = "setPreviousOfNext" /\ GoTo(c, "setPrevious") /\ "setPrevious" \in Statements
  BY DEF SetPreviousOfNext, At, Statements
<1>2. ~Idle(c) /\ CallOK(c) /\ l \in Lists /\ i \in ListItems /\ i \in Nodes
  BY <1>1, CallFacts
<1>3. ItemOK(c) /\ HeadOK(c) /\ InsertOK(c) /\ AppendOK(c) /\ RemoveOK(c)
  BY <1>2 DEF CallOK
<1>4. n \in NodesOf(l) /\ Free(i)
  BY <1>1, <1>3 DEF ItemOK, InsertOK, AppendOK, Linking, Inserting, Appending
<1>5. /\ i \notin NodesOf(l) /\ NodesOf(l) \subseteq Nodes
      /\ \A m \in NodesOf(l) : pxNext[m] \in NodesOf(l)
      /\ \A m \in NodesOf(l) : pxNext[m] = pxNext[n] => m = n
  BY <1>2, <1>4, ListFacts
<1>6. /\ pxPrevious' = [pxPrevious EXCEPT ![pxNext[i]] = i]
      /\ UNCHANGED <<pxNext, xItemValue, pxContainer, heads, contents>>
  BY DEF SetPreviousOfNext
<1>7. /\ call'[c].at = "setPrevious"
      /\ list(c)' = l /\ item(c)' = i /\ node(c)' = n /\ NodesOf(l)' = NodesOf(l)
  BY <1>1, <1>6, GoToCall DEF NodesOf, list
<1>8. pxNext[i] = pxNext[n] /\ pxNext[n] \in NodesOf(l) /\ pxNext[n] \in Nodes
  BY <1>1, <1>3, <1>4, <1>5 DEF InsertOK, Inserting
<1>9. /\ pxPrevious'[pxNext[n]] = i
      /\ \A m \in NodesOf(l) : m # n => pxPrevious'[pxNext[m]] = pxPrevious[pxNext[m]]
  BY <1>5, <1>6, <1>8 DEF IInv, TypeOK
<1>10. CallOK(c)'
  <2> USE <1>6, <1>7
  <2>1. ItemOK(c)'
    BY <1>1, <1>2, <1>3 DEF ItemOK, Linking, Inserting, Appending, Leaving, Finishing,
         Unlinking, Free
  <2>2. HeadOK(c)'
    <3>1. NULL \notin NodesOf(l)
      BY <1>2, ListFacts
    <3> QED BY <1>1, <1>3, <1>9, <3>1 DEF HeadOK, Open, PointsBack, Linking, Inserting,
          Appending, Unlinking, Finishing, Leaving, heads
  <2>3. InsertOK(c)'
    BY <1>1, <1>3, <1>8, <1>9 DEF InsertOK, PlaceOf, Inserting
  <2>4. AppendOK(c)' /\ RemoveOK(c)'
    BY DEF AppendOK, RemoveOK, Appending
  <2> QED BY <1>1, <1>2, <2>1, <2>2, <2>3, <2>4 DEF CallOK
<1> QED BY <1>1, <1>2, <1>6, <1>8, <1>10, LinkWrite

LEMMA SetPreviousStep ==
  ASSUME IInv, NEW c \in Callers, SetPrevious(c)
  PROVE  IInv' /\ KeepsOthers(list(c))
<1> DEFINE l == list(c)
           i == item(c)
           n == node(c)
<1>1. call[c].at = "setPrevious" /\ GoTo(c, "setNextOfNode") /\ "setNextOfNode" \in Statements
  BY DEF SetPrevious, At, Statements
<1>2. ~Idle(c) /\ CallOK(c) /\ l \in Lists /\ i \in ListItems /\ i \in Nodes
  BY <1>1, CallFacts
<1>3. ItemOK(c) /\ HeadOK(c) /\ InsertOK(c) /\ AppendOK(c) /\ RemoveOK(c)
  BY <1>2 DEF CallOK
<1>4. n \in NodesOf(l) /\ Free(i)
  BY <1>1, <1>3 DEF ItemOK, InsertOK, AppendOK, Linking, Inserting, Appending
<1>5. /\ i \notin NodesOf(l) /\ NodesOf(l) \subseteq Nodes
      /\ \A m \in NodesOf(l) : pxNext[m] \in NodesOf(l)
      /\ \A m \in NodesOf(l) : pxNext[m] = pxNext[n] => m = n
  BY <1>2, <1>4, ListFacts
<1>6. /\ pxPrevious' = [pxPrevious EXCEPT ![i] = n]
      /\ UNCHANGED <<pxNext, xItemValue, pxContainer, heads, contents>>
  BY DEF SetPrevious
<1>7. /\ call'[c].at = "setNextOfNode"
      /\ list(c)' = l /\ item(c)' = i /\ node(c)' = n /\ NodesOf(l)' = NodesOf(l)
  BY <1>1, <1>6, GoToCall DEF NodesOf, list
<1>8. n \in Nodes
  BY <1>4, <1>5
<1>9. /\ pxPrevious'[i] = n
      /\ \A m \in NodesOf(l) : pxPrevious'[pxNext[m]] = pxPrevious[pxNext[m]]
  BY <1>2, <1>5, <1>6 DEF IInv, TypeOK
<1>10. CallOK(c)'
  <2> USE <1>6, <1>7
  <2>1. ItemOK(c)'
    BY <1>1, <1>2, <1>3 DEF ItemOK, Linking, Inserting, Appending, Leaving, Finishing,
         Unlinking, Free
  <2>2. HeadOK(c)'
    BY <1>1, <1>3, <1>9 DEF HeadOK, Open, PointsBack, Linking, Inserting,
         Appending, Unlinking, Finishing, Leaving, heads
  <2>3. InsertOK(c)'
    BY <1>1, <1>3, <1>4, <1>9 DEF InsertOK, PlaceOf, Inserting
  <2>4. AppendOK(c)' /\ RemoveOK(c)'
    BY DEF AppendOK, RemoveOK, Appending
  <2> QED BY <1>1, <1>2, <2>1, <2>2, <2>3, <2>4 DEF CallOK
<1> QED BY <1>1, <1>6, <1>8, <1>10, LinkWrite

LEMMA SetNextToIndexStep ==
  ASSUME IInv, NEW c \in Callers, SetNextToIndex(c)
  PROVE  IInv' /\ KeepsOthers(list(c))
<1> DEFINE l == list(c)
           i == item(c)
           n == node(c)
<1>1. call[c].at = "setNextToIndex" /\ GoTo(c, "copyPrevious") /\ "copyPrevious" \in Statements
  BY DEF SetNextToIndex, At, Statements
<1>2. ~Idle(c) /\ CallOK(c) /\ l \in Lists /\ i \in ListItems /\ i \in Nodes
  BY <1>1, CallFacts
<1>3. ItemOK(c) /\ HeadOK(c) /\ InsertOK(c) /\ AppendOK(c) /\ RemoveOK(c)
  BY <1>2 DEF CallOK
<1>4. n \in NodesOf(l) /\ Free(i)
  BY <1>1, <1>3 DEF ItemOK, InsertOK, AppendOK, Linking, Inserting, Appending
<1>5. /\ i \notin NodesOf(l) /\ NodesOf(l) \subseteq Nodes
      /\ \A m \in NodesOf(l) : pxNext[m] \in NodesOf(l)
      /\ \A m \in NodesOf(l) : pxNext[m] = pxNext[n] => m = n
  BY <1>2, <1>4, ListFacts
<1>6. /\ pxNext' = [pxNext EXCEPT ![i] = n]
      /\ UNCHANGED <<pxPrevious, xItemValue, pxContainer, heads, contents>>
  BY DEF SetNextToIndex
<1>7. /\ call'[c].at = "copyPrevious"
      /\ list(c)' = l /\ item(c)' = i /\ node(c)' = n /\ NodesOf(l)' = NodesOf(l)
  BY <1>1, <1>6, GoToCall DEF NodesOf, list
<1>8. n \in Nodes
  BY <1>4, <1>5
<1>9. /\ pxNext'[i] = n
      /\ \A m \in NodesOf(l) : pxNext'[m] = pxNext[m]
  BY <1>2, <1>5, <1>6 DEF IInv, TypeOK
<1>10. CallOK(c)'
  <2> USE <1>6, <1>7
  <2>1. ItemOK(c)'
    BY <1>1, <1>2, <1>3 DEF ItemOK, Linking, Inserting, Appending, Leaving, Finishing,
         Unlinking, Free
  <2>2. HeadOK(c)'
    BY <1>1, <1>3, <1>5, <1>9 DEF HeadOK, Open, PointsBack, Linking, Inserting,
         Appending, Unlinking, Finishing, Leaving, heads
  <2>3. InsertOK(c)' /\ RemoveOK(c)'
    BY DEF InsertOK, RemoveOK, Inserting
  <2>4. AppendOK(c)'
    BY <1>1, <1>3, <1>9 DEF AppendOK, Appending, heads
  <2> QED BY <1>1, <1>2, <2>1, <2>2, <2>3, <2>4 DEF CallOK
<1> QED BY <1>1, <1>5, <1>6, <1>8, <1>10, LinkWrite

LEMMA CopyPreviousStep ==
  ASSUME IInv, NEW c \in Callers, CopyPrevious(c)
  PROVE  IInv' /\ KeepsOthers(list(c))
<1> DEFINE l == list(c)
           i == item(c)
           n == node(c)
<1>1. call[c].at = "copyPrevious" /\ GoTo(c, "setNextOfPrevious") /\ "setNextOfPrevious" \in Statements
  BY DEF CopyPrevious, At, Statements
<1>2. ~Idle(c) /\ CallOK(c) /\ l \in Lists /\ i \in ListItems /\ i \in Nodes
  BY <1>1, CallFacts
<1>3. ItemOK(c) /\ HeadOK(c) /\ InsertOK(c) /\ AppendOK(c) /\ RemoveOK(c)
  BY <1>2 DEF CallOK
<1>4. n \in NodesOf(l) /\ Free(i)
  BY <1>1, <1>3 DEF ItemOK, InsertOK, AppendOK, Linking, Inserting, Appending
<1>5. /\ i \notin NodesOf(l) /\ NodesOf(l) \subseteq Nodes
      /\ \A m \in NodesOf(l) : pxNext[m] \in NodesOf(l)
      /\ \A m \in NodesOf(l) : pxNext[m] = pxNext[n] => m = n
  BY <1>2, <1>4, ListFacts
<1>6. /\ pxPrevious' = [pxPrevious EXCEPT ![i] = pxPrevious[n]]
      /\ UNCHANGED <<pxNext, xItemValue, pxContainer, heads, contents>>
  BY DEF CopyPrevious
<1>7. /\ call'[c].at = "setNextOfPrevious"
      /\ list(c)' = l /\ item(c)' = i /\ node(c)' = n /\ NodesOf(l)' = NodesOf(l)
  BY <1>1, <1>6, GoToCall DEF NodesOf, list
<1>8. pxPrevious[n] \in Nodes \union {NULL}
  BY <1>4, <1>5 DEF IInv, TypeOK
<1>9. /\ pxPrevious'[i] = pxPrevious[n] /\ pxPrevious'[n] = pxPrevious[n]
      /\ \A m \in NodesOf(l) : pxPrevious'[pxNext[m]] = pxPrevious[pxNext[m]]
  BY <1>2, <1>4, <1>5, <1>6 DEF IInv, TypeOK
<1>10. CallOK(c)'
  <2> USE <1>6, <1>7
  <2>1. ItemOK(c)'
    BY <1>1, <1>2, <1>3 DEF ItemOK, Linking, Inserting, Appending, Leaving, Finishing,
         Unlinking, Free
  <2>2. HeadOK(c)'
    BY <1>1, <1>3, <1>9 DEF HeadOK, Open, PointsBack, Linking, Inserting,
         Appending, Unlinking, Finishing, Leaving, heads
  <2>3. InsertOK(c)' /\ RemoveOK(c)'
    BY DEF InsertOK, RemoveOK, Inserting
  <2>4. AppendOK(c)'
    BY <1>1, <1>3, <1>9 DEF AppendOK, Appending, heads
  <2> QED BY <1>1, <1>2, <2>1, <2>2, <2>3, <2>4 DEF CallOK
<1> QED BY <1>1, <1>6, <1>8, <1>10, LinkWrite

LEMMA SetPreviousOfIndexStep ==
  ASSUME IInv, NEW c \in Callers, SetPreviousOfIndex(c)
  PROVE  IInv' /\ KeepsOthers(list(c))
<1> DEFINE l == list(c)
           i == item(c)
           n == node(c)
<1>1. call[c].at = "setPreviousOfIndex" /\ GoTo(c, "setContainer") /\ "setContainer" \in Statements
  BY DEF SetPreviousOfIndex, At, Statements
<1>2. ~Idle(c) /\ CallOK(c) /\ l \in Lists /\ i \in ListItems /\ i \in Nodes
  BY <1>1, CallFacts
<1>3. ItemOK(c) /\ HeadOK(c) /\ InsertOK(c) /\ AppendOK(c) /\ RemoveOK(c)
  BY <1>2 DEF CallOK
<1>4. i \in NodesOf(l) /\ i \in Items(contents[l])
  BY <1>1, <1>3 DEF ItemOK, Finishing, Unlinking, NodesOf, Ring
<1>5. /\ NodesOf(l) \subseteq Nodes
      /\ \A m \in NodesOf(l) : pxNext[m] \in NodesOf(l)
      /\ \A m \in NodesOf(l) : pxNext[m] = pxNext[i] => m = i
      /\ \A m \in NodesOf(l) : \E p \in NodesOf(l) : pxNext[p] = m
      /\ pxNext[i] # i
  BY <1>2, <1>4, ListFacts
<1>6. /\ pxPrevious' = [pxPrevious EXCEPT ![n] = i]
      /\ UNCHANGED <<pxNext, xItemValue, pxContainer, heads, contents>>
  BY DEF SetPreviousOfIndex
<1>7. /\ call'[c].at = "setContainer"
      /\ list(c)' = l /\ item(c)' = i /\ node(c)' = n /\ NodesOf(l)' = NodesOf(l)
  BY <1>1, <1>6, GoToCall DEF NodesOf, list
<1>8. pxNext[i] = n /\ n \in NodesOf(l) /\ n \in Nodes
  BY <1>1, <1>3, <1>4, <1>5 DEF AppendOK
<1>9. /\ pxPrevious'[pxNext[i]] = i
      /\ \A m \in NodesOf(l) : m # i => pxPrevious'[pxNext[m]] = pxPrevious[pxNext[m]]
  BY <1>5, <1>6, <1>8 DEF IInv, TypeOK
<1>10. CallOK(c)'
  <2> USE <1>6, <1>7
  <2>1. ItemOK(c)'
    BY <1>1, <1>2, <1>3 DEF ItemOK, Linking, Inserting, Appending, Leaving, Finishing,
         Unlinking, Free
  <2>2. HeadOK(c)'
    BY <1>1, <1>3, <1>9 DEF HeadOK, Open, PointsBack, Linking, Inserting,
         Appending, Unlinking, Finishing, Leaving, heads
  <2>3. InsertOK(c)' /\ RemoveOK(c)'
    BY DEF InsertOK, RemoveOK, Inserting
  <2>4. AppendOK(c)'
    BY DEF AppendOK, Appending
  <2> QED BY <1>1, <1>2, <2>1, <2>2, <2>3, <2>4 DEF CallOK
<1> QED BY <1>1, <1>2, <1>6, <1>8, <1>10, LinkWrite

LEMMA UnlinkPreviousStep ==
  ASSUME IInv, NEW c \in Callers, UnlinkPrevious(c)
  PROVE  IInv' /\ KeepsOthers(list(c))
<1> DEFINE l == list(c)
           i == item(c)
           n == node(c)
<1>1. call[c].at = "unlinkPrevious" /\ GoTo(c, "unlinkNext") /\ "unlinkNext" \in Statements
  BY DEF UnlinkPrevious, At, Statements
<1>2. ~Idle(c) /\ CallOK(c) /\ l \in Lists /\ i \in ListItems /\ i \in Nodes
  BY <1>1, CallFacts
<1>3. ItemOK(c) /\ HeadOK(c) /\ InsertOK(c) /\ AppendOK(c) /\ RemoveOK(c)
  BY <1>2 DEF CallOK
<1>4. i \in NodesOf(l) /\ i \in Items(contents[l])
  BY <1>1, <1>3 DEF ItemOK, Finishing, Unlinking, NodesOf, Ring
<1>5. /\ NodesOf(l) \subseteq Nodes
      /\ \A m \in NodesOf(l) : pxNext[m] \in NodesOf(l)
      /\ \A m \in NodesOf(l) : pxNext[m] = pxNext[i] => m = i
      /\ \A m \in NodesOf(l) : \E p \in NodesOf(l) : pxNext[p] = m
      /\ pxNext[i] # i
  BY <1>2, <1>4, ListFacts
<1>6. /\ pxPrevious' = [pxPrevious EXCEPT ![pxNext[i]] = pxPrevious[i]]
      /\ UNCHANGED <<pxNext, xItemValue, pxContainer, heads, contents>>
  BY DEF UnlinkPrevious
<1>7. /\ call'[c].at = "unlinkNext"
      /\ list(c)' = l /\ item(c)' = i /\ node(c)' = n /\ NodesOf(l)' = NodesOf(l)
  BY <1>1, <1>6, GoToCall DEF NodesOf, list
<1>8. /\ pxNext[i] \in NodesOf(l) /\ pxPrevious[i] \in Nodes \union {NULL}
      /\ pxPrevious[i] \in NodesOf(l) /\ pxNext[pxPrevious[i]] = i
  <2>1. PICK p \in NodesOf(l) : pxNext[p] = i
    BY <1>4, <1>5
  <2>2. Open(c) = NULL /\ NULL \notin NodesOf(l)
    BY <1>1, <1>2, ListFacts DEF Open
  <2>3. pxPrevious[i] = p
    BY <1>3, <2>1, <2>2 DEF HeadOK, PointsBack
  <2> QED BY <1>4, <1>5, <2>1, <2>3
<1>9. /\ pxPrevious'[pxNext[i]] = pxPrevious[i] /\ pxPrevious'[i] = pxPrevious[i]
      /\ \A m \in NodesOf(l) : m # i => pxPrevious'[pxNext[m]] = pxPrevious[pxNext[m]]
  BY <1>2, <1>5, <1>6, <1>8 DEF IInv, TypeOK
<1>10. CallOK(c)'
  <2> USE <1>6, <1>7
  <2>1. ItemOK(c)'
    BY <1>1, <1>2, <1>3 DEF ItemOK, Linking, Inserting, Appending, Leaving, Finishing,
         Unlinking, Free
  <2>2. HeadOK(c)'
    <3>1. NULL \notin NodesOf(l)
      BY <1>2, ListFacts
    <3> QED BY <1>1, <1>3, <1>9, <3>1 DEF HeadOK, Open, PointsBack, Linking, Inserting,
          Appending, Unlinking, Finishing, Leaving, heads
  <2>3. InsertOK(c)' /\ AppendOK(c)'
    BY DEF InsertOK, AppendOK, Inserting, Appending
  <2>4. RemoveOK(c)'
    BY <1>8, <1>9 DEF RemoveOK
  <2> QED BY <1>1, <1>2, <2>1, <2>2, <2>3, <2>4 DEF CallOK
<1> QED BY <1>1, <1>2, <1>6, <1>8, <1>10, LinkWrite

-----------------------------------------------------------------------------
(* Steps in a call that write no link.                                      *)

LEMMA NextPlace ==
  ASSUME IInv, NEW l \in Lists, NEW n \in NodesOf(l)
  PROVE  LET s == contents[l]
             p == Place(l, s, n)
         IN  /\ p \in 0..Len(s) /\ Len(s) \in Nat
             /\ p = Len(s) => pxNext[n] = l
             /\ p < Len(s) => /\ pxNext[n] = s[p + 1] /\ s[p + 1] \in Items(s)
                              /\ Place(l, s, pxNext[n]) = p + 1
<1> DEFINE s == contents[l]
           p == Place(l, s, n)
<1>1. Orderly(l, s) /\ IsRing(l, s, pxNext) /\ n \in Ring(l, s)
  BY ListFacts DEF NodesOf
<1>2. pxNext[n] = Node(l, s, p + 1)
  BY <1>1, RingSteps
<1>3. /\ p \in 0..Len(s) /\ Len(s) \in Nat /\ Node(l, s, Len(s) + 1) = l
      /\ \A k \in 1..Len(s) : Node(l, s, k) = s[k] /\ s[k] \in Items(s)
      /\ \A k \in 0..Len(s) : Place(l, s, Node(l, s, k)) = k
  BY <1>1, NodesAndPlaces
<1> QED BY <1>2, <1>3

LEMMA LocalStep ==
  ASSUME IInv, NEW c \in Callers, call[c].at # "returned", TypeOK',
         UNCHANGED <<links, xItemValue, contents>>,
         \A m \in Lists : m # list(c) =>
           pxIndex'[m] = pxIndex[m] /\ uxNumberOfItems'[m] = uxNumberOfItems[m],
         \A j \in ListItems : j # item(c) => pxContainer'[j] = pxContainer[j],
         \A d \in Callers : d # c => call'[d] = call[d],
         call'[c] = NoCall \/ (call'[c].list = list(c) /\ call'[c].item = item(c)),
         call'[c] = NoCall =>
           /\ \A l \in Lists : l = list(c) => QuietList(l)'
           /\ \A i \in ListItems : i = item(c) => QuietItem(i)',
         call'[c] # NoCall => CallOK(c)'
  PROVE  IInv' /\ KeepsOthers(list(c))
<1>1. /\ ~Idle(c) /\ CallOK(c) /\ list(c) \in Lists
      /\ item(c) \in ListItems \union {NULL}
  BY CallFacts DEF item
<1>2. PICK l \in Lists, i \in ListItems \union {NULL} : l = list(c) /\ i = item(c)
  BY <1>1
<1>3. i \in ListItems => Free(i) \/ i \in Items(contents[l])
  BY <1>1, <1>2, ListsAssumption DEF CallOK, ItemOK, Statements, Linking, Inserting,
       Appending, Finishing, Unlinking, Leaving, Nodes
<1>4. StepOn(l, i)
  BY <1>2, <1>3 DEF StepOn, links
<1>5. ListOK(l)'
  BY ListKept DEF links
<1> QED BY <1>1, <1>2, <1>4, <1>5, CallerStep

LEMMA WalkStep ==
  ASSUME IInv, NEW c \in Callers, Walk(c)
  PROVE  IInv' /\ KeepsOthers(list(c))
<1> DEFINE l == list(c)
           i == item(c)
           n == node(c)
           s == contents[l]
           p == Place(l, s, n)
<1>1. call[c].at = "walk" /\ UNCHANGED <<links, xItemValue, pxContainer, heads, contents>>
  BY DEF Walk, At
<1>2. ~Idle(c) /\ CallOK(c) /\ l \in Lists /\ i \in ListItems /\ i \in Nodes
  BY <1>1, CallFacts
<1>3. /\ ItemOK(c) /\ HeadOK(c) /\ InsertOK(c) /\ n \in NodesOf(l)
      /\ xItemValue[i] < portMAX_DELAY /\ l \in SortedLists
      /\ \A k \in 1..p : xItemValue[s[k]] <= xItemValue[i]
  BY <1>1, <1>2 DEF CallOK, InsertOK, Inserting, PlaceOf
<1>4. /\ p \in 0..Len(s) /\ Len(s) \in Nat
      /\ p = Len(s) => pxNext[n] = l
      /\ p < Len(s) => /\ pxNext[n] = s[p + 1]
                       /\ Place(l, s, pxNext[n]) = p + 1
  BY <1>2, <1>3, NextPlace
<1>5. /\ pxNext[n] \in NodesOf(l) /\ NodesOf(l) \subseteq Nodes
      /\ xItemValue[pxNext[n]] \in Int /\ xItemValue[i] \in Int /\ portMAX_DELAY \in Int
      /\ xItemValue[l] = portMAX_DELAY
  <2>1. pxNext[n] \in NodesOf(l) /\ NodesOf(l) \subseteq Nodes
    BY <1>2, <1>3, ListFacts
  <2> QED BY <1>2, <2>1, ListsAssumption DEF IInv, TypeOK, ListOK
<1>6. /\ call'[c].list = l /\ call'[c].item = i
      /\ call' \in [Callers -> [at : Statements \union {"returned"},
                                list : Lists \union {NULL},
                                item : ListItems \union {NULL},
                                node : Nodes \union {NULL}]]
      /\ \A d \in Callers : d # c => call'[d] = call[d]
      /\ \/ /\ Passes(i, n) /\ call'[c].at = "walk" /\ call'[c].node = pxNext[n]
         \/ /\ ~Passes(i, n) /\ call'[c].at = "setNext" /\ call'[c].node = n
  <2>1. CASE Passes(i, n)
    <3>1. call' = [call EXCEPT ![c].node = pxNext[@]]
      BY <2>1 DEF Walk
    <3> QED BY <1>1, <1>5, <2>1, <3>1 DEF IInv, TypeOK, list, item, node
  <2>2. CASE ~Passes(i, n)
    <3>1. GoTo(c, "setNext") /\ "setNext" \in Statements
      BY <2>2 DEF Walk, Statements
    <3> QED BY <2>2, <3>1, GoToCall DEF list, item, node
  <2> QED BY <2>1, <2>2
<1>7. /\ list(c)' = l /\ item(c)' = i /\ contents' = contents /\ xItemValue' = xItemValue
      /\ pxNext' = pxNext /\ pxPrevious' = pxPrevious
      /\ NodesOf(l)' = NodesOf(l)
      /\ call'[c].at \in Inserting /\ call'[c].at \in {"walk", "setNext"}
  BY <1>1, <1>6 DEF list, item, Inserting, links, NodesOf
<1>8. InsertOK(c)'
  <2>1. CASE Passes(i, n)
    <3>1. p < Len(s)
      BY <1>3, <1>4, <1>5, <2>1 DEF Passes
    <3>2. call'[c].at = "walk" /\ node(c)' = pxNext[n] /\ PlaceOf(c)' = p + 1
      BY <1>4, <1>6, <1>7, <2>1, <3>1 DEF node, PlaceOf
    <3>3. \A k \in 1..(p + 1) : xItemValue[s[k]] <= xItemValue[i]
      BY <1>3, <1>4, <2>1, <3>1 DEF Passes
    <3> QED BY <1>3, <1>5, <1>7, <3>2, <3>3 DEF InsertOK
  <2>2. CASE ~Passes(i, n)
    <3>1. call'[c].at = "setNext" /\ node(c)' = n /\ PlaceOf(c)' = p
      BY <1>6, <1>7, <2>2 DEF node, PlaceOf
    <3>2. p < Len(s) => xItemValue[s[p + 1]] > xItemValue[i]
      BY <1>4, <1>5, <2>2 DEF Passes
    <3> QED BY <1>3, <1>7, <3>1, <3>2 DEF InsertOK
  <2> QED BY <2>1, <2>2
<1>9. CallOK(c)'
  <2> USE <1>7
  <2>1. ItemOK(c)'
    BY <1>1, <1>3 DEF ItemOK, Linking, Inserting, Appending, Leaving, Finishing,
         Unlinking, Free
  <2>2. HeadOK(c)'
    BY <1>1, <1>3 DEF HeadOK, Open, PointsBack, Linking, Inserting,
         Appending, Unlinking, Finishing, Leaving, heads
  <2>3. AppendOK(c)' /\ RemoveOK(c)'
    BY DEF AppendOK, RemoveOK, Appending
  <2>4. call'[c].at \in Statements
    BY DEF Statements
  <2> QED BY <1>2, <1>8, <2>1, <2>2, <2>3, <2>4 DEF CallOK
<1>10. TypeOK'
  BY <1>1, <1>6 DEF IInv, TypeOK, links, heads
<1>11. call'[c] # NoCall
  BY <1>7 DEF NoCall, CallAt, Inserting
<1> QED BY <1>1, <1>6, <1>9, <1>10, <1>11, LocalStep DEF heads

LEMMA SetContainerStep ==
  ASSUME IInv, NEW c \in Callers, SetContainer(c)
  PROVE  IInv' /\ KeepsOthers(list(c))
<1> DEFINE l == list(c)
           i == item(c)
<1>1. call[c].at = "setContainer" /\ GoTo(c, "countUp") /\ "countUp" \in Statements
  BY DEF SetContainer, At, Statements
<1>2. ~Idle(c) /\ CallOK(c) /\ l \in Lists /\ i \in ListItems /\ i \in Nodes
  BY <1>1, CallFacts
<1>3. ItemOK(c) /\ HeadOK(c) /\ RemoveOK(c) /\ NULL \notin NodesOf(l)
  BY <1>2, ListFacts DEF CallOK
<1>4. /\ pxContainer' = [pxContainer EXCEPT ![i] = l]
      /\ UNCHANGED <<links, xItemValue, heads, contents>>
  BY DEF SetContainer
<1>5. /\ call'[c].at = "countUp" /\ call'[c].list = l /\ call'[c].item = i
      /\ list(c)' = l /\ item(c)' = i /\ NodesOf(l)' = NodesOf(l)
      /\ pxNext' = pxNext /\ pxPrevious' = pxPrevious
  BY <1>1, <1>4, GoToCall DEF NodesOf, list, item, links
<1>6. /\ pxContainer' \in [ListItems -> Lists \union {NULL}] /\ pxContainer'[i] = l
      /\ \A j \in ListItems : j # i => pxContainer'[j] = pxContainer[j]
  BY <1>1, <1>2, <1>3, <1>4 DEF IInv, TypeOK
<1>7. TypeOK'
  BY <1>1, <1>4, <1>6, GoToCall DEF IInv, TypeOK, links, heads
<1>8. CallOK(c)'
  <2> USE <1>4, <1>5, <1>6
  <2>1. ItemOK(c)'
    BY <1>1, <1>2, <1>3 DEF ItemOK, Linking, Inserting, Appending, Leaving, Finishing,
         Unlinking, Free
  <2>2. HeadOK(c)'
    BY <1>1, <1>3 DEF HeadOK, Open, PointsBack, Linking, Inserting,
         Appending, Unlinking, Finishing, Leaving, heads
  <2>3. InsertOK(c)' /\ AppendOK(c)' /\ RemoveOK(c)'
    BY DEF InsertOK, AppendOK, RemoveOK, Inserting, Appending
  <2> QED BY <1>1, <1>2, <2>1, <2>2, <2>3 DEF CallOK
<1> QED BY <1>1, <1>4, <1>5, <1>6, <1>7, <1>8, GoToCall, LocalStep DEF heads

LEMMA MoveIndexStep ==
  ASSUME IInv, NEW c \in Callers, MoveIndex(c)
  PROVE  IInv' /\ KeepsOthers(list(c))
<1> DEFINE l == list(c)
           i == item(c)
<1>1. call[c].at = "moveIndex" /\ GoTo(c, "clearContainer") /\ "clearContainer" \in Statements
  BY DEF MoveIndex, At, Statements
<1>2. ~Idle(c) /\ CallOK(c) /\ l \in Lists /\ i \in ListItems /\ i \in Nodes
  BY <1>1, CallFacts
<1>3. ItemOK(c) /\ HeadOK(c) /\ RemoveOK(c) /\ NULL \notin NodesOf(l)
  BY <1>2, ListFacts DEF CallOK
<1>4. /\ pxIndex' = [pxIndex EXCEPT ![l] = IndexWithout(l, i)]
      /\ UNCHANGED <<links, xItemValue, pxContainer, uxNumberOfItems, contents>>
  BY DEF MoveIndex
<1>5. /\ call'[c].at = "clearContainer" /\ call'[c].list = l /\ call'[c].item = i
      /\ list(c)' = l /\ item(c)' = i /\ NodesOf(l)' = NodesOf(l)
      /\ pxNext' = pxNext /\ pxPrevious' = pxPrevious
  BY <1>1, <1>4, GoToCall DEF NodesOf, list, item, links
<1>6. /\ pxIndex' \in [Lists -> Nodes] /\ pxIndex'[l] \in NodesOf(l)
      /\ \A m \in Lists : m # l => pxIndex'[m] = pxIndex[m]
  <2>1. IndexWithout(l, i) \in NodesOf(l)
    BY <1>1, <1>3 DEF IndexWithout, HeadOK, RemoveOK
  <2>2. NodesOf(l) \subseteq Nodes
    BY <1>2, ListFacts
  <2> QED BY <1>2, <1>4, <2>1, <2>2 DEF IInv, TypeOK
<1>7. TypeOK'
  BY <1>1, <1>4, <1>6, GoToCall DEF IInv, TypeOK, links, heads
<1>8. CallOK(c)'
  <2> USE <1>4, <1>5, <1>6
  <2>1. ItemOK(c)'
    BY <1>1, <1>2, <1>3 DEF ItemOK, Linking, Inserting, Appending, Leaving, Finishing,
         Unlinking, Free
  <2>2. HeadOK(c)'
    BY <1>1, <1>3 DEF HeadOK, Open, PointsBack, Linking, Inserting,
         Appending, Unlinking, Finishing, Leaving, heads
  <2>3. InsertOK(c)' /\ AppendOK(c)' /\ RemoveOK(c)'
    BY DEF InsertOK, AppendOK, RemoveOK, Inserting, Appending
  <2> QED BY <1>1, <1>2, <2>1, <2>2, <2>3 DEF CallOK
<1> QED BY <1>1, <1>4, <1>5, <1>6, <1>7, <1>8, GoToCall, LocalStep DEF heads

LEMMA ClearContainerStep ==
  ASSUME IInv, NEW c \in Callers, ClearContainer(c)
  PROVE  IInv' /\ KeepsOthers(list(c))
<1> DEFINE l == list(c)
           i == item(c)
<1>1. call[c].at = "clearContainer" /\ GoTo(c, "countDown") /\ "countDown" \in Statements
  BY DEF ClearContainer, At, Statements
<1>2. ~Idle(c) /\ CallOK(c) /\ l \in Lists /\ i \in ListItems /\ i \in Nodes
  BY <1>1, CallFacts
<1>3. ItemOK(c) /\ HeadOK(c) /\ RemoveOK(c) /\ NULL \notin NodesOf(l)
  BY <1>2, ListFacts DEF CallOK
<1>4. /\ pxContainer' = [pxContainer EXCEPT ![i] = NULL]
      /\ UNCHANGED <<links, xItemValue, heads, contents>>
  BY DEF ClearContainer
<1>5. /\ call'[c].at = "countDown" /\ call'[c].list = l /\ call'[c].item = i
      /\ list(c)' = l /\ item(c)' = i /\ NodesOf(l)' = NodesOf(l)
      /\ pxNext' = pxNext /\ pxPrevious' = pxPrevious
  BY <1>1, <1>4, GoToCall DEF NodesOf, list, item, links
<1>6. /\ pxContainer' \in [ListItems -> Lists \union {NULL}] /\ pxContainer'[i] = NULL
      /\ \A j \in ListItems : j # i => pxContainer'[j] = pxContainer[j]
  BY <1>1, <1>2, <1>3, <1>4 DEF IInv, TypeOK
<1>7. TypeOK'
  BY <1>1, <1>4, <1>6, GoToCall DEF IInv, TypeOK, links, heads
<1>8. CallOK(c)'
  <2> USE <1>4, <1>5, <1>6
  <2>1. ItemOK(c)'
    BY <1>1, <1>2, <1>3 DEF ItemOK, Linking, Inserting, Appending, Leaving, Finishing,
         Unlinking, Free
  <2>2. HeadOK(c)'
    BY <1>1, <1>3 DEF HeadOK, Open, PointsBack, Linking, Inserting,
         Appending, Unlinking, Finishing, Leaving, heads
  <2>3. InsertOK(c)' /\ AppendOK(c)' /\ RemoveOK(c)'
    BY DEF InsertOK, AppendOK, RemoveOK, Inserting, Appending
  <2> QED BY <1>1, <1>2, <2>1, <2>2, <2>3 DEF CallOK
<1> QED BY <1>1, <1>4, <1>5, <1>6, <1>7, <1>8, GoToCall, LocalStep DEF heads

LEMMA ReturnFromCall ==
  ASSUME IInv, NEW c \in Callers, Return(c)
  PROVE  /\ call'[c] = NoCall
         /\ call' \in [Callers -> [at : Statements \union {"returned"},
                                   list : Lists \union {NULL},
                                   item : ListItems \union {NULL},
                                   node : Nodes \union {NULL}]]
         /\ \A d \in Callers : d # c => call'[d] = call[d]
BY DEF Return, NoCall, CallAt, IInv, TypeOK

LEMMA CountUpStep ==
  ASSUME IInv, NEW c \in Callers, CountUp(c)
  PROVE  IInv' /\ KeepsOthers(list(c))
<1> DEFINE l == list(c)
           i == item(c)
<1>1. call[c].at = "countUp" /\ Return(c)
  BY DEF CountUp, At
<1>2. ~Idle(c) /\ CallOK(c) /\ l \in Lists /\ i \in ListItems /\ i \in Nodes
  BY <1>1, CallFacts
<1>3. ItemOK(c) /\ HeadOK(c) /\ NULL \notin NodesOf(l)
  BY <1>2, ListFacts DEF CallOK
<1>4. /\ uxNumberOfItems' = [uxNumberOfItems EXCEPT ![l] = @ + 1]
      /\ UNCHANGED <<links, xItemValue, pxContainer, pxIndex, contents>>
  BY DEF CountUp
<1>5. /\ uxNumberOfItems[l] = Len(contents[l]) - 1 /\ Len(contents[l]) \in Nat
      /\ uxNumberOfItems[l] + 1 = Len(contents[l])
  <2>1. Orderly(l, contents[l])
    BY <1>2, ListFacts
  <2> QED BY <1>1, <1>3, <2>1, LenProperties DEF HeadOK, Finishing, Leaving, Orderly
<1>6. /\ uxNumberOfItems' \in [Lists -> Nat] /\ uxNumberOfItems'[l] = Len(contents[l])
      /\ \A m \in Lists : m # l => uxNumberOfItems'[m] = uxNumberOfItems[m]
  BY <1>2, <1>4, <1>5 DEF IInv, TypeOK
<1>7. TypeOK'
  BY <1>1, <1>4, <1>6, ReturnFromCall DEF IInv, TypeOK, links
<1>8. ASSUME NEW k \in Lists, k = l
      PROVE  QuietList(k)'
  BY <1>1, <1>3, <1>4, <1>6, <1>8 DEF QuietList, HeadOK, Open, PointsBack, NodesOf, links
<1>9. ASSUME NEW j \in ListItems, j = i
      PROVE  QuietItem(j)'
  <2>1. j \in Items(contents[l]) /\ pxContainer[j] = l
    BY <1>1, <1>3, <1>9 DEF ItemOK, Unlinking, Leaving, Finishing
  <2>2. \A m \in Lists : m # l => j \notin Items(contents[m])
    BY <1>2, <2>1 DEF IInv, Disjoint
  <2> QED BY <1>2, <1>4, <2>1, <2>2 DEF QuietItem
<1> QED BY <1>1, <1>4, <1>6, <1>7, <1>8, <1>9, ReturnFromCall, LocalStep

LEMMA CountDownStep ==
  ASSUME IInv, NEW c \in Callers, CountDown(c)
  PROVE  IInv' /\ KeepsOthers(list(c))
<1> DEFINE l == list(c)
           i == item(c)
<1>1. call[c].at = "countDown" /\ Return(c)
  BY DEF CountDown, At
<1>2. ~Idle(c) /\ CallOK(c) /\ l \in Lists /\ i \in ListItems /\ i \in Nodes
  BY <1>1, CallFacts
<1>3. ItemOK(c) /\ HeadOK(c) /\ NULL \notin NodesOf(l)
  BY <1>2, ListFacts DEF CallOK
<1>4. /\ uxNumberOfItems' = [uxNumberOfItems EXCEPT ![l] = @ - 1]
      /\ UNCHANGED <<links, xItemValue, pxContainer, pxIndex, contents>>
  BY DEF CountDown
<1>5. /\ uxNumberOfItems[l] = Len(contents[l]) + 1 /\ Len(contents[l]) \in Nat
      /\ uxNumberOfItems[l] - 1 = Len(contents[l])
  <2>1. Orderly(l, contents[l])
    BY <1>2, ListFacts
  <2> QED BY <1>1, <1>3, <2>1, LenProperties DEF HeadOK, Finishing, Leaving, Orderly
<1>6. /\ uxNumberOfItems' \in [Lists -> Nat] /\ uxNumberOfItems'[l] = Len(contents[l])
      /\ \A m \in Lists : m # l => uxNumberOfItems'[m] = uxNumberOfItems[m]
  BY <1>2, <1>4, <1>5 DEF IInv, TypeOK
<1>7. TypeOK'
  BY <1>1, <1>4, <1>6, ReturnFromCall DEF IInv, TypeOK, links
<1>8. ASSUME NEW k \in Lists, k = l
      PROVE  QuietList(k)'
  BY <1>1, <1>3, <1>4, <1>6, <1>8 DEF QuietList, HeadOK, Open, PointsBack, NodesOf, links
<1>9. ASSUME NEW j \in ListItems, j = i
      PROVE  QuietItem(j)'
  <2>1. Free(j) /\ pxContainer[j] = NULL
    BY <1>1, <1>3, <1>9 DEF ItemOK, Linking, Leaving, Finishing
  <2> QED BY <1>4, <2>1, ListsAssumption DEF QuietItem, Free, Nodes
<1> QED BY <1>1, <1>4, <1>6, <1>7, <1>8, <1>9, ReturnFromCall, LocalStep

LEMMA SkipEndStep ==
  ASSUME IInv, NEW c \in Callers, SkipEnd(c)
  PROVE  IInv' /\ KeepsOthers(list(c))
<1> DEFINE l == list(c)
           x == IF pxIndex[l] = l THEN pxNext[l] ELSE pxIndex[l]
<1>1. call[c].at = "skipEnd" /\ Return(c)
  BY DEF SkipEnd, At
<1>2. ~Idle(c) /\ CallOK(c) /\ l \in Lists
  BY <1>1, CallFacts
<1>3. /\ HeadOK(c) /\ item(c) = NULL /\ NULL \notin NodesOf(l) /\ NodesOf(l) \subseteq Nodes
      /\ l \in NodesOf(l) /\ \A n \in NodesOf(l) : pxNext[n] \in NodesOf(l)
  BY <1>1, <1>2, ListFacts DEF CallOK, ItemOK
<1>4. /\ pxIndex' = [pxIndex EXCEPT ![l] = x]
      /\ UNCHANGED <<links, xItemValue, pxContainer, uxNumberOfItems, contents>>
  BY DEF SkipEnd
<1>5. x \in NodesOf(l)
  BY <1>1, <1>3 DEF HeadOK
<1>6. /\ pxIndex' \in [Lists -> Nodes] /\ pxIndex'[l] \in NodesOf(l)
      /\ \A m \in Lists : m # l => pxIndex'[m] = pxIndex[m]
  BY <1>2, <1>3, <1>4, <1>5 DEF IInv, TypeOK
<1>7. TypeOK'
  BY <1>1, <1>4, <1>6, ReturnFromCall DEF IInv, TypeOK, links
<1>8. ASSUME NEW k \in Lists, k = l
      PROVE  QuietList(k)'
  BY <1>1, <1>3, <1>4, <1>6, <1>8
     DEF QuietList, HeadOK, Open, PointsBack, NodesOf, links, Unlinking
<1>9. \A j \in ListItems : j # item(c)
  BY <1>3, ListsAssumption DEF Nodes
<1> QED BY <1>1, <1>4, <1>6, <1>7, <1>8, <1>9, ReturnFromCall, LocalStep

-----------------------------------------------------------------------------
(* Steps that link or unlink.                                               *)

LEMMA ValuesOfItems ==
  ASSUME IInv, NEW s \in Seq(ListItems)
  PROVE  LET value == [j \in ListItems |-> xItemValue[j]]
         IN  /\ value \in [ListItems -> Int]
             /\ Sorted(s, value) <=> Sorted(s, xItemValue)
<1> DEFINE value == [j \in ListItems |-> xItemValue[j]]
<1>1. value \in [ListItems -> Int]
  BY DEF IInv, TypeOK, Nodes
<1>2. \A t \in Items(s) : value[t] = xItemValue[t]
  BY ItemsTyped
<1> HIDE DEF value
<1>3. Sorted(s, value) <=> Sorted(s, xItemValue)
  BY <1>2, SortedByItems
<1> QED BY <1>1, <1>3 DEF value

LEMMA LinkedList ==
  ASSUME IInv, NEW l \in Lists, NEW i \in ListItems, Free(i), NEW n \in NodesOf(l),
         contents'[l] = InsertAt(contents[l], Place(l, contents[l], n) + 1, i),
         contents' = [m \in Lists |-> contents'[m]],
         \A m \in Lists : m # l => contents'[m] = contents[m],
         pxNext'[i] = pxNext[n], pxNext'[n] = i,
         \A m \in NodesOf(l) : m # n => pxNext'[m] = pxNext[m],
         xItemValue' = xItemValue,
         l \in SortedLists =>
           StopsAt(contents[l], xItemValue, xItemValue[i], Place(l, contents[l], n) + 1)
  PROVE  /\ ListOK(l)' /\ NodesOf(l)' = NodesOf(l) \union {i}
         /\ contents' \in [Lists -> Seq(ListItems)]
         /\ \A m \in Lists : m # l => contents'[m] = contents[m]
         /\ Items(contents'[l]) = Items(contents[l]) \union {i}
         /\ Len(contents'[l]) = Len(contents[l]) + 1
<1> DEFINE s == contents[l]
           k == Place(l, s, n) + 1
           t == InsertAt(s, k, i)
           value == [j \in ListItems |-> xItemValue[j]]
<1>1. Orderly(l, s) /\ IsRing(l, s, pxNext) /\ i \notin Items(s) /\ n \in Ring(l, s)
  BY ListFacts DEF Free, NodesOf
<1>2. /\ Orderly(l, t) /\ IsRing(l, t, pxNext') /\ Items(t) = Items(s) \union {i}
      /\ Len(t) = Len(s) + 1 /\ InsertedAt(t, s, k, i)
  BY <1>1, LinkKeepsRing DEF NodesOf
<1>3. s \in Seq(ListItems) /\ t \in Seq(ListItems) /\ k \in 1..(Len(s) + 1)
  <2>1. Place(l, s, n) \in 0..Len(s) /\ Len(s) \in Nat
    BY NextPlace
  <2> QED BY <1>1, <1>2, <2>1 DEF Orderly
<1>4. /\ contents'[l] = t /\ contents' \in [Lists -> Seq(ListItems)]
      /\ \A m \in Lists : m # l => contents'[m] = contents[m]
  BY <1>3 DEF IInv, TypeOK
<1> HIDE DEF k, t
<1>5. l \in SortedLists => Sorted(t, xItemValue)
  <2> SUFFICES ASSUME l \in SortedLists PROVE Sorted(t, xItemValue)
    OBVIOUS
  <2>1. Sorted(s, xItemValue)
    BY DEF IInv, ListOK
  <2>2. value \in [ListItems -> Int] /\ Sorted(s, value)
    BY <1>3, <2>1, ValuesOfItems
  <2>3. StopsAt(s, value, value[i], k)
    <3>1. \A j \in 1..Len(s) : s[j] \in ListItems
      BY <1>3, ElementOfSeq
    <3>2. \A j \in 1..Len(s) : value[s[j]] = xItemValue[s[j]]
      BY <3>1
    <3>3. value[i] = xItemValue[i]
      OBVIOUS
    <3>4. Len(s) \in Nat
      BY <1>3, LenProperties
    <3> HIDE DEF value
    <3>5. StopsAt(s, xItemValue, xItemValue[i], k)
      BY DEF k
    <3> QED BY <1>3, <3>2, <3>3, <3>4, <3>5 DEF StopsAt
  <2>4. Sorted(t, value)
    <3> HIDE DEF value
    <3> QED BY <1>2, <1>3, <2>2, <2>3, InsertAtOrdered
  <2> QED BY <1>3, <2>4, ValuesOfItems
<1>6. ListOK(l)'
  BY <1>2, <1>4, <1>5 DEF ListOK, IInv
<1> QED BY <1>2, <1>4, <1>6 DEF NodesOf, Ring

LEMMA UnlinkedList ==
  ASSUME IInv, NEW l \in Lists, NEW i \in Items(contents[l]), NEW n \in NodesOf(l),
         pxNext[n] = i,
         contents'[l] = Without(contents[l], i),
         contents' = [m \in Lists |-> contents'[m]],
         \A m \in Lists : m # l => contents'[m] = contents[m],
         pxNext'[n] = pxNext[i],
         \A m \in NodesOf(l) : m # n => pxNext'[m] = pxNext[m],
         xItemValue' = xItemValue
  PROVE  /\ ListOK(l)' /\ NodesOf(l)' = NodesOf(l) \ {i} /\ Free(i)'
         /\ contents' \in [Lists -> Seq(ListItems)]
         /\ \A m \in Lists : m # l => contents'[m] = contents[m]
         /\ Items(contents'[l]) = Items(contents[l]) \ {i}
         /\ Len(contents'[l]) = Len(contents[l]) - 1 /\ Len(contents'[l]) \in Nat
<1> DEFINE s == contents[l]
           t == Without(s, i)
<1>1. Orderly(l, s) /\ IsRing(l, s, pxNext) /\ n \in Ring(l, s) /\ i # l
  BY ListFacts, NodesAndPlaces DEF NodesOf
<1>2. /\ Orderly(l, t) /\ IsRing(l, t, pxNext') /\ Items(t) = Items(s) \ {i}
      /\ Len(t) = Len(s) - 1
      /\ \A value \in [ListItems -> Int] : Sorted(s, value) => Sorted(t, value)
  BY <1>1, UnlinkKeepsRing DEF NodesOf
<1>3. s \in Seq(ListItems) /\ t \in Seq(ListItems) /\ Len(t) \in Nat
  BY <1>1, <1>2, LenProperties DEF Orderly
<1>4. /\ contents'[l] = t /\ contents' \in [Lists -> Seq(ListItems)]
      /\ \A m \in Lists : m # l => contents'[m] = contents[m]
  BY <1>3 DEF IInv, TypeOK
<1> HIDE DEF t
<1>5. l \in SortedLists => Sorted(t, xItemValue)
  <2> SUFFICES ASSUME l \in SortedLists PROVE Sorted(t, xItemValue)
    OBVIOUS
  <2>1. Sorted(s, xItemValue)
    BY DEF IInv, ListOK
  <2> QED BY <1>2, <1>3, <2>1, ValuesOfItems
<1>6. ListOK(l)'
  BY <1>2, <1>4, <1>5 DEF ListOK, IInv
<1>7. Free(i)'
  <2>1. \A m \in Lists : m # l => i \notin Items(contents'[m])
    BY <1>4 DEF IInv, Disjoint
  <2> QED BY <1>2, <1>4, <2>1 DEF Free
<1> QED BY <1>1, <1>2, <1>3, <1>4, <1>6, <1>7 DEF NodesOf, Ring

LEMMA StopsBehind ==
  ASSUME IInv, NEW l \in Lists, NEW n \in NodesOf(l), NEW i \in ListItems,
         LET p == Place(l, contents[l], n)
         IN  /\ \A k \in 1..p : xItemValue[contents[l][k]] <= xItemValue[i]
             /\ p < Len(contents[l]) => xItemValue[contents[l][p + 1]] > xItemValue[i]
  PROVE  StopsAt(contents[l], xItemValue, xItemValue[i], Place(l, contents[l], n) + 1)
<1> DEFINE p == Place(l, contents[l], n)
<1>1. p \in 0..Len(contents[l]) /\ Len(contents[l]) \in Nat
  BY NextPlace
<1>2. p < Len(contents[l]) => xItemValue[contents[l][p + 1]] \in Int
  <2>1. p < Len(contents[l]) => contents[l][p + 1] \in Nodes
    BY NextPlace, ListFacts
  <2> QED BY <2>1 DEF IInv, TypeOK
<1>3. xItemValue[i] \in Int
  BY DEF IInv, TypeOK, Nodes
<1> QED BY <1>1, <1>2, <1>3 DEF StopsAt

LEMMA SetNextOfNodeStep ==
  ASSUME IInv, NEW c \in Callers, SetNextOfNode(c)
  PROVE  IInv' /\ KeepsOthers(list(c))
<1>1. call[c].at = "setNextOfNode" /\ GoTo(c, "setContainer") /\ "setContainer" \in Statements
  BY DEF SetNextOfNode, At, Statements
<1>2. PICK l \in Lists, i \in ListItems, n \in {node(c)}, p \in {node(c)} :
        l = list(c) /\ i = item(c) /\ n = node(c) /\ p = n
  BY <1>1, CallFacts
<1>3. ~Idle(c) /\ CallOK(c) /\ i \in Nodes /\ NULL \notin NodesOf(l)
  BY <1>1, <1>2, CallFacts, ListFacts
<1>4. ItemOK(c) /\ HeadOK(c) /\ InsertOK(c) /\ AppendOK(c) /\ RemoveOK(c)
  BY <1>3 DEF CallOK
<1>5. Free(i) /\ n \in NodesOf(l) /\ l \in SortedLists /\ Open(c) = n
  BY <1>1, <1>2, <1>4 DEF ItemOK, InsertOK, Linking, Inserting, Open
<1>6. p \in NodesOf(l) /\ pxNext[i] = pxNext[p]
  BY <1>1, <1>2, <1>4, <1>5 DEF InsertOK, Inserting
<1>7. /\ pxNext' = [pxNext EXCEPT ![p] = i] 
      /\ contents' = [contents EXCEPT ![l] = InsertAt(@, Place(l, @, p) + 1, i)]
      /\ UNCHANGED <<pxPrevious, xItemValue, pxContainer, heads>>
  BY <1>2 DEF SetNextOfNode, LinkBehind
<1>8. /\ i \notin NodesOf(l) /\ NodesOf(l) \subseteq Nodes
  BY <1>5, ListFacts
<1>9. /\ pxNext'[i] = pxNext[p] /\ pxNext'[p] = i
      /\ \A m \in Nodes : m # p => pxNext'[m] = pxNext[m]
      /\ pxNext' \in [Nodes -> Nodes \union {NULL}]
  BY <1>2, <1>3, <1>5, <1>6, <1>7, <1>8 DEF IInv, TypeOK
<1>10. /\ ListOK(l)' /\ NodesOf(l)' = NodesOf(l) \union {i}
       /\ contents' \in [Lists -> Seq(ListItems)]
       /\ \A m \in Lists : m # l => contents'[m] = contents[m]
       /\ Items(contents'[l]) = Items(contents[l]) \union {i}
       /\ Len(contents'[l]) = Len(contents[l]) + 1
  <2>1. l \in SortedLists =>
          StopsAt(contents[l], xItemValue, xItemValue[i], Place(l, contents[l], p) + 1)
    BY <1>1, <1>2, <1>4, <1>5, StopsBehind DEF InsertOK, Inserting, PlaceOf
  <2>2. /\ pxNext'[i] = pxNext[p] /\ pxNext'[p] = i /\ xItemValue' = xItemValue
        /\ \A m \in NodesOf(l) : m # p => pxNext'[m] = pxNext[m]
        /\ Free(i) /\ p \in NodesOf(l)
    BY <1>5, <1>6, <1>7, <1>8, <1>9
  <2>3. /\ contents'[l] = InsertAt(contents[l], Place(l, contents[l], p) + 1, i)
        /\ contents' = [m \in Lists |-> contents'[m]]
        /\ \A m \in Lists : m # l => contents'[m] = contents[m]
    BY <1>7 DEF IInv, TypeOK
  <2> QED BY <2>1, <2>2, <2>3, LinkedList
<1>11. /\ call'[c].at = "setContainer" /\ call'[c].list = l /\ call'[c].item = i
       /\ list(c)' = l /\ item(c)' = i /\ node(c)' = n
  BY <1>1, <1>2, GoToCall DEF list, item
<1>12. TypeOK'
  BY <1>1, <1>7, <1>9, <1>10, GoToCall DEF IInv, TypeOK, heads
<1>13. StepOn(l, i)
  BY <1>5, <1>6, <1>7, <1>9, <1>10 DEF StepOn, heads
<1>14. CallOK(c)'
  <2> USE <1>7, <1>11
  <2>1. ItemOK(c)'
    BY <1>1, <1>2, <1>4, <1>10 DEF ItemOK, Linking, Inserting, Appending, Leaving, Finishing,
         Unlinking
  <2>2. \A m \in NodesOf(l)' : m # Open(c)' => pxPrevious[pxNext'[m]] = m
    <3>1. pxPrevious[i] = n /\ pxPrevious[pxNext[n]] = i
      BY <1>1, <1>2, <1>4 DEF InsertOK, Inserting
    <3>2. \A m \in NodesOf(l) : m # n => pxPrevious[pxNext[m]] = m
      BY <1>2, <1>4, <1>5 DEF HeadOK, PointsBack
    <3> QED BY <1>2, <1>5, <1>8, <1>9, <1>10, <3>1, <3>2
  <2>3. HeadOK(c)'
    <3>1. /\ Len(contents[l]) \in Nat
          /\ uxNumberOfItems[l] = Len(contents[l]) /\ pxIndex[l] \in NodesOf(l)
      <4>1. Orderly(l, contents[l])
        BY ListFacts
      <4> QED BY <1>1, <1>2, <1>4, <4>1, LenProperties
              DEF HeadOK, Orderly, Linking, Inserting, Appending
    <3> QED BY <1>10, <2>2, <3>1 DEF HeadOK, PointsBack, Linking, Inserting,
          Appending, Unlinking, Finishing, Leaving, heads
  <2>4. InsertOK(c)' /\ RemoveOK(c)'
    BY DEF InsertOK, RemoveOK, Inserting
  <2>5. AppendOK(c)'
    BY DEF AppendOK, Appending
  <2> QED BY <1>1, <2>1, <2>3, <2>4, <2>5 DEF CallOK
<1> QED BY <1>1, <1>2, <1>3, <1>10, <1>11, <1>12, <1>13, <1>14, GoToCall, CallerStep

LEMMA SetNextOfPreviousStep ==
  ASSUME IInv, NEW c \in Callers, SetNextOfPrevious(c)
  PROVE  IInv' /\ KeepsOthers(list(c))
<1>1. call[c].at = "setNextOfPrevious" /\ GoTo(c, "setPreviousOfIndex") /\ "setPreviousOfIndex" \in Statements
  BY DEF SetNextOfPrevious, At, Statements
<1>2. PICK l \in Lists, i \in ListItems, n \in {node(c)}, p \in {pxPrevious[node(c)]} :
        l = list(c) /\ i = item(c) /\ n = node(c) /\ p = pxPrevious[n]
  BY <1>1, CallFacts
<1>3. ~Idle(c) /\ CallOK(c) /\ i \in Nodes /\ NULL \notin NodesOf(l)
  BY <1>1, <1>2, CallFacts, ListFacts
<1>4. ItemOK(c) /\ HeadOK(c) /\ InsertOK(c) /\ AppendOK(c) /\ RemoveOK(c)
  BY <1>3 DEF CallOK
<1>5. Free(i) /\ n \in NodesOf(l) /\ l \notin SortedLists /\ Open(c) = NULL
  BY <1>1, <1>2, <1>4 DEF ItemOK, AppendOK, Linking, Appending, Open
<1>6. p \in NodesOf(l) /\ pxNext[p] = n /\ pxNext[i] = pxNext[p]
  <2>1. PICK m \in NodesOf(l) : pxNext[m] = n
    BY <1>5, ListFacts
  <2>2. p = m
    BY <1>2, <1>3, <1>4, <1>5, <2>1 DEF HeadOK, PointsBack
  <2> QED BY <1>1, <1>2, <1>4, <2>1, <2>2 DEF AppendOK
<1>7. /\ pxNext' = [pxNext EXCEPT ![p] = i] 
      /\ contents' = [contents EXCEPT ![l] = InsertAt(@, Place(l, @, p) + 1, i)]
      /\ UNCHANGED <<pxPrevious, xItemValue, pxContainer, heads>>
  BY <1>2 DEF SetNextOfPrevious, LinkBehind
<1>8. /\ i \notin NodesOf(l) /\ NodesOf(l) \subseteq Nodes
  BY <1>5, ListFacts
<1>9. /\ pxNext'[i] = pxNext[p] /\ pxNext'[p] = i
      /\ \A m \in Nodes : m # p => pxNext'[m] = pxNext[m]
      /\ pxNext' \in [Nodes -> Nodes \union {NULL}]
  BY <1>2, <1>3, <1>5, <1>6, <1>7, <1>8 DEF IInv, TypeOK
<1>10. /\ ListOK(l)' /\ NodesOf(l)' = NodesOf(l) \union {i}
       /\ contents' \in [Lists -> Seq(ListItems)]
       /\ \A m \in Lists : m # l => contents'[m] = contents[m]
       /\ Items(contents'[l]) = Items(contents[l]) \union {i}
       /\ Len(contents'[l]) = Len(contents[l]) + 1
  <2>1. l \in SortedLists =>
          StopsAt(contents[l], xItemValue, xItemValue[i], Place(l, contents[l], p) + 1)
    BY <1>5
  <2>2. /\ pxNext'[i] = pxNext[p] /\ pxNext'[p] = i /\ xItemValue' = xItemValue
        /\ \A m \in NodesOf(l) : m # p => pxNext'[m] = pxNext[m]
        /\ Free(i) /\ p \in NodesOf(l)
    BY <1>5, <1>6, <1>7, <1>8, <1>9
  <2>3. /\ contents'[l] = InsertAt(contents[l], Place(l, contents[l], p) + 1, i)
        /\ contents' = [m \in Lists |-> contents'[m]]
        /\ \A m \in Lists : m # l => contents'[m] = contents[m]
    BY <1>7 DEF IInv, TypeOK
  <2> QED BY <2>1, <2>2, <2>3, LinkedList
<1>11. /\ call'[c].at = "setPreviousOfIndex" /\ call'[c].list = l /\ call'[c].item = i
       /\ list(c)' = l /\ item(c)' = i /\ node(c)' = n
  BY <1>1, <1>2, GoToCall DEF list, item
<1>12. TypeOK'
  BY <1>1, <1>7, <1>9, <1>10, GoToCall DEF IInv, TypeOK, heads
<1>13. StepOn(l, i)
  BY <1>5, <1>6, <1>7, <1>9, <1>10 DEF StepOn, heads
<1>14. CallOK(c)'
  <2> USE <1>7, <1>11
  <2>1. ItemOK(c)'
    BY <1>1, <1>2, <1>4, <1>10 DEF ItemOK, Linking, Inserting, Appending, Leaving, Finishing,
         Unlinking
  <2>2. \A m \in NodesOf(l)' : m # Open(c)' => pxPrevious[pxNext'[m]] = m
    <3>1. pxPrevious[i] = p
      BY <1>1, <1>2, <1>4 DEF AppendOK
    <3>2. \A m \in NodesOf(l) : pxPrevious[pxNext[m]] = m
      BY <1>2, <1>3, <1>4, <1>5 DEF HeadOK, PointsBack
    <3>3. Open(c)' = i
      BY DEF Open
    <3> QED BY <1>8, <1>9, <1>10, <3>1, <3>2, <3>3
  <2>3. HeadOK(c)'
    <3>1. /\ Len(contents[l]) \in Nat
          /\ uxNumberOfItems[l] = Len(contents[l]) /\ pxIndex[l] \in NodesOf(l)
      <4>1. Orderly(l, contents[l])
        BY ListFacts
      <4> QED BY <1>1, <1>2, <1>4, <4>1, LenProperties
              DEF HeadOK, Orderly, Linking, Inserting, Appending
    <3> QED BY <1>10, <2>2, <3>1 DEF HeadOK, PointsBack, Linking, Inserting,
          Appending, Unlinking, Finishing, Leaving, heads
  <2>4. InsertOK(c)' /\ RemoveOK(c)'
    BY DEF InsertOK, RemoveOK, Inserting
  <2>5. AppendOK(c)'
    <3>1. pxNext[i] = n
      BY <1>6
    <3> QED BY <1>5, <1>6, <1>9, <1>10, <3>1 DEF AppendOK, Appending
  <2> QED BY <1>1, <2>1, <2>3, <2>4, <2>5 DEF CallOK
<1> QED BY <1>1, <1>2, <1>3, <1>10, <1>11, <1>12, <1>13, <1>14, GoToCall, CallerStep

LEMMA UnlinkNextStep ==
  ASSUME IInv, NEW c \in Callers, UnlinkNext(c)
  PROVE  IInv' /\ KeepsOthers(list(c))
<1>1. call[c].at = "unlinkNext" /\ GoTo(c, "moveIndex") /\ "moveIndex" \in Statements
  BY DEF UnlinkNext, At, Statements
<1>2. PICK l \in Lists, i \in ListItems, p \in {pxPrevious[item(c)]} :
        l = list(c) /\ i = item(c) /\ p = pxPrevious[i]
  BY <1>1, CallFacts
<1>3. ~Idle(c) /\ CallOK(c) /\ i \in Nodes /\ NULL \notin NodesOf(l)
  BY <1>1, <1>2, CallFacts, ListFacts
<1>4. ItemOK(c) /\ HeadOK(c) /\ InsertOK(c) /\ AppendOK(c) /\ RemoveOK(c)
  BY <1>3 DEF CallOK
<1>5. /\ i \in Items(contents[l]) /\ pxContainer[i] = l /\ Open(c) = i
      /\ p \in NodesOf(l) /\ pxNext[p] = i /\ pxPrevious[pxNext[i]] = p
  BY <1>1, <1>2, <1>4 DEF ItemOK, RemoveOK, Unlinking, Open
<1>6. /\ NodesOf(l) \subseteq Nodes /\ i \in NodesOf(l)
      /\ pxNext[i] # i /\ pxNext[i] \in NodesOf(l)
      /\ Len(contents[l]) \in Nat
  <2>1. Orderly(l, contents[l])
    BY ListFacts
  <2> QED BY <1>5, <2>1, ListFacts, LenProperties DEF Orderly
<1>7. /\ pxNext' = [pxNext EXCEPT ![p] = pxNext[i]]
      /\ contents' = [contents EXCEPT ![l] = Without(@, i)]
      /\ UNCHANGED <<pxPrevious, xItemValue, pxContainer, heads>>
  BY <1>2 DEF UnlinkNext, Unlink
<1>8. /\ pxNext'[p] = pxNext[i] /\ p # i
      /\ \A m \in Nodes : m # p => pxNext'[m] = pxNext[m]
      /\ pxNext' \in [Nodes -> Nodes \union {NULL}]
  BY <1>3, <1>5, <1>6, <1>7 DEF IInv, TypeOK
<1>9. /\ ListOK(l)' /\ NodesOf(l)' = NodesOf(l) \ {i} /\ Free(i)'
      /\ contents' \in [Lists -> Seq(ListItems)]
      /\ \A m \in Lists : m # l => contents'[m] = contents[m]
      /\ Items(contents'[l]) = Items(contents[l]) \ {i}
      /\ Len(contents'[l]) = Len(contents[l]) - 1
  <2>1. /\ pxNext'[p] = pxNext[i] /\ xItemValue' = xItemValue
        /\ \A m \in NodesOf(l) : m # p => pxNext'[m] = pxNext[m]
    BY <1>6, <1>7, <1>8
  <2>2. /\ contents'[l] = Without(contents[l], i)
        /\ contents' = [m \in Lists |-> contents'[m]]
        /\ \A m \in Lists : m # l => contents'[m] = contents[m]
    BY <1>7 DEF IInv, TypeOK
  <2> QED BY <1>5, <2>1, <2>2, UnlinkedList
<1>10. /\ call'[c].at = "moveIndex" /\ call'[c].list = l /\ call'[c].item = i
       /\ list(c)' = l /\ item(c)' = i
  BY <1>1, <1>2, GoToCall DEF list, item
<1>11. TypeOK'
  BY <1>1, <1>7, <1>8, <1>9, GoToCall DEF IInv, TypeOK, heads
<1>12. StepOn(l, i)
  BY <1>5, <1>6, <1>7, <1>8, <1>9 DEF StepOn, heads
<1>13. CallOK(c)'
  <2> USE <1>7, <1>10
  <2>1. ItemOK(c)'
    BY <1>2, <1>5, <1>9 DEF ItemOK, Free, Linking, Inserting, Appending, Leaving, Finishing,
         Unlinking
  <2>2. \A m \in NodesOf(l)' : pxPrevious[pxNext'[m]] = m
    <3>1. \A m \in NodesOf(l) : m # i => pxPrevious[pxNext[m]] = m
      BY <1>2, <1>4, <1>5 DEF HeadOK, PointsBack
    <3> QED BY <1>5, <1>6, <1>8, <1>9, <3>1
  <2>3. HeadOK(c)'
    <3>1. uxNumberOfItems[l] = Len(contents[l]) /\ pxIndex[l] \in NodesOf(l)
      BY <1>1, <1>2, <1>4 DEF HeadOK, Unlinking
    <3> QED BY <1>6, <1>9, <2>2, <3>1 DEF HeadOK, PointsBack, Linking, Inserting,
          Appending, Unlinking, Finishing, Leaving, heads
  <2>4. InsertOK(c)' /\ AppendOK(c)'
    BY DEF InsertOK, AppendOK, Inserting, Appending
  <2>5. RemoveOK(c)'
    BY <1>2, <1>5, <1>8, <1>9 DEF RemoveOK
  <2> QED BY <1>1, <2>1, <2>3, <2>4, <2>5 DEF CallOK
<1> QED BY <1>1, <1>2, <1>3, <1>9, <1>10, <1>11, <1>12, <1>13, GoToCall, CallerStep

-----------------------------------------------------------------------------
(* Whole calls.                                                             *)

LEMMA WholeInsertEndStep ==
  ASSUME IInv, NEW l \in Lists \ SortedLists, NEW i \in ListItems, listINSERT_END(l, i)
  PROVE  IInv' /\ KeepsOthers(l)
<1>1. PICK behind, before : behind = pxIndex[l] /\ before = pxPrevious[behind]
  OBVIOUS
<1>2. /\ ~InUse(l) /\ ~InUse(i) /\ ~Linked(i)
      /\ pxNext' = [pxNext EXCEPT ![i] = behind, ![before] = i]
      /\ pxPrevious' = [pxPrevious EXCEPT ![i] = before, ![behind] = i]
      /\ pxContainer' = [pxContainer EXCEPT ![i] = l]
      /\ uxNumberOfItems' = [uxNumberOfItems EXCEPT ![l] = @ + 1]
      /\ contents' = [contents EXCEPT ![l] = InsertAt(@, Place(l, @, before) + 1, i)]
      /\ UNCHANGED <<xItemValue, pxIndex, call>>
  BY <1>1 DEF listINSERT_END, LinkBehind
<1>3. Free(i) /\ pxContainer[i] = NULL /\ QuietList(l)
  BY <1>2, UnlinkedIsFree DEF IInv
<1>4. /\ behind \in NodesOf(l) /\ before \in NodesOf(l) /\ pxNext[before] = behind
      /\ NodesOf(l) \subseteq Nodes /\ i \notin NodesOf(l) /\ i \in Nodes
      /\ \A m \in NodesOf(l) : m # before => pxNext[m] # behind
  <2>1. behind \in NodesOf(l)
    BY <1>1, <1>3 DEF QuietList
  <2>2. PICK m \in NodesOf(l) : pxNext[m] = behind
    BY <2>1, ListFacts
  <2>3. before = m
    BY <1>1, <1>3, <2>2 DEF QuietList, PointsBack
  <2> QED BY <1>3, <2>1, <2>2, <2>3, ListFacts DEF Nodes
<1>5. /\ pxNext'[i] = behind /\ pxNext'[before] = i
      /\ \A m \in Nodes : m \notin {i, before} => pxNext'[m] = pxNext[m]
      /\ pxPrevious'[i] = before /\ pxPrevious'[behind] = i
      /\ \A m \in Nodes : m \notin {i, behind} => pxPrevious'[m] = pxPrevious[m]
      /\ pxNext' \in [Nodes -> Nodes \union {NULL}]
      /\ pxPrevious' \in [Nodes -> Nodes \union {NULL}]
  BY <1>2, <1>4 DEF IInv, TypeOK
<1>6. /\ ListOK(l)' /\ NodesOf(l)' = NodesOf(l) \union {i}
      /\ contents' \in [Lists -> Seq(ListItems)]
      /\ \A m \in Lists : m # l => contents'[m] = contents[m]
      /\ Items(contents'[l]) = Items(contents[l]) \union {i}
      /\ Len(contents'[l]) = Len(contents[l]) + 1
  <2>1. /\ pxNext'[i] = pxNext[before] /\ pxNext'[before] = i /\ xItemValue' = xItemValue
        /\ \A m \in NodesOf(l) : m # before => pxNext'[m] = pxNext[m]
    BY <1>2, <1>4, <1>5
  <2>2. /\ contents'[l] = InsertAt(contents[l], Place(l, contents[l], before) + 1, i)
        /\ contents' = [m \in Lists |-> contents'[m]]
        /\ \A m \in Lists : m # l => contents'[m] = contents[m]
    BY <1>2 DEF IInv, TypeOK
  <2> QED BY <1>3, <1>4, <2>1, <2>2, LinkedList
<1>7. /\ pxContainer' \in [ListItems -> Lists \union {NULL}] /\ pxContainer'[i] = l
      /\ \A j \in ListItems : j # i => pxContainer'[j] = pxContainer[j]
  BY <1>2 DEF IInv, TypeOK
<1>8. /\ uxNumberOfItems' \in [Lists -> Nat] /\ uxNumberOfItems'[l] = Len(contents'[l])
      /\ \A m \in Lists : m # l => uxNumberOfItems'[m] = uxNumberOfItems[m]
  BY <1>2, <1>3, <1>6 DEF IInv, TypeOK, QuietList
<1>9. TypeOK'
  BY <1>2, <1>5, <1>6, <1>7, <1>8 DEF IInv, TypeOK
<1>10. StepOn(l, i)
  BY <1>2, <1>3, <1>4, <1>5, <1>6, <1>7, <1>8 DEF StepOn
<1>11. QuietList(l)'
  <2>1. \A m \in NodesOf(l)' : pxPrevious'[pxNext'[m]] = m
    <3> SUFFICES ASSUME NEW m \in NodesOf(l) \union {i}
                 PROVE  pxPrevious'[pxNext'[m]] = m
      BY <1>6
    <3>1. CASE m \in {i, before}
      BY <1>5, <3>1
    <3>2. CASE m \notin {i, before}
      <4>1. pxNext'[m] = pxNext[m] /\ pxNext[m] # behind /\ pxPrevious[pxNext[m]] = m
        BY <1>3, <1>4, <1>5, <3>2 DEF QuietList, PointsBack
      <4>2. pxNext[m] \in NodesOf(l)
        BY <3>2, ListFacts
      <4> QED BY <1>4, <1>5, <4>1, <4>2
    <3> QED BY <3>1, <3>2
  <2> QED BY <1>2, <1>3, <1>6, <1>8, <2>1 DEF QuietList, PointsBack
<1>12. QuietItem(i)'
  <2>1. \A m \in Lists : m # l => i \notin Items(contents'[m])
    BY <1>3, <1>6 DEF Free
  <2> QED BY <1>6, <1>7, <2>1 DEF QuietItem
<1> QED BY <1>2, <1>6, <1>9, <1>10, <1>11, <1>12, WholeStep

LEMMA WholeRemoveStep ==
  ASSUME IInv, NEW i \in ListItems, listREMOVE_ITEM(i)
  PROVE  IInv' /\ KeepsOthers(pxContainer[i])
<1>1. PICK l, p : l = pxContainer[i] /\ p = pxPrevious[i]
  OBVIOUS
<1>2. /\ ~InUse(i) /\ ~InUse(l) /\ l \in Lists
      /\ pxPrevious' = [pxPrevious EXCEPT ![pxNext[i]] = p]
      /\ pxNext' = [pxNext EXCEPT ![p] = pxNext[i]]
      /\ pxIndex' = [pxIndex EXCEPT ![l] = IndexWithout(l, i)]
      /\ pxContainer' = [pxContainer EXCEPT ![i] = NULL]
      /\ uxNumberOfItems' = [uxNumberOfItems EXCEPT ![l] = @ - 1]
      /\ contents' = [contents EXCEPT ![l] = Without(@, i)]
      /\ UNCHANGED <<xItemValue, call>>
  BY <1>1 DEF listREMOVE_ITEM, Unlink, Linked, IInv, TypeOK
<1>3. i \in Items(contents[l]) /\ QuietList(l)
  BY <1>1, <1>2 DEF IInv, QuietItem
<1>4. /\ p \in NodesOf(l) /\ pxNext[p] = i /\ p # i
      /\ NodesOf(l) \subseteq Nodes /\ i \in NodesOf(l) /\ i \in Nodes
      /\ pxNext[i] \in NodesOf(l)
      /\ \A m \in NodesOf(l) : m # i => pxNext[m] # pxNext[i]
      /\ Len(contents[l]) \in Nat
  <2>1. i \in NodesOf(l) /\ Orderly(l, contents[l]) /\ pxNext[i] # i
    BY <1>2, <1>3, ListFacts
  <2>2. PICK m \in NodesOf(l) : pxNext[m] = i
    BY <1>2, <2>1, ListFacts
  <2>3. p = m
    BY <1>1, <1>3, <2>2 DEF QuietList, PointsBack
  <2> QED BY <1>2, <2>1, <2>2, <2>3, ListFacts, LenProperties DEF Nodes, Orderly
<1>5. /\ pxNext'[p] = pxNext[i] /\ pxPrevious'[pxNext[i]] = p
      /\ \A m \in Nodes : m # p => pxNext'[m] = pxNext[m]
      /\ \A m \in Nodes : m # pxNext[i] => pxPrevious'[m] = pxPrevious[m]
      /\ pxNext' \in [Nodes -> Nodes \union {NULL}]
      /\ pxPrevious' \in [Nodes -> Nodes \union {NULL}]
  BY <1>2, <1>4 DEF IInv, TypeOK
<1>6. /\ ListOK(l)' /\ NodesOf(l)' = NodesOf(l) \ {i} /\ Free(i)'
      /\ contents' \in [Lists -> Seq(ListItems)]
      /\ \A m \in Lists : m # l => contents'[m] = contents[m]
      /\ Items(contents'[l]) = Items(contents[l]) \ {i}
      /\ Len(contents'[l]) = Len(contents[l]) - 1 /\ Len(contents'[l]) \in Nat
  <2>1. /\ xItemValue' = xItemValue /\ pxNext'[p] = pxNext[i] /\ pxNext[p] = i
        /\ \A m \in NodesOf(l) : m # p => pxNext'[m] = pxNext[m]
        /\ l \in Lists /\ i \in Items(contents[l]) /\ p \in NodesOf(l)
    BY <1>2, <1>3, <1>4, <1>5
  <2>2. /\ contents'[l] = Without(contents[l], i)
        /\ contents' = [m \in Lists |-> contents'[m]]
        /\ \A m \in Lists : m # l => contents'[m] = contents[m]
    BY <1>2 DEF IInv, TypeOK
  <2> QED BY <2>1, <2>2, UnlinkedList
<1>7. /\ pxContainer' \in [ListItems -> Lists \union {NULL}] /\ pxContainer'[i] = NULL
      /\ \A j \in ListItems : j # i => pxContainer'[j] = pxContainer[j]
  BY <1>2 DEF IInv, TypeOK
<1>8. /\ uxNumberOfItems' \in [Lists -> Nat] /\ uxNumberOfItems'[l] = Len(contents'[l])
      /\ \A m \in Lists : m # l => uxNumberOfItems'[m] = uxNumberOfItems[m]
  BY <1>2, <1>3, <1>6 DEF IInv, TypeOK, QuietList
<1>9. /\ pxIndex' \in [Lists -> Nodes] /\ pxIndex'[l] \in NodesOf(l) \ {i}
      /\ \A m \in Lists : m # l => pxIndex'[m] = pxIndex[m]
  <2>1. IndexWithout(l, i) \in NodesOf(l) \ {i}
    BY <1>1, <1>3, <1>4 DEF IndexWithout, QuietList
  <2> QED BY <1>2, <1>4, <2>1 DEF IInv, TypeOK
<1>10. TypeOK'
  BY <1>2, <1>5, <1>6, <1>7, <1>8, <1>9 DEF IInv, TypeOK
<1>11. StepOn(l, i)
  BY <1>2, <1>3, <1>4, <1>5, <1>6, <1>7, <1>8, <1>9 DEF StepOn
<1>12. QuietList(l)'
  <2>1. \A m \in NodesOf(l)' : pxPrevious'[pxNext'[m]] = m
    <3> SUFFICES ASSUME NEW m \in NodesOf(l) \ {i}
                 PROVE  pxPrevious'[pxNext'[m]] = m
      BY <1>6
    <3>1. CASE m = p
      BY <1>5, <3>1
    <3>2. CASE m # p
      <4>1. pxNext'[m] = pxNext[m] /\ pxNext[m] # pxNext[i] /\ pxPrevious[pxNext[m]] = m
        BY <1>3, <1>4, <1>5, <3>2 DEF QuietList, PointsBack
      <4>2. pxNext[m] \in NodesOf(l)
        BY <1>2, ListFacts
      <4> QED BY <1>4, <1>5, <4>1, <4>2
    <3> QED BY <3>1, <3>2
  <2> QED BY <1>6, <1>8, <1>9, <2>1 DEF QuietList, PointsBack
<1>13. QuietItem(i)'
  BY <1>6, <1>7, ListsAssumption DEF QuietItem, Free, Nodes
<1> QED BY <1>1, <1>2, <1>6, <1>10, <1>11, <1>12, <1>13, WholeStep

LEMMA SetValueStep ==
  ASSUME IInv, NEW i \in ListItems, NEW v \in Values, listSET_LIST_ITEM_VALUE(i, v)
  PROVE  IInv'
<1>1. /\ ~InUse(i) /\ pxContainer[i] \notin SortedLists
      /\ xItemValue' = [xItemValue EXCEPT ![i] = v]
      /\ UNCHANGED <<links, pxContainer, heads, call, contents>>
  BY DEF listSET_LIST_ITEM_VALUE
<1>2. /\ xItemValue' \in [Nodes -> 0..portMAX_DELAY]
      /\ \A n \in Nodes : n # i => xItemValue'[n] = xItemValue[n]
  BY <1>1, ListsAssumption DEF IInv, TypeOK
<1>3. \A l \in SortedLists : l \in Lists /\ i \notin Items(contents[l])
  BY <1>1, ListsAssumption DEF IInv, QuietItem
<1>4. TypeOK'
  BY <1>1, <1>2 DEF IInv, TypeOK, links, heads
<1>5. ASSUME NEW l \in Lists
      PROVE  ListOK(l)' /\ (QuietList(l) => QuietList(l)') /\ NodesOf(l)' = NodesOf(l)
  <2>1. ListOK(l) /\ Items(contents[l]) \subseteq Nodes /\ l \in Nodes /\ l # i
    BY ListFacts, ListsAssumption DEF IInv, Nodes
  <2>2. l \in SortedLists => Sorted(contents[l], xItemValue')
    <3> SUFFICES ASSUME l \in SortedLists PROVE Sorted(contents[l], xItemValue')
      OBVIOUS
    <3>1. \A t \in Items(contents[l]) : xItemValue[t] = xItemValue'[t]
      BY <1>2, <1>3, <2>1
    <3> QED BY <2>1, <3>1, SortedByItems DEF ListOK
  <2> QED BY <1>1, <1>2, <2>1, <2>2 DEF ListOK, QuietList, PointsBack, NodesOf, links, heads
<1>6. ASSUME NEW c \in Callers, ~Idle(c)
      PROVE  CallOK(c)'
  <2>1. PICK l \in Lists, j \in {item(c)} : l = list(c) /\ j = item(c)
    BY <1>6 DEF IInv, CallOK
  <2>2. ItemOK(c) /\ HeadOK(c) /\ InsertOK(c) /\ AppendOK(c) /\ RemoveOK(c)
        /\ call[c].at \in Statements
    BY <1>6 DEF IInv, CallOK
  <2>3. list(c)' = l /\ item(c)' = j /\ node(c)' = node(c) /\ call' = call
    BY <1>1, <2>1 DEF list, item, node
  <2>4. j # i
    <3>1. i # NULL
      BY ListsAssumption DEF Nodes
    <3> QED BY <1>1, <2>1, <3>1 DEF InUse, item
  <2>5. ItemOK(c)' /\ AppendOK(c)' /\ RemoveOK(c)'
    BY <1>1, <1>5, <2>1, <2>2, <2>3
       DEF ItemOK, AppendOK, RemoveOK, Free, links, heads
  <2>6. HeadOK(c)'
    <3>1. Open(c)' = Open(c)
      BY <2>3, <2>1 DEF Open
    <3> QED BY <1>1, <1>5, <2>1, <2>2, <2>3, <3>1 DEF HeadOK, PointsBack, links, heads
  <2>7. InsertOK(c)'
    <3> SUFFICES ASSUME call[c].at \in Inserting PROVE InsertOK(c)'
      BY <2>3 DEF InsertOK
    <3>1. j \in ListItems /\ j \in Nodes /\ l \in SortedLists
      BY <2>1, <2>2 DEF ItemOK, InsertOK, Inserting, Nodes
    <3>2. xItemValue'[j] = xItemValue[j]
      BY <1>2, <2>4, <3>1
    <3>3. PlaceOf(c)' = PlaceOf(c) /\ contents'[l] = contents[l]
      BY <1>1, <2>1, <2>3 DEF PlaceOf
    <3>4. \A k \in 1..Len(contents[l]) : xItemValue'[contents[l][k]] = xItemValue[contents[l][k]]
      <4>1. \A k \in 1..Len(contents[l]) :
              contents[l][k] \in Items(contents[l]) /\ contents[l][k] \in Nodes
        <5>1. Items(contents[l]) \subseteq Nodes
          BY ListFacts
        <5> QED BY <5>1 DEF Items
      <4> QED BY <1>2, <1>3, <3>1, <4>1
    <3>5. node(c) \in NodesOf(l) /\ PlaceOf(c) \in 0..Len(contents[l]) /\ Len(contents[l]) \in Nat
      <4>1. node(c) \in NodesOf(l)
        BY <2>1, <2>2 DEF InsertOK
      <4> QED BY <2>1, <4>1, NextPlace DEF PlaceOf
    <3> DEFINE q == PlaceOf(c)
    <3>6. /\ \A k \in 1..q : xItemValue'[contents[l][k]] = xItemValue[contents[l][k]]
          /\ q < Len(contents[l]) =>
               xItemValue'[contents[l][q + 1]] = xItemValue[contents[l][q + 1]]
      BY <3>4, <3>5
    <3> HIDE DEF q
    <3>7. PlaceOf(c)' = q /\ PlaceOf(c) = q
      BY <3>3 DEF q
    <3> QED BY <1>1, <1>5, <2>1, <2>2, <2>3, <3>2, <3>3, <3>6, <3>7 DEF InsertOK, links
  <2> QED BY <2>1, <2>2, <2>3, <2>5, <2>6, <2>7 DEF CallOK
<1>7. Disjoint' /\ Apart' /\ \A n : InUse(n)' <=> InUse(n)
  BY <1>1 DEF IInv, Disjoint, Apart, Idle, list, item, InUse
<1>8. \A j \in ListItems : QuietItem(j)' <=> QuietItem(j)
  BY <1>1 DEF QuietItem
<1> QED BY <1>1, <1>4, <1>5, <1>6, <1>7, <1>8 DEF IInv, Idle

LEMMA InitInv == Init => IInv
<1> SUFFICES ASSUME Init PROVE IInv
  OBVIOUS
<1> USE ListsAssumption DEF Init, Nodes
<1>1. PICK value \in [ListItems -> Values] :
        xItemValue = [n \in Nodes |-> IF n \in Lists THEN portMAX_DELAY ELSE value[n]]
  OBVIOUS
<1>2. TypeOK
  <2>1. xItemValue \in [Nodes -> 0..portMAX_DELAY]
    <3>1. \A n \in Nodes : n \notin Lists => value[n] \in 0..portMAX_DELAY
      OBVIOUS
    <3>2. portMAX_DELAY \in 0..portMAX_DELAY
      OBVIOUS
    <3> QED BY <1>1, <3>1, <3>2
  <2>2. contents \in [Lists -> Seq(ListItems)]
    BY EmptySeq
  <2> QED BY <2>1, <2>2 DEF TypeOK, NoCall, CallAt
<1>3. ASSUME NEW l \in Lists
      PROVE  ListOK(l) /\ QuietList(l)
  <2>1. contents[l] = <<>> /\ Len(contents[l]) = 0 /\ Items(contents[l]) = {}
    BY EmptySeq DEF Items
  <2>2. Orderly(l, contents[l]) /\ Sorted(contents[l], xItemValue)
    BY <2>1, EmptySeq DEF Orderly, NoDuplicates, Sorted
  <2>3. pxNext[l] = l /\ pxPrevious[l] = l /\ NodesOf(l) = {l} /\ xItemValue[l] = portMAX_DELAY
    BY <1>1, <2>1 DEF NodesOf, Ring
  <2>4. IsRing(l, contents[l], pxNext)
    BY <2>1, <2>3 DEF IsRing, Node
  <2> QED BY <2>1, <2>2, <2>3, <2>4 DEF ListOK, QuietList, PointsBack
<1>4. \A l \in Lists : Items(contents[l]) = {}
  BY EmptySeq DEF Items
<1>5. Disjoint /\ \A i \in ListItems : QuietItem(i)
  BY <1>4 DEF Disjoint, QuietItem
<1>6. \A c \in Callers : Idle(c)
  BY DEF Idle
<1> QED BY <1>2, <1>3, <1>5, <1>6 DEF IInv, Apart

LEMMA CallStep ==
  ASSUME IInv, NEW c \in Callers, Statement(c)
  PROVE  IInv' /\ KeepsOthers(list(c))
BY WalkStep, SetNextStep, SetPreviousOfNextStep, SetPreviousStep, SetNextOfNodeStep,
   SetNextToIndexStep, CopyPreviousStep, SetNextOfPreviousStep, SetPreviousOfIndexStep,
   SetContainerStep, CountUpStep, UnlinkPreviousStep, UnlinkNextStep, MoveIndexStep,
   ClearContainerStep, CountDownStep, SkipEndStep DEF Statement

LEMMA NextInv == IInv /\ [Next]_vars => IInv'
<1> SUFFICES ASSUME IInv, [Next]_vars PROVE IInv'
  OBVIOUS
<1>1. ASSUME NEW c \in Callers, Call(c)
      PROVE  IInv'
  BY <1>1, InsertStep, InsertEndStep, RemoveStep, NextEntryStep DEF Call
<1>2. ASSUME NEW c \in Callers, Statement(c)
      PROVE  IInv'
  BY <1>2, CallStep
<1>3. ASSUME Interrupt
      PROVE  IInv'
  BY <1>3, WholeInsertEndStep, WholeRemoveStep, SetValueStep DEF Interrupt
<1>4. CASE UNCHANGED vars
  BY <1>4 DEF vars, IInv, TypeOK, Disjoint, Apart, ListOK, QuietList, QuietItem, PointsBack,
     NodesOf, InUse, Idle, list, item, node, CallOK, ItemOK, HeadOK, Open, InsertOK, AppendOK,
     RemoveOK, PlaceOf, Free
<1> QED BY <1>1, <1>2, <1>3, <1>4 DEF Next

LEMMA Invariance == Spec => []IInv
BY InitInv, NextInv, PTL DEF Spec

-----------------------------------------------------------------------------
(* Type correctness.                                                        *)
THEOREM TypeCorrect == Spec => []TypeOK
<1>1. IInv => TypeOK
  BY DEF IInv
<1> QED BY <1>1, Invariance, PTL

(* Nobody has the items of a list that nobody has.                          *)
LEMMA ItemsInUse ==
  ASSUME IInv, NEW l \in Lists, ~InUse(l), NEW i \in Items(contents[l])
  PROVE  ~InUse(i)
<1> SUFFICES ASSUME InUse(i) PROVE FALSE
  OBVIOUS
<1>1. i \in ListItems /\ i # NULL /\ i \notin Lists /\ l # NULL
  <2>1. Items(contents[l]) \subseteq ListItems
    BY ItemsTyped DEF IInv, TypeOK
  <2> QED BY <2>1, ListsAssumption DEF Nodes
<1>2. PICK c \in Callers : i \in {list(c), item(c)}
  BY DEF InUse, list, item
<1>3. list(c) \in Lists \union {NULL} /\ ~Idle(c)
  BY <1>1, <1>2 DEF IInv, TypeOK, list, item, Idle, NoCall, CallAt
<1>4. item(c) = i /\ CallOK(c) /\ ~Free(i)
  BY <1>1, <1>2, <1>3 DEF IInv, Free
<1>5. i \in Items(contents[list(c)]) /\ list(c) \in Lists
  BY <1>1, <1>4 DEF CallOK, ItemOK, Statements, Linking, Inserting, Appending, Finishing,
     Unlinking, Leaving
<1>6. list(c) = l
  BY <1>5 DEF IInv, Disjoint
<1> QED BY <1>1, <1>6 DEF InUse, list

(* Every list is a proper list of list_model.h whenever it may be looked at, *)
(* and its forward links are one at every moment, whatever calls of list.c  *)
(* pre-empt each other between their writes.                                *)
THEOREM ListsAreProper == Spec => []ListInv
<1>1. IInv => ListInv
  <2> SUFFICES ASSUME IInv, NEW l \in Lists
               PROVE  /\ NoDuplicates(contents[l]) /\ Forward(l)
                      /\ l \in SortedLists => Sorted(contents[l], xItemValue)
                      /\ {i \in Items(contents[l]) : ~InUse(i)} = {i \in In(l) : ~InUse(i)}
                      /\ ~InUse(l) =>
                           /\ Backward(l)
                           /\ uxNumberOfItems[l] = Len(contents[l])
                           /\ pxIndex[l] \in In(l) \union {l}
    BY DEF ListInv
  <2>1. ListOK(l) /\ Items(contents[l]) \subseteq ListItems
    BY ItemsTyped DEF IInv, TypeOK
  <2>2. /\ NoDuplicates(contents[l]) /\ Forward(l)
        /\ l \in SortedLists => Sorted(contents[l], xItemValue)
    BY <2>1 DEF ListOK, Orderly, IsRing, Forward
  <2>3. {i \in Items(contents[l]) : ~InUse(i)} = {i \in In(l) : ~InUse(i)}
    BY <2>1 DEF IInv, QuietItem, In
  <2>4. ASSUME ~InUse(l)
        PROVE  /\ Backward(l)
               /\ uxNumberOfItems[l] = Len(contents[l])
               /\ pxIndex[l] \in In(l) \union {l}
    <3>1. QuietList(l)
      BY <2>4 DEF IInv
    <3>2. \A k \in 0..Len(contents[l]) : Node(l, contents[l], k) \in NodesOf(l)
      BY <2>1, NodesAndPlaces DEF ListOK, NodesOf
    <3>3. Backward(l)
      BY <2>1, <3>1, <3>2 DEF Backward, QuietList, PointsBack, ListOK, IsRing
    <3>4. NodesOf(l) \subseteq In(l) \union {l}
      BY <2>1, <2>3, <2>4, ItemsInUse DEF NodesOf, Ring
    <3> QED BY <3>1, <3>3, <3>4 DEF QuietList
  <2> QED BY <2>2, <2>3, <2>4
<1> QED BY <1>1, Invariance, PTL

(* No insertion walks for ever, nor past the end of its list.               *)
THEOREM WalksEnd == Spec => []WalksAdvance
<1>1. IInv => WalksAdvance
  <2> SUFFICES ASSUME IInv, NEW c \in Callers, At(c, "walk"), Passes(item(c), node(c))
               PROVE  Place(list(c), contents[list(c)], node(c)) <
                        Place(list(c), contents[list(c)], pxNext[node(c)])
    BY DEF WalksAdvance
  <2>1. PICK l \in Lists, i \in ListItems, n \in {node(c)} :
          l = list(c) /\ i = item(c) /\ n = node(c)
    BY CallFacts DEF At
  <2>2. /\ n \in NodesOf(l) /\ xItemValue[i] < portMAX_DELAY
        /\ xItemValue[l] = portMAX_DELAY
    <3>1. CallOK(c) /\ ListOK(l)
      BY CallFacts DEF At, IInv
    <3> QED BY <2>1, <3>1 DEF CallOK, InsertOK, Inserting, At, ListOK
  <2>3. /\ xItemValue[i] \in Int /\ portMAX_DELAY \in Int
        /\ xItemValue[pxNext[n]] \in Int /\ xItemValue[pxNext[n]] <= xItemValue[i]
    <3>1. pxNext[n] \in Nodes /\ i \in Nodes
      BY <2>2, ListFacts DEF Nodes
    <3> QED BY <2>1, <3>1, ListsAssumption DEF Passes, IInv, TypeOK
  <2>4. pxNext[n] # l
    BY <2>2, <2>3
  <2> QED BY <2>1, <2>2, <2>4, NextPlace
<1> QED BY <1>1, Invariance, PTL

-----------------------------------------------------------------------------
(* The operators of OrderedLists, on the lists of the invariant.            *)

LEMMA SameOperators ==
  ASSUME NEW s, NEW i, NEW k
  PROVE  /\ Abstract!InsertAt(s, k, i) = InsertAt(s, k, i)
         /\ Abstract!Without(s, i) = Without(s, i)
         /\ Abstract!Contains(s, i) <=> i \in Items(s)
         /\ Abstract!Last(s) = s[Len(s)]
BY DEF Abstract!InsertAt, InsertAt, Abstract!Without, Without, Abstract!Contains, Contains,
   Items, Abstract!RemoveAt, RemoveAt, Abstract!Last

LEMMA AbstractPlace ==
  ASSUME IInv, NEW l \in Lists, NEW i \in Items(contents[l])
  PROVE  Abstract!Place(contents[l], i) = Place(l, contents[l], i)
<1>1. i # l /\ DOMAIN contents[l] = 1..Len(contents[l])
  BY ListFacts, NodesAndPlaces, LenProperties DEF Orderly
<1> QED BY <1>1 DEF Abstract!Place, Place

LEMMA AbstractInsert ==
  ASSUME IInv, NEW l \in Lists, NEW i \in ListItems, NEW k \in 1..(Len(contents[l]) + 1),
         \A j \in 1..(k - 1) : xItemValue[contents[l][j]] <= xItemValue[i],
         k <= Len(contents[l]) => xItemValue[contents[l][k]] > xItemValue[i]
  PROVE  Abstract!vListInsert(contents[l], [j \in ListItems |-> xItemValue[j]], i)
           = InsertAt(contents[l], k, i)
<1> DEFINE s == contents[l]
           value == [j \in ListItems |-> xItemValue[j]]
<1>1. s \in Seq(ListItems) /\ Len(s) \in Nat /\ \A j \in 1..Len(s) : s[j] \in ListItems
  BY LenProperties, ElementOfSeq DEF IInv, TypeOK
<1>2. /\ value[i] = xItemValue[i] /\ value[i] \in Int
      /\ \A j \in 1..Len(s) : value[s[j]] = xItemValue[s[j]] /\ value[s[j]] \in Int
  BY <1>1 DEF IInv, TypeOK, Nodes
<1> HIDE DEF value
<1>3. /\ \A j \in 1..(k - 1) : value[s[j]] <= value[i]
      /\ k <= Len(s) => value[s[k]] > value[i]
  BY <1>1, <1>2
<1>4. ASSUME NEW m \in 1..(Len(s) + 1),
             \A j \in 1..(m - 1) : value[s[j]] <= value[i],
             m <= Len(s) => value[s[m]] > value[i]
      PROVE  m = k
  <2>1. CASE m < k
    BY <1>1, <1>2, <1>3, <1>4, <2>1
  <2>2. CASE m > k
    BY <1>1, <1>2, <1>3, <1>4, <2>2
  <2> QED BY <1>1, <2>1, <2>2
<1> DEFINE position(m) == /\ \A j \in 1..(m - 1) : value[s[j]] <= value[i]
                          /\ m <= Len(s) => value[s[m]] > value[i]
<1>5. (CHOOSE m \in 1..(Len(s) + 1) : position(m)) = k
  <2>1. position(k) /\ \A m \in 1..(Len(s) + 1) : position(m) => m = k
    BY <1>3, <1>4
  <2> HIDE DEF position
  <2> QED BY <2>1
<1>6. Abstract!InsertPosition(s, value, value[i]) = k
  BY <1>5 DEF Abstract!InsertPosition
<1> QED BY <1>6, SameOperators DEF Abstract!vListInsert, value

LEMMA AbstractAppend ==
  ASSUME IInv, NEW l \in Lists, NEW i \in ListItems,
         NEW n \in NodesOf(l), NEW p \in NodesOf(l), pxNext[p] = n
  PROVE  InsertAt(contents[l], Place(l, contents[l], p) + 1, i)
           = IF IndexOf(l, n) = NULL THEN Abstract!vListInsertEnd(contents[l], i)
             ELSE Abstract!InsertAt(contents[l],
                    Abstract!Place(contents[l], IndexOf(l, n)), i)
<1> DEFINE s == contents[l]
           k == Place(l, s, p)
<1>1. /\ k \in 0..Len(s) /\ Len(s) \in Nat /\ n \in Nodes /\ n # NULL
      /\ k = Len(s) => n = l
      /\ k < Len(s) => n = s[k + 1] /\ n \in Items(s) /\ n # l /\ Place(l, s, n) = k + 1
  <2>1. l \notin Items(s) /\ n \in Nodes /\ n # NULL
    BY ListFacts, NodesAndPlaces
  <2>2. /\ k \in 0..Len(s) /\ Len(s) \in Nat
        /\ k = Len(s) => pxNext[p] = l
        /\ k < Len(s) => /\ pxNext[p] = s[k + 1] /\ s[k + 1] \in Items(s)
                         /\ Place(l, s, pxNext[p]) = k + 1
    BY NextPlace
  <2> QED BY <2>1, <2>2
<1>2. CASE k < Len(s)
  <2>1. IndexOf(l, n) = n /\ n # NULL /\ Abstract!Place(s, n) = k + 1
    BY <1>1, <1>2, AbstractPlace DEF IndexOf
  <2> QED BY <2>1, SameOperators
<1>3. CASE k = Len(s)
  <2>1. s \in Seq(ListItems) /\ Len(s) + 1 \in 1..(Len(s) + 1)
    BY <1>1 DEF IInv, TypeOK
  <2>2. /\ InsertAt(s, Len(s) + 1, i) \in Seq(ListItems)
        /\ InsertedAt(InsertAt(s, Len(s) + 1, i), s, Len(s) + 1, i)
    BY <2>1, InsertAtSeq
  <2>3. InsertAt(s, Len(s) + 1, i) = Append(s, i)
    <3> DEFINE t == InsertAt(s, Len(s) + 1, i)
               u == Append(s, i)
    <3>1. /\ t \in Seq(ListItems) /\ Len(t) = Len(s) + 1 /\ t[Len(s) + 1] = i
          /\ \A j \in 1..Len(s) : t[j] = s[j]
      BY <1>1, <2>2 DEF InsertedAt
    <3>2. /\ u \in Seq(ListItems) /\ Len(u) = Len(s) + 1 /\ u[Len(s) + 1] = i
          /\ \A j \in 1..Len(s) : u[j] = s[j]
      BY <2>1, AppendProperties
    <3> HIDE DEF t, u
    <3>3. \A j \in 1..Len(t) : t[j] = u[j]
      BY <1>1, <3>1, <3>2
    <3>4. t = u
      BY <3>1, <3>2, <3>3, SeqEqual
    <3> QED BY <3>4 DEF t, u
  <2>4. IndexOf(l, n) = NULL
    BY <1>1, <1>3 DEF IndexOf
  <2> QED BY <1>3, <2>3, <2>4 DEF Abstract!vListInsertEnd
<1> QED BY <1>1, <1>2, <1>3

LEMMA AbstractBefore ==
  ASSUME IInv, NEW l \in Lists, NEW i \in Items(contents[l]), NEW p \in NodesOf(l),
         pxNext[p] = i
  PROVE  IndexOf(l, p) = Abstract!Before(contents[l], i)
<1> DEFINE s == contents[l]
           k == Place(l, s, p)
<1>1. /\ k \in 0..Len(s) /\ Len(s) \in Nat /\ i # l /\ Orderly(l, s)
      /\ k < Len(s) /\ i = s[k + 1] /\ Place(l, s, i) = k + 1
  <2>1. l \notin Items(s) /\ Orderly(l, s)
    BY ListFacts, NodesAndPlaces
  <2> QED BY <2>1, NextPlace
<1>2. Abstract!Place(s, i) = k + 1
  BY <1>1, AbstractPlace
<1>3. Head(s) = s[1]
  BY <1>1 DEF Orderly
<1>4. CASE k = 0
  <2>1. p = l
    BY <1>1, <1>4, NodesAndPlaces DEF NodesOf
  <2> QED BY <1>1, <1>3, <1>4, <2>1 DEF IndexOf, Abstract!Before
<1>5. CASE k # 0
  <2>1. p = s[k] /\ p # l
    <3>1. Node(l, s, k) = p /\ Node(l, s, k) = s[k] /\ s[k] \in Items(s) /\ l \notin Items(s)
      BY <1>1, <1>5, NodesAndPlaces DEF NodesOf
    <3> QED BY <3>1
  <2>2. i # Head(s)
    BY <1>1, <1>3, <1>5 DEF Orderly, NoDuplicates
  <2>3. (k + 1) - 1 = k
    BY <1>1
  <2> QED BY <1>2, <2>1, <2>2, <2>3 DEF IndexOf, Abstract!Before
<1> QED BY <1>4, <1>5

LEMMA AbstractAfter ==
  ASSUME IInv, NEW l \in Lists, contents[l] # <<>>, NEW n \in NodesOf(l)
  PROVE  IndexOf(l, IF pxNext[n] = l THEN pxNext[l] ELSE pxNext[n])
           = Abstract!After(contents[l], IndexOf(l, n))
<1> DEFINE s == contents[l]
           k == Place(l, s, n)
<1>1. /\ k \in 0..Len(s) /\ Len(s) \in Nat /\ Len(s) # 0 /\ l \notin Items(s)
      /\ Orderly(l, s) /\ n # NULL /\ Place(l, s, l) = 0 /\ Head(s) = s[1]
      /\ \A j \in 1..Len(s) : s[j] \in Items(s)
  <2>1. Orderly(l, s) /\ n # NULL /\ k \in 0..Len(s)
    BY ListFacts, NextPlace
  <2>2. Len(s) # 0
    BY <2>1, EmptySeq DEF Orderly
  <2>3. Len(s) \in Nat /\ l \notin Items(s) /\ Place(l, s, l) = 0
    BY <2>1, NodesAndPlaces
  <2>4. \A j \in 1..Len(s) : s[j] \in Items(s)
    BY DEF Items
  <2>5. Head(s) = s[1]
    BY <2>1 DEF Orderly
  <2> QED BY <2>1, <2>2, <2>3, <2>4, <2>5
<1>2. /\ k = Len(s) => pxNext[n] = l
      /\ k < Len(s) => pxNext[n] = s[k + 1] /\ s[k + 1] \in Items(s)
      /\ pxNext[l] = s[1]
  <2>1. l \in NodesOf(l) /\ 0 + 1 = 1 /\ 0 < Len(s)
    BY <1>1, ListFacts
  <2> QED BY <1>1, <2>1, NextPlace
<1>3. CASE n = l
  BY <1>1, <1>2, <1>3 DEF IndexOf, Abstract!After
<1>4. CASE n # l
  <2>1. n \in Items(s) /\ k \in 1..Len(s) /\ n = s[k]
    <3>1. n \in Items(s)
      BY <1>4, ListFacts
    <3> QED BY <1>1, <3>1, NodesAndPlaces
  <2>2. IndexOf(l, n) = n /\ Abstract!Place(s, n) = k /\ Abstract!Last(s) = s[Len(s)]
    BY <1>4, <2>1, AbstractPlace, SameOperators DEF IndexOf
  <2>3. CASE k = Len(s)
    BY <1>1, <1>2, <2>1, <2>2, <2>3 DEF IndexOf, Abstract!After
  <2>4. CASE k < Len(s)
    <3>1. n # s[Len(s)]
      BY <1>1, <2>1, <2>4 DEF Orderly, NoDuplicates
    <3> QED BY <1>1, <1>2, <2>1, <2>2, <2>4, <3>1 DEF IndexOf, Abstract!After
  <2> QED BY <1>1, <2>3, <2>4
<1> QED BY <1>3, <1>4

-----------------------------------------------------------------------------
(* What the steps are for OrderedLists.                                     *)

LEMMA IndexesKept ==
  ASSUME NEW l \in Lists, KeepsOthers(l), Index(l)' = Index(l)
  PROVE  [m \in Lists |-> Index(m)]' = [m \in Lists |-> Index(m)]
<1>1. \A m \in Lists : Index(m)' = Index(m)
  BY DEF KeepsOthers
<1> QED BY <1>1

LEMMA IndexChanged ==
  ASSUME NEW l \in Lists, KeepsOthers(l), NEW x, Index(l)' = x
  PROVE  [m \in Lists |-> Index(m)]' = [[m \in Lists |-> Index(m)] EXCEPT ![l] = x]
<1>1. \A m \in Lists : Index(m)' = IF m = l THEN x ELSE Index(m)
  BY DEF KeepsOthers
<1> QED BY <1>1

LEMMA Stutter ==
  ASSUME NEW l \in Lists, KeepsOthers(l), Index(l)' = Index(l),
         contents' = contents, xItemValue' = xItemValue
  PROVE  UNCHANGED Abstract!vars
BY IndexesKept DEF Abstract!vars

LEMMA BeginStutters ==
  ASSUME IInv, IInv', NEW c \in Callers, NEW new, NEW l \in Lists, KeepsOthers(l),
         Begin(c, new), new.list = l, new.at \notin {"moveIndex", "skipEnd"},
         UNCHANGED <<pxIndex, contents, xItemValue>>
  PROVE  UNCHANGED Abstract!vars
<1>1. call'[c] = new /\ ~InUse(l) /\ list(c)' = l
  BY DEF Begin, IInv, TypeOK, list
<1>2. IndexRight /\ IndexRight'
  BY IndexIsRight, PTL
<1>3. Upcoming(c, l)' = pxIndex[l]
  BY <1>1 DEF Upcoming, At
<1>4. Index(l)' = Index(l)
  BY <1>1, <1>2, <1>3 DEF IndexRight, IndexOf
<1> QED BY <1>4, Stutter

(* Nobody has the list of a call that has returned.                         *)
LEMMA ReturnedList ==
  ASSUME IInv, NEW c \in Callers, call[c].at # "returned", Return(c),
         NEW l \in Lists, l = list(c)
  PROVE  ~InUse(l)'
<1>1. l # NULL /\ l \notin ListItems
  BY ListsAssumption DEF Nodes
<1>2. ASSUME NEW d \in Callers, d # c
      PROVE  call'[d] = call[d] /\ call[d].list # l /\ call[d].item # l
  <2>1. call[d].list = l => ~Idle(d)
    BY <1>1 DEF Idle, NoCall, CallAt
  <2>2. ~Idle(c)
    BY CallFacts
  <2> QED BY <1>1, <1>2, <2>1, <2>2, ReturnFromCall DEF IInv, Apart, TypeOK, list
<1>3. call'[c] = NoCall
  BY ReturnFromCall
<1>4. \A d \in Callers : l \notin {call'[d].list, call'[d].item}
  BY <1>1, <1>2, <1>3 DEF NoCall, CallAt
<1> QED BY <1>4 DEF InUse

LEMMA StatementStutters ==
  ASSUME IInv, IInv', NEW c \in Callers, KeepsOthers(list(c)),
         call[c].at \notin {"returned", "moveIndex", "skipEnd"},
         \/ /\ call'[c].at \notin {"moveIndex", "skipEnd"}
            /\ call'[c].list = call[c].list
         \/ Return(c),
         UNCHANGED <<pxIndex, contents, xItemValue>>
  PROVE  UNCHANGED Abstract!vars
<1>1. PICK l \in Lists : l = list(c)
  BY CallFacts
<1>2. IndexRight /\ IndexRight'
  BY IndexIsRight, PTL
<1>3. Upcoming(c, l) = pxIndex[l]
  BY DEF Upcoming, At
<1>4. Index(l)' = IndexOf(l, pxIndex[l])
  <2>1. CASE call'[c].at \notin {"moveIndex", "skipEnd"} /\ call'[c].list = call[c].list
    <3>1. Upcoming(c, l)' = pxIndex[l] /\ list(c)' = l
      BY <1>1, <2>1 DEF Upcoming, At, list
    <3> QED BY <1>2, <3>1 DEF IndexRight, IndexOf
  <2>2. CASE Return(c)
    <3>1. ~InUse(l)'
      BY <1>1, <2>2, ReturnedList
    <3> QED BY <1>2, <3>1 DEF IndexRight, IndexOf
  <2> QED BY <2>1, <2>2
<1>5. Index(l)' = Index(l)
  BY <1>1, <1>2, <1>3, <1>4 DEF IndexRight
<1> QED BY <1>1, <1>5, Stutter

LEMMA MoveIndexStutters ==
  ASSUME IInv, IInv', NEW c \in Callers, KeepsOthers(list(c)), MoveIndex(c)
  PROVE  UNCHANGED Abstract!vars
<1>1. call[c].at = "moveIndex" /\ GoTo(c, "clearContainer") /\ "clearContainer" \in Statements
  BY DEF MoveIndex, At, Statements
<1>2. PICK l \in Lists, i \in {item(c)} : l = list(c) /\ i = item(c)
  BY <1>1, CallFacts
<1>3. IndexRight /\ IndexRight'
  BY IndexIsRight, PTL
<1>4. pxIndex'[l] = IndexWithout(l, i) /\ contents' = contents /\ xItemValue' = xItemValue
  BY <1>2 DEF MoveIndex, IInv, TypeOK
<1>5. Upcoming(c, l) = IndexWithout(l, i)
  BY <1>1, <1>2 DEF Upcoming, At
<1>6. Upcoming(c, l)' = IndexWithout(l, i) /\ list(c)' = l
  BY <1>1, <1>2, <1>4, GoToCall DEF Upcoming, At, list
<1>7. Index(l)' = Index(l)
  BY <1>2, <1>3, <1>5, <1>6 DEF IndexRight, IndexOf
<1> QED BY <1>2, <1>4, <1>7, Stutter

LEMMA SkipEndStutters ==
  ASSUME IInv, IInv', NEW c \in Callers, KeepsOthers(list(c)), SkipEnd(c)
  PROVE  UNCHANGED Abstract!vars
<1>1. call[c].at = "skipEnd" /\ Return(c)
  BY DEF SkipEnd, At
<1>2. PICK l \in Lists : l = list(c)
  BY <1>1, CallFacts
<1>3. IndexRight /\ IndexRight'
  BY IndexIsRight, PTL
<1>4. /\ pxIndex'[l] = IF pxIndex[l] = l THEN pxNext[l] ELSE pxIndex[l]
      /\ contents' = contents /\ xItemValue' = xItemValue
  BY <1>2 DEF SkipEnd, IInv, TypeOK
<1>5. Upcoming(c, l) = pxIndex'[l]
  BY <1>1, <1>2, <1>4 DEF Upcoming, At
<1>6. ~InUse(l)'
  BY <1>1, <1>2, ReturnedList
<1>7. Index(l)' = Index(l)
  BY <1>2, <1>3, <1>5, <1>6 DEF IndexRight, IndexOf
<1> QED BY <1>2, <1>4, <1>7, Stutter

LEMMA InsertRefines ==
  ASSUME IInv, IInv', NEW c \in Callers, KeepsOthers(list(c)), SetNextOfNode(c)
  PROVE  Abstract!Next
<1>1. call[c].at = "setNextOfNode" /\ GoTo(c, "setContainer") /\ "setContainer" \in Statements
  BY DEF SetNextOfNode, At, Statements
<1>2. PICK l \in Lists, i \in ListItems, n \in {node(c)} :
        l = list(c) /\ i = item(c) /\ n = node(c)
  BY <1>1, CallFacts
<1> DEFINE s == contents[l]
           k == Place(l, s, n) + 1
<1>3. ItemOK(c) /\ InsertOK(c)
  BY <1>1, CallFacts DEF CallOK
<1>4. /\ Free(i) /\ l \in SortedLists /\ n \in NodesOf(l)
      /\ \A j \in 1..Place(l, s, n) : xItemValue[s[j]] <= xItemValue[i]
      /\ Place(l, s, n) < Len(s) => xItemValue[s[k]] > xItemValue[i]
  BY <1>1, <1>2, <1>3 DEF ItemOK, InsertOK, Linking, Inserting, PlaceOf
<1>5. k \in 1..(Len(s) + 1) /\ k - 1 = Place(l, s, n) /\ (k <= Len(s) <=> Place(l, s, n) < Len(s))
  BY <1>4, NextPlace
<1>6. Abstract!vListInsert(s, [j \in ListItems |-> xItemValue[j]], i) = InsertAt(s, k, i)
  BY <1>4, <1>5, AbstractInsert
<1>7. /\ contents' = [contents EXCEPT ![l] = InsertAt(s, k, i)]
      /\ xItemValue' = xItemValue /\ pxIndex' = pxIndex
  BY <1>2 DEF SetNextOfNode, LinkBehind, heads
<1>8. Index(l)' = Index(l)
  <2>1. IndexRight /\ IndexRight'
    BY IndexIsRight, PTL
  <2>2. Upcoming(c, l) = pxIndex[l] /\ Upcoming(c, l)' = pxIndex[l] /\ list(c)' = l
    BY <1>1, <1>2, <1>7, GoToCall DEF Upcoming, At
  <2> QED BY <1>2, <2>1, <2>2 DEF IndexRight, IndexOf
<1>9. [m \in Lists |-> Index(m)]' = [m \in Lists |-> Index(m)]
  BY <1>2, <1>8, IndexesKept
<1>10. Abstract!Insert(l, i)
  <2>1. ~Abstract!Linked(i)
    BY <1>4, SameOperators DEF Abstract!Linked, Free
  <2> QED BY <1>6, <1>7, <1>9, <2>1 DEF Abstract!Insert
<1> QED BY <1>4, <1>10 DEF Abstract!Next

LEMMA AppendRefines ==
  ASSUME IInv, IInv', NEW l \in Lists \ SortedLists, NEW i \in ListItems, Free(i),
         KeepsOthers(l),
         NEW n \in NodesOf(l), NEW p \in NodesOf(l), pxNext[p] = n,
         contents' = [contents EXCEPT ![l] = InsertAt(@, Place(l, @, p) + 1, i)],
         xItemValue' = xItemValue,
         Index(l) = IndexOf(l, n), Index(l)' = Index(l)
  PROVE  Abstract!Next
<1> DEFINE s == contents[l]
<1>1. InsertAt(s, Place(l, s, p) + 1, i)
        = IF Index(l) = NULL THEN Abstract!vListInsertEnd(s, i)
          ELSE Abstract!InsertAt(s, Abstract!Place(s, Index(l)), i)
  BY AbstractAppend
<1>2. [m \in Lists |-> Index(m)]' = [m \in Lists |-> Index(m)]
  BY IndexesKept
<1>3. ~Abstract!Linked(i)
  BY SameOperators DEF Abstract!Linked, Free
<1>4. contents' = [contents EXCEPT ![l] =
        IF [m \in Lists |-> Index(m)][l] = NULL THEN Abstract!vListInsertEnd(@, i)
        ELSE Abstract!InsertAt(@, Abstract!Place(@, [m \in Lists |-> Index(m)][l]), i)]
  <2>1. [m \in Lists |-> Index(m)][l] = Index(l)
    OBVIOUS
  <2>2. contents' = [contents EXCEPT ![l] = InsertAt(s, Place(l, s, p) + 1, i)]
    OBVIOUS
  <2> QED BY <1>1, <2>1, <2>2
<1>5. Abstract!InsertAtEndOfRound(l, i)
  BY <1>2, <1>3, <1>4 DEF Abstract!InsertAtEndOfRound
<1> QED BY <1>5 DEF Abstract!Next

LEMMA TakeOutRefines ==
  ASSUME IInv, IInv', NEW l \in Lists, NEW i \in Items(contents[l]), i \in ListItems,
         KeepsOthers(l),
         NEW p \in NodesOf(l), pxNext[p] = i,
         contents' = [contents EXCEPT ![l] = Without(@, i)],
         xItemValue' = xItemValue,
         NEW n, Index(l) = IndexOf(l, n),
         Index(l)' = IndexOf(l, IF n = i THEN p ELSE n)
  PROVE  Abstract!Next
<1> DEFINE s == contents[l]
<1>1. IndexOf(l, p) = Abstract!Before(s, i)
  BY AbstractBefore
<1>2. i # l /\ i # NULL
  BY ListsAssumption DEF Nodes
<1>3. Index(l)' = IF Index(l) = i THEN Abstract!Before(s, i) ELSE Index(l)
  BY <1>1, <1>2 DEF IndexOf
<1>4. [m \in Lists |-> Index(m)]' = [[m \in Lists |-> Index(m)] EXCEPT ![l] =
        IF Index(l) = i THEN Abstract!Before(s, i) ELSE Index(l)]
  BY <1>3, IndexChanged
<1>5. [m \in Lists |-> Index(m)]' = [[m \in Lists |-> Index(m)] EXCEPT ![l] =
        IF @ = i THEN Abstract!Before(s, i) ELSE @]
  <2>1. [m \in Lists |-> Index(m)][l] = Index(l)
    OBVIOUS
  <2> QED BY <1>4, <2>1
<1>6. contents' = [contents EXCEPT ![l] = Abstract!uxListRemove(@, i)]
  <2>1. Abstract!uxListRemove(s, i) = Without(s, i)
    BY SameOperators DEF Abstract!uxListRemove
  <2>2. contents' = [contents EXCEPT ![l] = Without(s, i)]
    OBVIOUS
  <2> QED BY <2>1, <2>2
<1>7. Abstract!TakeOut(l, i)
  BY <1>5, <1>6, SameOperators DEF Abstract!TakeOut
<1> QED BY <1>7 DEF Abstract!Next

LEMMA NextEntryRefines ==
  ASSUME IInv, IInv', NEW c \in Callers, NEW l \in Lists \ SortedLists, KeepsOthers(l),
         listGET_OWNER_OF_NEXT_ENTRY(c, l)
  PROVE  Abstract!Next
<1>1. PICK n : n = pxIndex[l]
  OBVIOUS
<1>2. /\ Begin(c, CallAt("skipEnd", l, NULL, NULL)) /\ uxNumberOfItems[l] > 0
      /\ pxIndex' = [pxIndex EXCEPT ![l] = pxNext[n]]
      /\ UNCHANGED <<links, xItemValue, contents>>
  BY <1>1 DEF listGET_OWNER_OF_NEXT_ENTRY
<1>3. ~InUse(l) /\ QuietList(l)
  BY <1>2 DEF Begin, CallAt, IInv
<1>4. contents[l] # <<>> /\ n \in NodesOf(l)
  BY <1>1, <1>2, <1>3, EmptySeq DEF QuietList
<1>5. call'[c].at = "skipEnd" /\ list(c)' = l /\ pxIndex'[l] = pxNext[n] /\ pxNext' = pxNext
  BY <1>2 DEF Begin, CallAt, IInv, TypeOK, list, links
<1>6. Upcoming(c, l)' = IF pxNext[n] = l THEN pxNext[l] ELSE pxNext[n]
  BY <1>5 DEF Upcoming, At
<1>7. IndexRight /\ IndexRight'
  BY IndexIsRight, PTL
<1>8. Index(l) = IndexOf(l, n)
  BY <1>1, <1>3, <1>7 DEF IndexRight
<1>9. Index(l)' = Abstract!After(contents[l], Index(l))
  <2>1. Index(l)' = IndexOf(l, IF pxNext[n] = l THEN pxNext[l] ELSE pxNext[n])
    BY <1>5, <1>6, <1>7 DEF IndexRight, IndexOf
  <2> QED BY <1>4, <1>8, <2>1, AbstractAfter
<1>10. [m \in Lists |-> Index(m)]' = [[m \in Lists |-> Index(m)] EXCEPT ![l] =
         Abstract!After(contents[l], @)]
  <2>1. [m \in Lists |-> Index(m)]' = [[m \in Lists |-> Index(m)] EXCEPT ![l] =
          Abstract!After(contents[l], Index(l))]
    BY <1>9, IndexChanged
  <2>2. [m \in Lists |-> Index(m)][l] = Index(l)
    OBVIOUS
  <2> QED BY <2>1, <2>2
<1>11. Abstract!NextEntry(l)
  BY <1>2, <1>4, <1>10 DEF Abstract!NextEntry
<1> QED BY <1>11 DEF Abstract!Next

LEMMA AppendStatementRefines ==
  ASSUME IInv, IInv', NEW c \in Callers, KeepsOthers(list(c)), SetNextOfPrevious(c)
  PROVE  Abstract!Next
<1>1. call[c].at = "setNextOfPrevious" /\ GoTo(c, "setPreviousOfIndex")
      /\ "setPreviousOfIndex" \in Statements
  BY DEF SetNextOfPrevious, At, Statements
<1>2. PICK l \in Lists, i \in ListItems, n \in {node(c)}, p \in {pxPrevious[node(c)]} :
        l = list(c) /\ i = item(c) /\ n = node(c) /\ p = pxPrevious[n]
  BY <1>1, CallFacts
<1>3. ItemOK(c) /\ HeadOK(c) /\ AppendOK(c) /\ NULL \notin NodesOf(l)
  BY <1>1, CallFacts, ListFacts DEF CallOK
<1>4. Free(i) /\ l \notin SortedLists /\ n \in NodesOf(l) /\ n = pxIndex[l]
  BY <1>1, <1>2, <1>3 DEF ItemOK, AppendOK, Linking, Appending
<1>5. p \in NodesOf(l) /\ pxNext[p] = n
  <2>1. PICK m \in NodesOf(l) : pxNext[m] = n
    BY <1>4, ListFacts
  <2>2. Open(c) = NULL
    BY <1>1 DEF Open
  <2>3. p = m
    BY <1>2, <1>3, <2>1, <2>2 DEF HeadOK, PointsBack
  <2> QED BY <2>1, <2>3
<1>6. /\ contents' = [contents EXCEPT ![l] = InsertAt(@, Place(l, @, p) + 1, i)]
      /\ xItemValue' = xItemValue /\ pxIndex' = pxIndex
  BY <1>2 DEF SetNextOfPrevious, LinkBehind, heads
<1>7. Index(l) = IndexOf(l, n) /\ Index(l)' = Index(l)
  <2>1. IndexRight /\ IndexRight'
    BY IndexIsRight, PTL
  <2>2. Upcoming(c, l) = n /\ Upcoming(c, l)' = n /\ list(c)' = l
    BY <1>1, <1>2, <1>4, <1>6, GoToCall DEF Upcoming, At
  <2> QED BY <1>2, <2>1, <2>2 DEF IndexRight, IndexOf
<1> QED BY <1>2, <1>4, <1>5, <1>6, <1>7, AppendRefines

LEMMA RemoveStatementRefines ==
  ASSUME IInv, IInv', NEW c \in Callers, KeepsOthers(list(c)), UnlinkNext(c)
  PROVE  Abstract!Next
<1>1. call[c].at = "unlinkNext" /\ GoTo(c, "moveIndex") /\ "moveIndex" \in Statements
  BY DEF UnlinkNext, At, Statements
<1>2. PICK l \in Lists, i \in ListItems, p \in {pxPrevious[item(c)]}, n \in {pxIndex[list(c)]} :
        l = list(c) /\ i = item(c) /\ p = pxPrevious[i] /\ n = pxIndex[l]
  BY <1>1, CallFacts
<1>3. /\ i \in Items(contents[l]) /\ p \in NodesOf(l) /\ pxNext[p] = i
  BY <1>1, <1>2, CallFacts DEF CallOK, ItemOK, RemoveOK, Unlinking
<1>4. /\ contents' = [contents EXCEPT ![l] = Without(@, i)]
      /\ xItemValue' = xItemValue /\ pxIndex' = pxIndex /\ pxPrevious' = pxPrevious
  BY <1>2 DEF UnlinkNext, Unlink, heads
<1>5. Index(l) = IndexOf(l, n) /\ Index(l)' = IndexOf(l, IF n = i THEN p ELSE n)
  <2>1. IndexRight /\ IndexRight'
    BY IndexIsRight, PTL
  <2>2. Upcoming(c, l) = n
    BY <1>1, <1>2 DEF Upcoming, At
  <2>3. Upcoming(c, l)' = (IF n = i THEN p ELSE n) /\ list(c)' = l
    BY <1>1, <1>2, <1>4, GoToCall DEF Upcoming, At, IndexWithout
  <2> QED BY <1>2, <2>1, <2>2, <2>3 DEF IndexRight, IndexOf
<1> QED BY <1>2, <1>3, <1>4, <1>5, TakeOutRefines

LEMMA StatementRefines ==
  ASSUME IInv, NEW c \in Callers, Statement(c)
  PROVE  Abstract!Next \/ UNCHANGED Abstract!vars
<1>1. IInv' /\ KeepsOthers(list(c))
  BY CallStep
<1>2. CASE SetNextOfNode(c) \/ SetNextOfPrevious(c) \/ UnlinkNext(c)
  BY <1>1, <1>2, InsertRefines, AppendStatementRefines, RemoveStatementRefines
<1>3. CASE MoveIndex(c) \/ SkipEnd(c)
  BY <1>1, <1>3, MoveIndexStutters, SkipEndStutters
<1>4. CASE Walk(c)
  <2>1. /\ call[c].at = "walk" /\ UNCHANGED <<pxIndex, contents, xItemValue>>
        /\ \/ call' = [call EXCEPT ![c].node = pxNext[@]]
           \/ GoTo(c, "setNext")
    BY <1>4 DEF Walk, At, heads
  <2>2. call'[c].at \notin {"moveIndex", "skipEnd"} /\ call'[c].list = call[c].list
    BY <2>1 DEF GoTo, IInv, TypeOK
  <2> QED BY <1>1, <2>1, <2>2, StatementStutters
<1>5. CASE CountUp(c) \/ CountDown(c)
  <2>1. /\ call[c].at \in {"countUp", "countDown"} /\ Return(c)
        /\ UNCHANGED <<pxIndex, contents, xItemValue>>
    BY <1>5 DEF CountUp, CountDown, At
  <2> QED BY <1>1, <2>1, StatementStutters
<1>6. CASE \/ SetNext(c) \/ SetPreviousOfNext(c) \/ SetPrevious(c) \/ SetNextToIndex(c)
           \/ CopyPrevious(c) \/ SetPreviousOfIndex(c) \/ SetContainer(c)
           \/ UnlinkPrevious(c) \/ ClearContainer(c)
  <2>1. PICK statement \in Statements \ {"moveIndex", "skipEnd"} : GoTo(c, statement)
    BY <1>6 DEF SetNext, SetPreviousOfNext, SetPrevious, SetNextToIndex, CopyPrevious,
         SetPreviousOfIndex, SetContainer, UnlinkPrevious, ClearContainer, Statements
  <2>2. /\ call[c].at \notin {"returned", "moveIndex", "skipEnd"}
        /\ UNCHANGED <<pxIndex, contents, xItemValue>>
    BY <1>6 DEF SetNext, SetPreviousOfNext, SetPrevious, SetNextToIndex, CopyPrevious,
         SetPreviousOfIndex, SetContainer, UnlinkPrevious, ClearContainer, At, heads
  <2>3. call'[c].at \notin {"moveIndex", "skipEnd"} /\ call'[c].list = call[c].list
    BY <2>1, GoToCall DEF list
  <2> QED BY <1>1, <2>2, <2>3, StatementStutters
<1> QED BY <1>2, <1>3, <1>4, <1>5, <1>6 DEF Statement

LEMMA CallRefines ==
  ASSUME IInv, NEW c \in Callers, Call(c)
  PROVE  Abstract!Next \/ UNCHANGED Abstract!vars
<1>1. ASSUME NEW i \in ListItems, NEW l \in SortedLists, vListInsert(c, l, i)
      PROVE  UNCHANGED Abstract!vars
  <2> DEFINE new == StartOfWalk(l, i)
  <2>1. /\ Begin(c, new) /\ new.list = l /\ new.at \notin {"moveIndex", "skipEnd"}
        /\ UNCHANGED <<pxIndex, contents, xItemValue>> /\ l \in Lists
    BY <1>1, ListsAssumption DEF vListInsert, StartOfWalk, CallAt, heads
  <2> HIDE DEF new
  <2> QED BY <1>1, <2>1, InsertStep, BeginStutters
<1>2. ASSUME NEW i \in ListItems, NEW l \in Lists \ SortedLists, vListInsertEnd(c, l, i)
      PROVE  UNCHANGED Abstract!vars
  <2> DEFINE new == CallAt("setNextToIndex", l, i, pxIndex[l])
  <2>1. /\ Begin(c, new) /\ new.list = l /\ new.at \notin {"moveIndex", "skipEnd"}
        /\ UNCHANGED <<pxIndex, contents, xItemValue>>
    BY <1>2 DEF vListInsertEnd, CallAt, heads
  <2> HIDE DEF new
  <2> QED BY <1>2, <2>1, InsertEndStep, BeginStutters
<1>3. ASSUME NEW i \in ListItems, uxListRemove(c, i)
      PROVE  UNCHANGED Abstract!vars
  <2>1. PICK l \in Lists : l = pxContainer[i]
    BY <1>3 DEF uxListRemove, Linked, IInv, TypeOK
  <2> DEFINE new == CallAt("unlinkPrevious", l, i, NULL)
  <2>2. /\ Begin(c, new) /\ new.list = l /\ new.at \notin {"moveIndex", "skipEnd"}
        /\ UNCHANGED <<pxIndex, contents, xItemValue>>
    BY <1>3, <2>1 DEF uxListRemove, CallAt, heads
  <2> HIDE DEF new
  <2> QED BY <1>3, <2>1, <2>2, RemoveStep, BeginStutters
<1>4. ASSUME NEW l \in Lists \ SortedLists, listGET_OWNER_OF_NEXT_ENTRY(c, l)
      PROVE  Abstract!Next
  BY <1>4, NextEntryStep, NextEntryRefines
<1> QED BY <1>1, <1>2, <1>3, <1>4 DEF Call

LEMMA WholeInsertEndRefines ==
  ASSUME IInv, NEW l \in Lists \ SortedLists, NEW i \in ListItems, listINSERT_END(l, i)
  PROVE  Abstract!Next
<1>1. IInv' /\ KeepsOthers(l)
  BY WholeInsertEndStep
<1>2. PICK n, p : n = pxIndex[l] /\ p = pxPrevious[n]
  OBVIOUS
<1>3. /\ ~InUse(l) /\ ~InUse(i) /\ ~Linked(i)
      /\ contents' = [contents EXCEPT ![l] = InsertAt(@, Place(l, @, p) + 1, i)]
      /\ UNCHANGED <<xItemValue, pxIndex, call>>
  BY <1>2 DEF listINSERT_END, LinkBehind
<1>4. Free(i) /\ n \in NodesOf(l) /\ p \in NodesOf(l) /\ pxNext[p] = n
  <2>1. Free(i) /\ QuietList(l)
    BY <1>3, UnlinkedIsFree DEF IInv
  <2>2. n \in NodesOf(l)
    BY <1>2, <2>1 DEF QuietList
  <2>3. PICK m \in NodesOf(l) : pxNext[m] = n
    BY <2>2, ListFacts
  <2>4. p = m
    BY <1>2, <2>1, <2>3 DEF QuietList, PointsBack
  <2> QED BY <2>1, <2>2, <2>3, <2>4
<1>5. Index(l) = IndexOf(l, n) /\ Index(l)' = Index(l)
  <2>1. IndexRight /\ IndexRight'
    BY <1>1, IndexIsRight, PTL
  <2>2. ~InUse(l)'
    BY <1>3 DEF InUse
  <2> QED BY <1>2, <1>3, <2>1, <2>2 DEF IndexRight, IndexOf
<1> QED BY <1>1, <1>3, <1>4, <1>5, AppendRefines

LEMMA WholeRemoveRefines ==
  ASSUME IInv, NEW i \in ListItems, listREMOVE_ITEM(i)
  PROVE  Abstract!Next
<1>1. PICK l \in Lists, p \in {pxPrevious[i]}, n \in {pxIndex[pxContainer[i]]} :
        l = pxContainer[i] /\ p = pxPrevious[i] /\ n = pxIndex[l]
  BY DEF listREMOVE_ITEM, Linked, IInv, TypeOK
<1>2. IInv' /\ KeepsOthers(l)
  BY <1>1, WholeRemoveStep
<1>3. /\ ~InUse(i) /\ ~InUse(l)
      /\ pxIndex' = [pxIndex EXCEPT ![l] = IndexWithout(l, i)]
      /\ contents' = [contents EXCEPT ![l] = Without(@, i)]
      /\ UNCHANGED <<xItemValue, call>>
  BY <1>1 DEF listREMOVE_ITEM, Unlink
<1>4. i \in Items(contents[l]) /\ p \in NodesOf(l) /\ pxNext[p] = i
  <2>1. i \in Items(contents[l]) /\ QuietList(l)
    BY <1>1, <1>3 DEF IInv, QuietItem
  <2>2. PICK m \in NodesOf(l) : pxNext[m] = i
    BY <2>1, ListFacts
  <2>3. p = m
    BY <1>1, <2>1, <2>2 DEF QuietList, PointsBack
  <2> QED BY <2>1, <2>2, <2>3
<1>5. Index(l) = IndexOf(l, n) /\ Index(l)' = IndexOf(l, IF n = i THEN p ELSE n)
  <2>1. IndexRight /\ IndexRight'
    BY <1>2, IndexIsRight, PTL
  <2>2. ~InUse(l)'
    BY <1>3 DEF InUse
  <2>3. pxIndex'[l] = IF n = i THEN p ELSE n
    BY <1>1, <1>3 DEF IndexWithout, IInv, TypeOK
  <2> QED BY <1>1, <1>3, <2>1, <2>2, <2>3 DEF IndexRight, IndexOf
<1> QED BY <1>2, <1>3, <1>4, <1>5, TakeOutRefines

LEMMA IndexesUntouched ==
  ASSUME UNCHANGED <<call, pxIndex, pxNext, pxPrevious>>
  PROVE  [m \in Lists |-> Index(m)]' = [m \in Lists |-> Index(m)]
<1>1. \A m \in Lists : Index(m)' = Index(m)
  BY DEF Index, InUse, At, IndexWithout, list, item
<1> QED BY <1>1

LEMMA SetValueRefines ==
  ASSUME IInv, NEW i \in ListItems, NEW v \in Values, listSET_LIST_ITEM_VALUE(i, v)
  PROVE  Abstract!Next
<1>1. /\ ~InUse(i) /\ pxContainer[i] \notin SortedLists
      /\ xItemValue' = [xItemValue EXCEPT ![i] = v]
      /\ UNCHANGED <<call, pxIndex, pxNext, pxPrevious, contents>>
  BY DEF listSET_LIST_ITEM_VALUE, links, heads
<1>2. \A l \in SortedLists : i \notin Items(contents[l])
  BY <1>1, ListsAssumption DEF IInv, QuietItem
<1>3. [j \in ListItems |-> xItemValue[j]]' = [[j \in ListItems |-> xItemValue[j]] EXCEPT ![i] = v]
  <2>1. \A j \in ListItems : xItemValue'[j] = IF j = i THEN v ELSE xItemValue[j]
    BY <1>1 DEF IInv, TypeOK, Nodes
  <2> QED BY <2>1
<1>4. [m \in Lists |-> Index(m)]' = [m \in Lists |-> Index(m)]
  BY <1>1, IndexesUntouched
<1>5. \A l \in SortedLists : ~Abstract!Contains(contents[l], i)
  BY <1>2, SameOperators
<1>6. Abstract!SetValue(i, v)
  BY <1>1, <1>3, <1>4, <1>5 DEF Abstract!SetValue
<1> QED BY <1>6 DEF Abstract!Next

(* The lists of pointers implement lists whose calls are made at once: each  *)
(* call takes effect with one of its writes, those of other callers between *)
(* two of its writes do no harm, and neither does it to theirs.             *)
THEOREM ListsAreImplemented == Spec => ImplementsOrderedLists
<1>1. Init => Abstract!Init
  <2> SUFFICES ASSUME Init PROVE Abstract!Init
    OBVIOUS
  <2>1. IInv /\ IndexRight
    BY InitInv, IndexIsRight
  <2>2. ASSUME NEW l \in Lists
        PROVE  Index(l) = NULL
    <3>1. ~InUse(l)
      BY ListsAssumption DEF Init, InUse, NoCall, CallAt, Nodes
    <3> QED BY <2>1, <3>1 DEF IndexRight, IndexOf, Init
  <2>3. [i \in ListItems |-> xItemValue[i]] \in [ListItems -> Values]
    <3>1. PICK value \in [ListItems -> Values] :
            xItemValue = [n \in Nodes |-> IF n \in Lists THEN portMAX_DELAY ELSE value[n]]
      BY DEF Init
    <3>2. \A i \in ListItems : i \in Nodes /\ i \notin Lists
      BY ListsAssumption DEF Nodes
    <3>3. \A i \in ListItems : xItemValue[i] = value[i]
      BY <3>1, <3>2
    <3> QED BY <3>3
  <2> QED BY <2>2, <2>3 DEF Abstract!Init, Init
<1>2. IInv /\ [Next]_vars => [Abstract!Next]_(Abstract!vars)
  <2> SUFFICES ASSUME IInv, [Next]_vars PROVE Abstract!Next \/ UNCHANGED Abstract!vars
    OBVIOUS
  <2>1. ASSUME Interrupt
        PROVE  Abstract!Next
    BY <2>1, WholeInsertEndRefines, WholeRemoveRefines, SetValueRefines DEF Interrupt
  <2>2. CASE UNCHANGED vars
    <3>1. UNCHANGED <<call, pxIndex, pxNext, pxPrevious, contents, xItemValue>>
      BY <2>2 DEF vars
    <3> QED BY <3>1, IndexesUntouched DEF Abstract!vars
  <2> QED BY <2>1, <2>2, CallRefines, StatementRefines DEF Next
<1> QED BY <1>1, <1>2, Invariance, PTL DEF Spec, ImplementsOrderedLists, Abstract!Spec
=============================================================================

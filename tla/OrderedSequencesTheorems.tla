--------------------- MODULE OrderedSequencesTheorems ---------------------
(***************************************************************************)
(* What inserting an item into an ordered sequence and taking one out do to *)
(* its items, their uniqueness and their order, for every sequence.         *)
(***************************************************************************)
EXTENDS OrderedSequences, SequenceTheorems, WellFoundedInduction, TLAPS

(* `new' is `list' with the item put in at k, and with the item at k taken  *)
(* out.                                                                     *)
InsertedAt(new, list, k, item) ==
  /\ Len(new) = Len(list) + 1
  /\ \A i \in 1..(k - 1) : new[i] = list[i]
  /\ new[k] = item
  /\ \A i \in (k + 1)..(Len(list) + 1) : new[i] = list[i - 1]

RemovedAt(new, list, k) ==
  /\ Len(new) = Len(list) - 1
  /\ \A i \in 1..(k - 1) : new[i] = list[i]
  /\ \A i \in k..(Len(list) - 1) : new[i] = list[i + 1]

(* A search for the place of the value v may stop at k.                     *)
StopsAt(list, value, v, k) ==
  /\ \A i \in 1..(k - 1) : value[list[i]] <= v
  /\ k <= Len(list) => value[list[k]] >= v

(* A set of natural numbers that is not empty has a least element.          *)
LEMMA LeastExists ==
  ASSUME NEW P \in SUBSET Nat, P # {}
  PROVE  \E k \in P : \A m \in P : k <= m
<1>1. \E x \in P : \A y \in P : ~ (<<y, x>> \in OpToRel(<, Nat))
  BY NatLessThanWellFounded, WFMin
<1>2. PICK x \in P : \A y \in P : ~ (<<y, x>> \in OpToRel(<, Nat))
  BY <1>1
<1>3. ASSUME NEW y \in P
      PROVE  x <= y
  <2>1. x \in Nat /\ y \in Nat
    OBVIOUS
  <2>2. ~ (<<y, x>> \in OpToRel(<, Nat))
    BY <1>2
  <2>3. ~ (y < x)
    BY <2>1, <2>2 DEF OpToRel
  <2> QED BY <2>1, <2>3
<1> QED BY <1>3

(* InsertAt shifts the items from position k on by one place.               *)
LEMMA InsertAtSeq ==
  ASSUME NEW S, NEW s \in Seq(S), NEW k \in 1..(Len(s) + 1), NEW e \in S
  PROVE  /\ InsertAt(s, k, e) \in Seq(S)
         /\ InsertedAt(InsertAt(s, k, e), s, k, e)
<1> DEFINE a == SubSeq(s, 1, k - 1)
           b == SubSeq(s, k, Len(s))
<1>1. /\ a \in Seq(S) /\ Len(a) = k - 1
      /\ \A i \in 1..(k - 1) : a[i] = s[i]
  BY SubSeqProperties, ElementOfSeq, LenProperties
<1>2. /\ b \in Seq(S) /\ Len(b) = Len(s) - k + 1
      /\ \A i \in 1..(Len(s) - k + 1) : b[i] = s[k + i - 1]
  BY SubSeqProperties, ElementOfSeq, LenProperties
<1>3. <<e>> \in Seq(S) /\ Len(<<e>>) = 1 /\ <<e>>[1] = e
  OBVIOUS
<1> DEFINE c == a \o <<e>>
<1>4. /\ c \in Seq(S) /\ Len(c) = k
      /\ \A i \in 1..(k - 1) : c[i] = s[i]
      /\ c[k] = e
  <2> HIDE DEF a
  <2> QED BY <1>1, <1>3, ConcatProperties
<1>5. InsertAt(s, k, e) = c \o b
  BY DEF InsertAt
<1> HIDE DEF a, b, c
<1>6. /\ c \o b \in Seq(S) /\ Len(c \o b) = Len(c) + Len(b)
      /\ \A i \in 1..(Len(c) + Len(b)) :
           (c \o b)[i] = IF i <= Len(c) THEN c[i] ELSE b[i - Len(c)]
  BY <1>2, <1>4, ConcatProperties
<1>7. Len(s) \in Nat /\ k \in Nat /\ Len(c) + Len(b) = Len(s) + 1
  BY <1>2, <1>4, LenProperties
<1>8. ASSUME NEW i \in 1..k
      PROVE  (c \o b)[i] = c[i]
  BY <1>4, <1>6, <1>7
<1>9. ASSUME NEW i \in 1..(k - 1)
      PROVE  (c \o b)[i] = s[i]
  <2>1. i \in 1..k
    BY <1>7
  <2> QED BY <1>4, <1>8, <2>1
<1>10. (c \o b)[k] = e
  <2>1. k \in 1..k
    BY <1>7
  <2> QED BY <1>4, <1>8, <2>1
<1>11. ASSUME NEW i \in (k + 1)..(Len(s) + 1)
       PROVE  (c \o b)[i] = s[i - 1]
  <2>1. (c \o b)[i] = b[i - k]
    BY <1>4, <1>6, <1>7
  <2>2. i - k \in 1..(Len(s) - k + 1) /\ k + (i - k) - 1 = i - 1
    BY <1>7
  <2> QED BY <1>2, <2>1, <2>2
<1> QED BY <1>5, <1>6, <1>7, <1>9, <1>10, <1>11 DEF InsertedAt

(* RemoveAt closes the gap.                                                 *)
LEMMA RemoveAtSeq ==
  ASSUME NEW S, NEW s \in Seq(S), NEW k \in 1..Len(s)
  PROVE  /\ RemoveAt(s, k) \in Seq(S)
         /\ RemovedAt(RemoveAt(s, k), s, k)
<1> DEFINE a == SubSeq(s, 1, k - 1)
           b == SubSeq(s, k + 1, Len(s))
<1>1. /\ a \in Seq(S) /\ Len(a) = k - 1
      /\ \A i \in 1..(k - 1) : a[i] = s[i]
  BY SubSeqProperties, ElementOfSeq, LenProperties
<1>2. /\ b \in Seq(S) /\ Len(b) = Len(s) - k
      /\ \A i \in 1..(Len(s) - k) : b[i] = s[k + i]
  BY SubSeqProperties, ElementOfSeq, LenProperties
<1>3. RemoveAt(s, k) = a \o b
  BY DEF RemoveAt
<1> HIDE DEF a, b
<1>4. /\ a \o b \in Seq(S) /\ Len(a \o b) = Len(a) + Len(b)
      /\ \A i \in 1..(Len(a) + Len(b)) :
           (a \o b)[i] = IF i <= Len(a) THEN a[i] ELSE b[i - Len(a)]
  BY <1>1, <1>2, ConcatProperties
<1>5. Len(s) \in Nat /\ Len(a) + Len(b) = Len(s) - 1
  BY <1>1, <1>2, LenProperties
<1>6. ASSUME NEW i \in 1..(k - 1)
      PROVE  (a \o b)[i] = s[i]
  BY <1>1, <1>4, <1>5
<1>7. ASSUME NEW i \in k..(Len(s) - 1)
      PROVE  (a \o b)[i] = s[i + 1]
  <2>1. (a \o b)[i] = b[i - (k - 1)]
    BY <1>1, <1>4, <1>5
  <2>2. i - (k - 1) \in 1..(Len(s) - k) /\ k + (i - (k - 1)) = i + 1
    BY <1>5
  <2> QED BY <1>2, <2>1, <2>2
<1> QED BY <1>3, <1>4, <1>5, <1>6, <1>7 DEF RemovedAt

(* Positions around an insertion at k, in a list of n items: where the item *)
(* at position i of the longer list was before, and where the item at       *)
(* position i of the shorter one is afterwards.                             *)
Before(k, i) == IF i < k THEN i ELSE i - 1

After(k, i) == IF i < k THEN i ELSE i + 1

(* Both maps keep the order of the positions.                               *)
LEMMA BeforeOrder ==
  ASSUME NEW k \in Int, NEW i \in Int, NEW j \in Int, i # k, j # k, i < j
  PROVE  Before(k, i) < Before(k, j)
BY DEF Before

LEMMA AfterOrder ==
  ASSUME NEW k \in Int, NEW i \in Int, NEW j \in Int, i < j
  PROVE  After(k, i) < After(k, j)
BY DEF After

(* Inserting an item at such a position, for any list `new' with the item   *)
(* there and the others shifted.                                            *)
LEMMA InsertAtOrdered ==
  ASSUME NEW S, NEW list \in Seq(S), NEW value \in [S -> Int], NEW item \in S,
         NEW new \in Seq(S), NEW k \in 1..(Len(list) + 1),
         InsertedAt(new, list, k, item),
         StopsAt(list, value, value[item], k)
  PROVE  /\ Items(new) = Items(list) \union {item}
         /\ item \notin Items(list) /\ NoDuplicates(list) => NoDuplicates(new)
         /\ Sorted(list, value) => Sorted(new, value)
<1>1. Len(list) \in Nat /\ Len(new) = Len(list) + 1 /\ k \in 1..Len(new)
  BY LenProperties DEF InsertedAt
<1>2. ASSUME NEW i \in 1..Len(new), i # k
      PROVE  Before(k, i) \in 1..Len(list) /\ new[i] = list[Before(k, i)]
  <2>1. CASE i < k
    <3>1. i \in 1..(k - 1) /\ i \in 1..Len(list)
      BY <1>1, <2>1
    <3>2. Before(k, i) = i
      BY <2>1 DEF Before
    <3> QED BY <3>1, <3>2 DEF InsertedAt
  <2>2. CASE ~(i < k)
    <3>1. i \in (k + 1)..(Len(list) + 1) /\ i - 1 \in 1..Len(list)
      BY <1>1, <1>2, <2>2
    <3>2. Before(k, i) = i - 1
      BY <2>2 DEF Before
    <3> QED BY <3>1, <3>2 DEF InsertedAt
  <2> QED BY <2>1, <2>2
<1>3. ASSUME NEW i \in 1..Len(list)
      PROVE  After(k, i) \in 1..Len(new) /\ new[After(k, i)] = list[i]
  <2>1. CASE i < k
    <3>1. i \in 1..(k - 1) /\ i \in 1..Len(new)
      BY <1>1, <2>1
    <3>2. After(k, i) = i
      BY <2>1 DEF After
    <3> QED BY <3>1, <3>2 DEF InsertedAt
  <2>2. CASE ~(i < k)
    <3>1. /\ i + 1 \in (k + 1)..(Len(list) + 1)
          /\ i + 1 \in 1..Len(new)
          /\ (i + 1) - 1 = i
      BY <1>1, <2>2
    <3>2. After(k, i) = i + 1
      BY <2>2 DEF After
    <3>3. new[i + 1] = list[(i + 1) - 1]
      BY <3>1 DEF InsertedAt
    <3> QED BY <3>1, <3>2, <3>3
  <2> QED BY <2>1, <2>2
<1>4. k \in 1..Len(new) /\ new[k] = item
  BY <1>1 DEF InsertedAt
<1>5. Items(new) = Items(list) \union {item}
  <2>1. ASSUME NEW i \in 1..Len(new)
        PROVE  new[i] \in Items(list) \union {item}
    <3>1. CASE i = k
      BY <1>4, <3>1
    <3>2. CASE i # k
      BY <1>2, <3>2 DEF Items
    <3> QED BY <3>1, <3>2
  <2>2. Items(list) \subseteq Items(new)
    BY <1>3 DEF Items
  <2>3. item \in Items(new)
    BY <1>4 DEF Items
  <2>4. Items(new) \subseteq Items(list) \union {item}
    BY <2>1 DEF Items
  <2> QED BY <2>2, <2>3, <2>4
<1>6. ASSUME NEW i \in 1..Len(new), NEW j \in 1..Len(new), i # k, j # k, i < j
      PROVE  Before(k, i) < Before(k, j)
  BY <1>1, <1>6, BeforeOrder
<1>7. ASSUME item \notin Items(list), NoDuplicates(list)
      PROVE  NoDuplicates(new)
  <2>1. ASSUME NEW i \in 1..Len(new), NEW j \in 1..Len(new), i < j
        PROVE  new[i] # new[j]
    <3>1. CASE i # k /\ j # k
      <4>1. Before(k, i) \in 1..Len(list) /\ Before(k, j) \in 1..Len(list) /\ Before(k, i) < Before(k, j)
        BY <1>2, <1>6, <2>1, <3>1
      <4>2. list[Before(k, i)] # list[Before(k, j)]
        BY <1>7, <4>1 DEF NoDuplicates
      <4> QED BY <1>2, <3>1, <4>2
    <3>2. CASE i = k
      <4>1. j # k
        BY <1>1, <2>1, <3>2
      <4>2. new[j] \in Items(list)
        BY <1>2, <4>1 DEF Items
      <4> QED BY <1>4, <1>7, <3>2, <4>2
    <3>3. CASE j = k
      <4>1. i # k
        BY <1>1, <2>1, <3>3
      <4>2. new[i] \in Items(list)
        BY <1>2, <4>1 DEF Items
      <4> QED BY <1>4, <1>7, <3>3, <4>2
    <3> QED BY <3>1, <3>2, <3>3
  <2> QED BY <2>1 DEF NoDuplicates
<1>8. ASSUME NEW i \in 1..Len(list), i >= k, Sorted(list, value)
      PROVE  value[item] <= value[list[i]]
  <2>1. k \in 1..Len(list) /\ value[list[k]] >= value[item]
    <3>1. k \in 1..Len(list)
      BY <1>1, <1>8
    <3>2. k <= Len(list)
      BY <1>1, <3>1
    <3> QED BY <3>1, <3>2 DEF StopsAt
  <2>2. /\ value[item] \in Int
        /\ value[list[k]] \in Int
        /\ value[list[i]] \in Int
    BY <2>1, ElementOfSeq
  <2>3. CASE i = k
    BY <2>1, <2>2, <2>3
  <2>4. CASE k < i
    <3>1. value[list[k]] <= value[list[i]]
      BY <1>8, <2>1, <2>4 DEF Sorted
    <3> QED BY <2>1, <2>2, <3>1
  <2> QED BY <1>1, <1>8, <2>3, <2>4
<1>9. ASSUME Sorted(list, value)
      PROVE  Sorted(new, value)
  <2> SUFFICES ASSUME NEW i \in 1..Len(new), NEW j \in 1..Len(new), i < j
               PROVE  value[new[i]] <= value[new[j]]
    BY DEF Sorted
  <2>1. CASE i # k /\ j # k
    <3>1. /\ Before(k, i) \in 1..Len(list) /\ new[i] = list[Before(k, i)]
          /\ Before(k, j) \in 1..Len(list) /\ new[j] = list[Before(k, j)]
      BY <1>2, <2>1
    <3>2. Before(k, i) < Before(k, j)
      BY <1>6, <2>1
    <3>3. value[list[Before(k, i)]] <= value[list[Before(k, j)]]
      BY <1>9, <3>1, <3>2 DEF Sorted
    <3> QED BY <3>1, <3>3
  <2>2. CASE j = k
    <3>1. i \in 1..(k - 1)
      BY <1>1, <2>2
    <3>2. new[i] = list[i] /\ value[list[i]] <= value[item]
      BY <3>1 DEF InsertedAt, StopsAt
    <3> QED BY <1>4, <2>2, <3>2
  <2>3. CASE i = k
    <3>1. j \in 1..(Len(list) + 1) /\ j # k /\ ~(j < k)
      BY <1>1, <2>3
    <3>2. Before(k, j) \in 1..Len(list) /\ Before(k, j) >= k
      BY <1>1, <3>1 DEF Before
    <3>3. new[j] = list[Before(k, j)]
      BY <1>2, <3>1
    <3>4. value[item] <= value[list[Before(k, j)]]
      BY <1>8, <1>9, <3>2
    <3> QED BY <1>4, <2>3, <3>3, <3>4
  <2> QED BY <2>1, <2>2, <2>3
<1> QED BY <1>5, <1>7, <1>9

(* A search for the first item whose value is above v stops.                *)
LEMMA SearchStops ==
  ASSUME NEW S, NEW s \in Seq(S), NEW value \in [S -> Int], NEW v \in Int
  PROVE  /\ \E k \in 1..(Len(s) + 1) :
              /\ \A i \in 1..(k - 1) : value[s[i]] <= v
              /\ k <= Len(s) => value[s[k]] > v
         /\ \A k \in 1..(Len(s) + 1) :
              /\ \A i \in 1..(k - 1) : value[s[i]] <= v
              /\ k <= Len(s) => value[s[k]] > v
              => StopsAt(s, value, v, k)
<1> DEFINE P == {k \in 1..(Len(s) + 1) : k <= Len(s) => value[s[k]] > v}
<1>1. Len(s) \in Nat /\ \A i \in 1..Len(s) : s[i] \in S
  BY ElementOfSeq, LenProperties
<1>2. P \subseteq Nat /\ Len(s) + 1 \in P
  BY <1>1
<1>3. PICK k \in P : \A m \in P : k <= m
  BY <1>2, LeastExists
<1>4. k \in 1..(Len(s) + 1) /\ (k <= Len(s) => value[s[k]] > v)
  BY <1>3
<1>5. ASSUME NEW i \in 1..(k - 1)
      PROVE  value[s[i]] <= v
  <2>1. i \in 1..Len(s) /\ i \notin P
    BY <1>1, <1>3, <1>4
  <2>2. value[s[i]] \in Int
    BY <1>1, <2>1
  <2> QED BY <1>1, <2>1, <2>2
<1>6. ASSUME NEW p \in 1..(Len(s) + 1),
             \A i \in 1..(p - 1) : value[s[i]] <= v,
             p <= Len(s) => value[s[p]] > v
      PROVE  StopsAt(s, value, v, p)
  <2> SUFFICES ASSUME p <= Len(s)
               PROVE  value[s[p]] >= v
    BY <1>6 DEF StopsAt
  <2>1. p \in 1..Len(s) /\ value[s[p]] > v
    BY <1>1, <1>6
  <2>2. value[s[p]] \in Int
    BY <1>1, <2>1
  <2> QED BY <2>1, <2>2
<1> QED BY <1>4, <1>5, <1>6

(* Inserting where such a search stops keeps a list free of duplicates and  *)
(* in order.                                                                *)
THEOREM InsertAtProperties ==
  ASSUME NEW S, NEW list \in Seq(S), NEW value \in [S -> Int], NEW item \in S,
         NEW k \in 1..(Len(list) + 1), StopsAt(list, value, value[item], k)
  PROVE  LET new == InsertAt(list, k, item)
         IN  /\ new \in Seq(S) /\ Len(new) = Len(list) + 1
             /\ Items(new) = Items(list) \union {item}
             /\ item \notin Items(list) /\ NoDuplicates(list) => NoDuplicates(new)
             /\ Sorted(list, value) => Sorted(new, value)
<1>1. PICK new : new = InsertAt(list, k, item)
  OBVIOUS
<1>2. new \in Seq(S) /\ InsertedAt(new, list, k, item)
  BY <1>1, InsertAtSeq
<1>3. /\ Items(new) = Items(list) \union {item}
      /\ item \notin Items(list) /\ NoDuplicates(list) => NoDuplicates(new)
      /\ Sorted(list, value) => Sorted(new, value)
  BY <1>2, InsertAtOrdered
<1>4. Len(new) = Len(list) + 1
  BY <1>2 DEF InsertedAt
<1> QED BY <1>1, <1>2, <1>3, <1>4

(* Append adds the item behind the others.                                  *)
THEOREM AppendKeepsItems ==
  ASSUME NEW S, NEW list \in Seq(S), NEW item \in S
  PROVE  LET new == Append(list, item)
         IN  /\ new \in Seq(S)
             /\ Items(new) = Items(list) \union {item}
             /\ item \notin Items(list) /\ NoDuplicates(list) => NoDuplicates(new)
<1>1. PICK new : new = Append(list, item)
  OBVIOUS
<1>2. /\ new \in Seq(S)
      /\ Len(list) \in Nat
      /\ Len(new) = Len(list) + 1
      /\ \A i \in 1..Len(list) : new[i] = list[i]
      /\ new[Len(list) + 1] = item
  BY <1>1, AppendProperties, LenProperties
<1>3. Items(new) = Items(list) \union {item}
  BY <1>2 DEF Items
<1>4. ASSUME item \notin Items(list), NoDuplicates(list)
      PROVE  NoDuplicates(new)
  BY <1>2, <1>4 DEF Items, NoDuplicates
<1> QED BY <1>1, <1>2, <1>3, <1>4

(* Closing the gap at any position keeps uniqueness and order.              *)
LEMMA RemoveAtOrdered ==
  ASSUME NEW S, NEW list \in Seq(S),
         NEW new \in Seq(S), NEW k \in 1..Len(list),
         RemovedAt(new, list, k)
  PROVE  /\ NoDuplicates(list) => Items(new) = Items(list) \ {list[k]}
         /\ NoDuplicates(list) => NoDuplicates(new)
         /\ \A value \in [S -> Int] :
              Sorted(list, value) => Sorted(new, value)
<1>1. /\ Len(list) \in Nat /\ Len(new) \in Nat
      /\ Len(list) = Len(new) + 1
      /\ k \in 1..(Len(new) + 1)
  BY LenProperties DEF RemovedAt
<1>2. ASSUME NEW i \in 1..Len(new)
      PROVE  After(k, i) \in 1..Len(list) /\ After(k, i) # k /\ new[i] = list[After(k, i)]
  <2>1. CASE i < k
    <3>1. i \in 1..(k - 1) /\ i \in 1..Len(list) /\ i # k
      BY <1>1, <2>1
    <3>2. After(k, i) = i
      BY <2>1 DEF After
    <3> QED BY <3>1, <3>2 DEF RemovedAt
  <2>2. CASE ~(i < k)
    <3>1. i \in k..(Len(list) - 1) /\ i + 1 \in 1..Len(list) /\ i + 1 # k
      BY <1>1, <2>2
    <3>2. After(k, i) = i + 1
      BY <2>2 DEF After
    <3> QED BY <3>1, <3>2 DEF RemovedAt
  <2> QED BY <2>1, <2>2
<1>3. ASSUME NEW i \in 1..Len(list), i # k
      PROVE  Before(k, i) \in 1..Len(new) /\ new[Before(k, i)] = list[i]
  <2>1. CASE i < k
    <3>1. i \in 1..(k - 1) /\ i \in 1..Len(new)
      BY <1>1, <2>1
    <3>2. Before(k, i) = i
      BY <2>1 DEF Before
    <3> QED BY <3>1, <3>2 DEF RemovedAt
  <2>2. CASE ~(i < k)
    <3>1. /\ i - 1 \in k..(Len(list) - 1)
          /\ i - 1 \in 1..Len(new)
          /\ (i - 1) + 1 = i
      BY <1>1, <1>3, <2>2
    <3>2. Before(k, i) = i - 1
      BY <2>2 DEF Before
    <3>3. new[i - 1] = list[(i - 1) + 1]
      BY <3>1 DEF RemovedAt
    <3> QED BY <3>1, <3>2, <3>3
  <2> QED BY <2>1, <2>2
<1>4. ASSUME NEW i \in 1..Len(new), NEW j \in 1..Len(new), i < j
      PROVE  After(k, i) < After(k, j)
  BY <1>1, <1>4, AfterOrder
<1>5. ASSUME NoDuplicates(list)
      PROVE  Items(new) = Items(list) \ {list[k]}
  <2>1. ASSUME NEW i \in 1..Len(new)
        PROVE  new[i] \in Items(list) /\ new[i] # list[k]
    <3>1. new[i] \in Items(list)
      BY <1>2, <2>1 DEF Items
    <3>2. list[After(k, i)] # list[k]
      <4>1. After(k, i) \in 1..Len(list) /\ (After(k, i) < k \/ k < After(k, i))
        BY <1>1, <1>2, <2>1
      <4> QED BY <1>5, <4>1 DEF NoDuplicates
    <3> QED BY <1>2, <3>1, <3>2
  <2>2. ASSUME NEW i \in 1..Len(list), list[i] # list[k]
        PROVE  list[i] \in Items(new)
    BY <1>3, <2>2 DEF Items
  <2> QED BY <2>1, <2>2 DEF Items
<1>6. ASSUME NoDuplicates(list)
      PROVE  NoDuplicates(new)
  <2>1. ASSUME NEW i \in 1..Len(new), NEW j \in 1..Len(new), i < j
        PROVE  new[i] # new[j]
    <3>1. After(k, i) \in 1..Len(list) /\ After(k, j) \in 1..Len(list) /\ After(k, i) < After(k, j)
      BY <1>2, <1>4, <2>1
    <3>2. list[After(k, i)] # list[After(k, j)]
      BY <1>6, <3>1 DEF NoDuplicates
    <3> QED BY <1>2, <3>2
  <2> QED BY <2>1 DEF NoDuplicates
<1>7. ASSUME NEW value \in [S -> Int], Sorted(list, value)
      PROVE  Sorted(new, value)
  <2> SUFFICES ASSUME NEW i \in 1..Len(new), NEW j \in 1..Len(new), i < j
               PROVE  value[new[i]] <= value[new[j]]
    BY DEF Sorted
  <2>1. value[list[After(k, i)]] <= value[list[After(k, j)]]
    BY <1>2, <1>4, <1>7 DEF Sorted
  <2> QED BY <1>2, <2>1
<1> QED BY <1>5, <1>6, <1>7

(* Without takes the item out of its list, and only that.              *)
THEOREM WithoutProperties ==
  ASSUME NEW S, NEW list \in Seq(S), NEW value \in [S -> Int], NEW item,
         NoDuplicates(list)
  PROVE  LET new == Without(list, item)
         IN  /\ new \in Seq(S)
             /\ Items(new) = Items(list) \ {item}
             /\ NoDuplicates(new)
             /\ Sorted(list, value) => Sorted(new, value)
<1>1. CASE ~ Contains(list, item)
  BY <1>1 DEF Contains, Without, Items
<1>2. CASE Contains(list, item)
  <2>1. PICK k \in 1..Len(list) :
          /\ list[k] = item
          /\ k = CHOOSE i \in 1..Len(list) : list[i] = item
    BY <1>2 DEF Contains
  <2>2. PICK new : new = RemoveAt(list, k)
    OBVIOUS
  <2>3. Without(list, item) = new
    BY <1>2, <2>1, <2>2 DEF Without
  <2>4. new \in Seq(S) /\ RemovedAt(new, list, k)
    BY <2>2, RemoveAtSeq
  <2>5. NoDuplicates(list) => Items(new) = Items(list) \ {list[k]}
    BY <2>4, RemoveAtOrdered
  <2>6. NoDuplicates(new)
    BY <2>4, RemoveAtOrdered
  <2>7. Sorted(list, value) => Sorted(new, value)
    BY <2>4, RemoveAtOrdered
  <2> QED BY <2>1, <2>3, <2>4, <2>5, <2>6, <2>7
<1> QED BY <1>1, <1>2

(* The head of an ordered list has the least value.                         *)
THEOREM HeadIsMinimum ==
  ASSUME NEW S, NEW list \in Seq(S), NEW value \in [S -> Int],
         list # <<>>, Sorted(list, value)
  PROVE  /\ Head(list) \in Items(list) /\ Head(list) \in S
         /\ \A t \in Items(list) : value[Head(list)] <= value[t]
<1>1. 1 \in 1..Len(list) /\ Head(list) = list[1]
  BY EmptySeq, HeadTailProperties, LenProperties
<1>2. ASSUME NEW i \in 1..Len(list)
      PROVE  value[list[1]] <= value[list[i]]
  <2>1. list[1] \in S /\ list[i] \in S
    BY <1>1, ElementOfSeq
  <2>2. value[list[1]] \in Int
    BY <2>1
  <2>3. CASE i = 1
    BY <2>2, <2>3
  <2>4. CASE 1 < i
    BY <1>1, <2>4 DEF Sorted
  <2> QED BY <1>1, <2>3, <2>4
<1> QED BY <1>1, <1>2, ElementOfSeq DEF Items

(* The order of a list depends on the values of its own items only.         *)
THEOREM SortedByItems ==
  ASSUME NEW list, NEW v, NEW w, Sorted(list, v),
         \A t \in Items(list) : v[t] = w[t]
  PROVE  Sorted(list, w)
BY DEF Sorted, Items

LEMMA ItemsTyped ==
  ASSUME NEW S, NEW list \in Seq(S)
  PROVE  Items(list) \subseteq S
BY DEF Items

LEMMA NonemptyHead ==
  ASSUME NEW S, NEW list \in Seq(S)
  PROVE  /\ list = <<>> <=> Items(list) = {}
         /\ list # <<>> => Head(list) \in Items(list) /\ Head(list) \in S
<1>1. list = <<>> <=> Len(list) = 0
  BY EmptySeq, LenProperties
<1>2. Len(list) \in Nat
  OBVIOUS
<1>3. Len(list) = 0 => Items(list) = {}
  BY DEF Items
<1>4. ASSUME Len(list) # 0
      PROVE  Head(list) \in Items(list) /\ Head(list) \in S
  <2>1. 1 \in 1..Len(list)
    BY <1>2, <1>4
  <2>2. Head(list) = list[1]
    BY <1>1, <1>4, HeadTailProperties
  <2> QED BY <2>1, <2>2, ItemsTyped DEF Items
<1> QED BY <1>1, <1>3, <1>4
=============================================================================

--------------------------- MODULE RTEMSTheorems ---------------------------
(***************************************************************************)
(* Proofs about RTEMSScheduler for any set of threads and jobs, any         *)
(* priorities and any deadlines, and about RTEMSPeriod: the periods         *)
(* implement RTEMSScheduler, whose theorems then hold of them too.          *)
(***************************************************************************)
EXTENDS RTEMSPeriod, OrderedSequencesTheorems

-----------------------------------------------------------------------------
(* The least of some priorities is one of them.                             *)
LEMMA LeastOfProperties ==
  ASSUME NEW nodes, DOMAIN nodes # {}, \A n \in DOMAIN nodes : nodes[n] \in Nat
  PROVE  /\ LeastOf(nodes) \in Nat
         /\ \E n \in DOMAIN nodes : nodes[n] = LeastOf(nodes)
         /\ \A n \in DOMAIN nodes : LeastOf(nodes) <= nodes[n]
<1> DEFINE P == {nodes[n] : n \in DOMAIN nodes}
<1>1. P \in SUBSET Nat /\ P # {}
  OBVIOUS
<1>2. PICK k \in P : \A m \in P : k <= m
  BY <1>1, LeastExists
<1>3. k \in P /\ \A n \in DOMAIN nodes : k <= nodes[n]
  BY <1>2
<1>4. LeastOf(nodes) \in P /\ \A n \in DOMAIN nodes : LeastOf(nodes) <= nodes[n]
  BY <1>3 DEF LeastOf
<1> QED BY <1>1, <1>4

-----------------------------------------------------------------------------
(* Enqueue puts the thread where its key belongs.                           *)

(* A tree in order: no thread twice, keys ascending.                        *)
Ordered(tree, key) ==
  tree \in Seq(AllThreads) /\ NoDuplicates(tree) /\ Sorted(tree, key)

LEMMA InsertPositionStops ==
  ASSUME NEW tree \in Seq(AllThreads), NEW key \in [AllThreads -> Nat],
         NEW p \in Nat, NEW last \in BOOLEAN
  PROVE  LET k == InsertPosition(tree, key, p, last)
         IN  k \in 1..(Len(tree) + 1) /\ StopsAt(tree, key, p, k)
<1> DEFINE P == {k \in 1..(Len(tree) + 1) :
                   k <= Len(tree) => Priority_less_equal(p, last, key[tree[k]])}
<1>1. Len(tree) \in Nat /\ \A i \in 1..Len(tree) : tree[i] \in AllThreads
  BY ElementOfSeq, LenProperties
<1>2. P \in SUBSET Nat /\ Len(tree) + 1 \in P
  BY <1>1
<1>3. PICK k \in P : \A m \in P : k <= m
  BY <1>2, LeastExists
<1>4. /\ k \in 1..(Len(tree) + 1)
      /\ k <= Len(tree) => Priority_less_equal(p, last, key[tree[k]])
  BY <1>3
<1>5. ASSUME NEW i \in 1..(k - 1)
      PROVE  ~ Priority_less_equal(p, last, key[tree[i]])
  <2>1. i \in 1..Len(tree) /\ i \notin P
    BY <1>1, <1>3, <1>4
  <2> QED BY <1>1, <2>1
<1>6. LET q == InsertPosition(tree, key, p, last)
      IN  /\ q \in 1..(Len(tree) + 1)
          /\ \A i \in 1..(q - 1) : ~ Priority_less_equal(p, last, key[tree[i]])
          /\ q <= Len(tree) => Priority_less_equal(p, last, key[tree[q]])
  BY <1>4, <1>5 DEF InsertPosition
<1>7. PICK q : q = InsertPosition(tree, key, p, last)
  OBVIOUS
<1>8. ASSUME NEW i \in 1..(q - 1)
      PROVE  key[tree[i]] <= p
  <2>1. i \in 1..Len(tree)
    BY <1>1, <1>6, <1>7
  <2>2. key[tree[i]] \in Nat
    BY <1>1, <2>1
  <2>3. ~ Priority_less_equal(p, last, key[tree[i]])
    BY <1>6, <1>7
  <2> QED BY <2>2, <2>3 DEF Priority_less_equal
<1>9. ASSUME q <= Len(tree)
      PROVE  key[tree[q]] >= p
  <2>1. q \in 1..Len(tree)
    BY <1>1, <1>6, <1>7, <1>9
  <2>2. key[tree[q]] \in Nat
    BY <1>1, <2>1
  <2>3. Priority_less_equal(p, last, key[tree[q]])
    BY <1>6, <1>7, <1>9
  <2> QED BY <2>2, <2>3 DEF Priority_less_equal
<1> QED BY <1>6, <1>7, <1>8, <1>9 DEF StopsAt

LEMMA EnqueueProperties ==
  ASSUME NEW tree, NEW t \in AllThreads, NEW p \in Nat, NEW last \in BOOLEAN,
         node_priority \in [AllThreads -> Nat],
         Ordered(tree, node_priority), t \notin Items(tree)
  PROVE  LET new == Enqueue(tree, t, p, last)
         IN  /\ Ordered(new, [node_priority EXCEPT ![t] = p])
             /\ Items(new) = Items(tree) \union {t}
<1>1. PICK key : key = [node_priority EXCEPT ![t] = p]
  OBVIOUS
<1>2. key \in [AllThreads -> Nat] /\ key \in [AllThreads -> Int] /\ key[t] = p
  BY <1>1
<1>3. tree \in Seq(AllThreads) /\ NoDuplicates(tree) /\ Sorted(tree, node_priority)
  BY DEF Ordered
<1>4. \A u \in Items(tree) : u \in AllThreads /\ u # t
  BY <1>3, ElementOfSeq DEF Items
<1>5. \A u \in Items(tree) : node_priority[u] = key[u]
  BY <1>1, <1>4
<1>6. Sorted(tree, key)
  BY <1>3, <1>5, SortedByItems
<1>7. PICK k \in 1..(Len(tree) + 1) :
        /\ k = InsertPosition(tree, node_priority, p, last)
        /\ StopsAt(tree, node_priority, p, k)
  BY <1>3, InsertPositionStops
<1>8. StopsAt(tree, key, key[t], k)
  <2>1. Len(tree) \in Nat
    BY <1>3, LenProperties
  <2>2. \A i \in 1..Len(tree) : node_priority[tree[i]] = key[tree[i]]
    BY <1>5 DEF Items
  <2> QED BY <1>2, <1>7, <2>1, <2>2 DEF StopsAt
<1>9. PICK new : new = InsertAt(tree, k, t)
  OBVIOUS
<1>10. new \in Seq(AllThreads) /\ InsertedAt(new, tree, k, t)
  BY <1>3, <1>9, InsertAtSeq
<1>11. /\ Items(new) = Items(tree) \union {t}
       /\ NoDuplicates(new) /\ Sorted(new, key)
  BY <1>2, <1>3, <1>6, <1>8, <1>10, InsertAtOrdered
<1>12. Enqueue(tree, t, p, last) = new
  BY <1>7, <1>9 DEF Enqueue
<1> QED BY <1>1, <1>10, <1>11, <1>12 DEF Ordered

LEMMA ExtractProperties ==
  ASSUME NEW tree, NEW t, node_priority \in [AllThreads -> Nat],
         Ordered(tree, node_priority)
  PROVE  /\ Ordered(Extract(tree, t), node_priority)
         /\ Items(Extract(tree, t)) = Items(tree) \ {t}
<1>1. tree \in Seq(AllThreads) /\ NoDuplicates(tree) /\ Sorted(tree, node_priority)
  BY DEF Ordered
<1>2. node_priority \in [AllThreads -> Int]
  OBVIOUS
<1> QED BY <1>1, <1>2, WithoutProperties DEF Extract, Ordered

LEMMA HighestReadyProperties ==
  ASSUME NEW tree, NEW key \in [AllThreads -> Nat], Ordered(tree, key),
         Items(tree) # {}
  PROVE  /\ Get_highest_ready(tree) \in Items(tree)
         /\ Get_highest_ready(tree) \in AllThreads
         /\ \A u \in Items(tree) : key[Get_highest_ready(tree)] <= key[u]
<1>1. tree \in Seq(AllThreads) /\ Sorted(tree, key) /\ key \in [AllThreads -> Int]
  BY DEF Ordered
<1>2. tree # <<>>
  BY <1>1, LenProperties, EmptySeq DEF Items
<1> QED BY <1>1, <1>2, HeadIsMinimum DEF Get_highest_ready

-----------------------------------------------------------------------------
(* The operations of the scheduler.                                         *)

(* What the scheduler has at all times.                                     *)
Scheduling ==
  /\ node_priority \in [AllThreads -> Nat]
  /\ Ordered(ready, node_priority)
  /\ heir \in Items(ready) /\ heir \in AllThreads
  /\ dispatch_necessary \in BOOLEAN

HeirIsEarliest ==
  \A u \in Items(ready) : node_priority[heir] <= node_priority[u]

(* The heir may be another thread now, and will be dispatched then.         *)
HeirStep ==
  \/ UNCHANGED <<heir, dispatch_necessary>>
  \/ dispatch_necessary' = TRUE

(* Block takes the thread out and keeps the heir earliest.                  *)
LEMMA BlockStep ==
  ASSUME NEW t \in AllThreads, Scheduling, Idle \in Items(ready) \ {t},
         Scheduler_EDF_Block(t)
  PROVE  /\ Scheduling' /\ HeirStep
         /\ Items(ready') = Items(ready) \ {t}
         /\ HeirIsEarliest => HeirIsEarliest'
         /\ heir' = heir \/ HeirIsEarliest'
<1>1. /\ Ordered(ready', node_priority) /\ Items(ready') = Items(ready) \ {t}
      /\ node_priority' = node_priority
  BY ExtractProperties DEF Scheduling, Scheduler_EDF_Block,
                          Scheduler_Generic_block, Scheduler_uniprocessor_Block
<1>2. \/ heir' = Get_highest_ready(ready') /\ HeirStep /\ dispatch_necessary' \in BOOLEAN
      \/ t # heir /\ heir' = heir /\ dispatch_necessary' = dispatch_necessary
  BY DEF Scheduler_EDF_Block, Scheduler_Generic_block,
         Scheduler_uniprocessor_Block, Update_heir_or_force, Update_heir,
         decisionVars, HeirStep, Scheduling
<1>3. CASE heir' = Get_highest_ready(ready') /\ HeirStep /\ dispatch_necessary' \in BOOLEAN
  <2>1. /\ heir' \in Items(ready') /\ heir' \in AllThreads
        /\ \A u \in Items(ready') : node_priority[heir'] <= node_priority[u]
    BY <1>1, <1>3, HighestReadyProperties DEF Scheduling
  <2> QED BY <1>1, <1>3, <2>1 DEF Scheduling, HeirIsEarliest
<1>4. CASE t # heir /\ heir' = heir /\ dispatch_necessary' = dispatch_necessary
  BY <1>1, <1>4 DEF Scheduling, HeirIsEarliest, HeirStep
<1> QED BY <1>2, <1>3, <1>4

(* The heir is replaced when it blocks, in version 5.1 also when the        *)
(* executing thread does.                                                   *)
LEMMA BlockReplacesHeir ==
  ASSUME NEW t, Scheduler_EDF_Block(t), heir' # heir
  PROVE  t = heir \/ (Version = "5.1" /\ t = executing)
<1>1. CASE Version = "5.1"
  <2>1. Scheduler_Generic_block(t)
    BY <1>1 DEF Scheduler_EDF_Block
  <2> QED BY <1>1, <2>1 DEF Scheduler_Generic_block, Update_heir_or_force,
                                 Update_heir, decisionVars
<1>2. CASE Version # "5.1"
  <2>1. Scheduler_uniprocessor_Block(t)
    BY <1>2 DEF Scheduler_EDF_Block
  <2> QED BY <2>1 DEF Scheduler_uniprocessor_Block, Update_heir, decisionVars
<1> QED BY <1>1, <1>2

(* Unblock puts the thread in with its latest priority.  It compares with   *)
(* the aggregation of the heir: the heir stays earliest when that is its    *)
(* key in the tree.                                                         *)
LEMMA UnblockStep ==
  ASSUME NEW t \in AllThreads, Scheduling, t \notin Items(ready),
         value[t].priority \in Nat, value[t].priority # Pseudo_ISR,
         Scheduler_EDF_Unblock(t)
  PROVE  /\ Scheduling' /\ HeirStep
         /\ Items(ready') = Items(ready) \union {t}
         /\ node_priority' = [node_priority EXCEPT ![t] = value[t].priority]
         /\ /\ node_priority[heir] = aggregate[heir]
            /\ is_preemptible[heir] => HeirIsEarliest
            => (is_preemptible[heir'] => HeirIsEarliest')
<1> DEFINE p == value[t].priority
<1>1. /\ node_priority' = [node_priority EXCEPT ![t] = p]
      /\ ready' = Enqueue(ready, t, p, TRUE)
  BY DEF Scheduler_EDF_Unblock
<1>2. Ordered(ready', node_priority') /\ Items(ready') = Items(ready) \union {t}
  BY <1>1, EnqueueProperties DEF Scheduling
<1>3. /\ node_priority' \in [AllThreads -> Nat]
      /\ node_priority'[t] = p
      /\ \A u \in AllThreads \ {t} : node_priority'[u] = node_priority[u]
  BY <1>1 DEF Scheduling
<1>4. \A u \in Items(ready) : u \in AllThreads \ {t}
  BY ElementOfSeq DEF Items, Scheduling, Ordered
<1>5. CASE heir' = t /\ dispatch_necessary' = TRUE /\ p < aggregate[heir] /\ is_preemptible[heir]
  <2>1. ASSUME node_priority[heir] = aggregate[heir], HeirIsEarliest
        PROVE  HeirIsEarliest'
    <3> SUFFICES ASSUME NEW u \in Items(ready) \union {t}
                 PROVE  node_priority'[t] <= node_priority'[u]
      BY <1>2, <1>5 DEF HeirIsEarliest
    <3>1. CASE u = t
      BY <1>3, <3>1
    <3>2. CASE u # t
      <4>1. u \in Items(ready) /\ u \in AllThreads \ {t} /\ heir \in AllThreads
        BY <1>4, <3>2 DEF Scheduling
      <4>2. node_priority[heir] <= node_priority[u] /\ p < node_priority[heir]
        BY <1>5, <2>1, <4>1 DEF HeirIsEarliest
      <4>3. node_priority[heir] \in Nat /\ node_priority[u] \in Nat /\ p \in Nat
        BY <4>1 DEF Scheduling
      <4>4. p <= node_priority[u]
        BY <4>2, <4>3
      <4> QED BY <1>3, <4>1, <4>4
    <3> QED BY <3>1, <3>2
  <2> QED BY <1>1, <1>2, <1>3, <1>5, <2>1 DEF Scheduling, HeirStep
<1>6. CASE /\ heir' = heir /\ dispatch_necessary' = dispatch_necessary
           /\ p < aggregate[heir] => ~ is_preemptible[heir]
  <2>1. ASSUME node_priority[heir] = aggregate[heir], is_preemptible[heir],
               HeirIsEarliest
        PROVE  HeirIsEarliest'
    <3> SUFFICES ASSUME NEW u \in Items(ready) \union {t}
                 PROVE  node_priority'[heir] <= node_priority'[u]
      BY <1>2, <1>6 DEF HeirIsEarliest
    <3>1. heir \in AllThreads \ {t}
      BY <1>4 DEF Scheduling
    <3>2. CASE u = t
      <4>1. ~ (p < node_priority[heir]) /\ node_priority[heir] \in Nat /\ p \in Nat
        BY <1>6, <2>1, <3>1 DEF Scheduling
      <4>2. node_priority[heir] <= p
        BY <4>1
      <4> QED BY <1>3, <3>1, <3>2, <4>2
    <3>3. CASE u # t
      BY <1>3, <1>4, <2>1, <3>1, <3>3 DEF HeirIsEarliest
    <3> QED BY <3>2, <3>3
  <2> QED BY <1>1, <1>2, <1>3, <1>6, <2>1 DEF Scheduling, HeirStep
<1>7. \/ /\ heir' = t /\ dispatch_necessary' = TRUE
         /\ p < aggregate[heir] /\ is_preemptible[heir]
      \/ /\ heir' = heir /\ dispatch_necessary' = dispatch_necessary
         /\ p < aggregate[heir] => ~ is_preemptible[heir]
  <2>1. heir # t
    BY DEF Scheduling
  <2>2. p # Pseudo_ISR
    OBVIOUS
  <2> QED BY <2>1, <2>2 DEF Scheduler_EDF_Unblock, Unblock_or_force,
                      Scheduler_uniprocessor_Unblock, Update_heir_or_force,
                      Update_heir_if_preemptible, Update_heir, decisionVars
<1> QED BY <1>5, <1>6, <1>7

(* Electing the first thread of a tree that has just been put in order.     *)
LEMMA ElectIfPreemptible ==
  ASSUME node_priority' \in [AllThreads -> Nat], Ordered(ready', node_priority'),
         heir \in Items(ready') /\ heir \in AllThreads,
         dispatch_necessary \in BOOLEAN, is_preemptible' = is_preemptible,
         Update_heir_if_preemptible(Get_highest_ready(ready'))
  PROVE  Scheduling' /\ HeirStep /\ (is_preemptible'[heir'] => HeirIsEarliest')
<1> DEFINE first == Get_highest_ready(ready')
<1>1. /\ first \in Items(ready') /\ first \in AllThreads
      /\ \A u \in Items(ready') : node_priority'[first] <= node_priority'[u]
  BY HighestReadyProperties
<1>2. \/ heir' = first /\ dispatch_necessary' = TRUE
      \/ /\ heir' = heir /\ dispatch_necessary' = dispatch_necessary
         /\ heir = first \/ ~ is_preemptible[heir]
  BY DEF Update_heir_if_preemptible, Update_heir, decisionVars
<1>3. Scheduling' /\ HeirStep
  BY <1>1, <1>2 DEF Scheduling, HeirStep
<1>4. heir' = first \/ ~ is_preemptible'[heir']
  BY <1>2
<1> HIDE DEF first
<1>5. heir' = first => HeirIsEarliest'
  BY <1>1 DEF HeirIsEarliest
<1> QED BY <1>3, <1>4, <1>5

LEMMA YieldStep ==
  ASSUME NEW t \in Items(ready), Scheduling, Scheduler_EDF_Yield(t)
  PROVE  /\ Scheduling' /\ HeirStep /\ HeirIsEarliest'
         /\ Items(ready') = Items(ready) /\ node_priority' = node_priority
<1>1. t \in AllThreads
  BY ElementOfSeq DEF Items, Scheduling, Ordered
<1>2. /\ Ordered(Extract(ready, t), node_priority)
      /\ Items(Extract(ready, t)) = Items(ready) \ {t}
  BY ExtractProperties DEF Scheduling
<1>3. /\ ready' = Enqueue(Extract(ready, t), t, node_priority[t], FALSE)
      /\ node_priority' = node_priority
  BY DEF Scheduler_EDF_Yield
<1>4. node_priority[t] \in Nat /\ node_priority = [node_priority EXCEPT ![t] = node_priority[t]]
  BY <1>1 DEF Scheduling
<1>5. /\ Ordered(ready', [node_priority EXCEPT ![t] = node_priority[t]])
      /\ Items(ready') = (Items(ready) \ {t}) \union {t}
  BY <1>1, <1>2, <1>3, <1>4, EnqueueProperties DEF Scheduling
<1>6. Ordered(ready', node_priority') /\ Items(ready') = Items(ready)
  BY <1>3, <1>4, <1>5
<1> DEFINE first == Get_highest_ready(ready')
<1>7. /\ first \in Items(ready') /\ first \in AllThreads
      /\ \A u \in Items(ready') : node_priority'[first] <= node_priority'[u]
  BY <1>3, <1>6, HighestReadyProperties DEF Scheduling
<1>8. heir' = first /\ HeirStep /\ dispatch_necessary' \in BOOLEAN
  BY DEF Scheduler_EDF_Yield, Update_heir_if_necessary, Update_heir,
         decisionVars, Scheduling, HeirStep
<1> QED BY <1>3, <1>6, <1>7, <1>8 DEF Scheduling, HeirIsEarliest

(* Update_priority leaves everything alone or brings the key up to date and *)
(* elects the heir anew.                                                    *)
LEMMA UpdatePriorityStep ==
  ASSUME NEW t \in AllThreads, Scheduling, value[t].priority \in Nat,
         value[t].last \in BOOLEAN, is_preemptible' = is_preemptible,
         Is_ready(t) => t \in Items(ready), Scheduler_EDF_Update_priority(t)
  PROVE  /\ Scheduling' /\ HeirStep /\ Items(ready') = Items(ready)
         /\ \/ /\ UNCHANGED <<ready, node_priority, heir, dispatch_necessary>>
               /\ Is_ready(t) => node_priority[t] = value[t].priority
            \/ /\ node_priority' = [node_priority EXCEPT ![t] = value[t].priority]
               /\ is_preemptible'[heir'] => HeirIsEarliest'
<1> DEFINE p == value[t].priority
<1>1. CASE Is_ready(t) /\ p # node_priority[t]
  <2>1. /\ node_priority' = [node_priority EXCEPT ![t] = p]
        /\ ready' = Enqueue(Extract(ready, t), t, p, value[t].last)
        /\ Update_heir_if_preemptible(Get_highest_ready(ready'))
    BY <1>1 DEF Scheduler_EDF_Update_priority
  <2>2. /\ Ordered(Extract(ready, t), node_priority)
        /\ Items(Extract(ready, t)) = Items(ready) \ {t}
    BY ExtractProperties DEF Scheduling
  <2>3. /\ Ordered(ready', node_priority')
        /\ Items(ready') = (Items(ready) \ {t}) \union {t}
    <3>1. PICK tree : tree = Extract(ready, t)
      OBVIOUS
    <3>2. PICK last \in BOOLEAN : last = value[t].last
      OBVIOUS
    <3>3. Ordered(tree, node_priority) /\ t \notin Items(tree)
      BY <2>2, <3>1
    <3>4. ready' = Enqueue(tree, t, p, last)
      BY <2>1, <3>1, <3>2
    <3>5. /\ Ordered(ready', [node_priority EXCEPT ![t] = p])
          /\ Items(ready') = Items(tree) \union {t}
      BY <3>3, <3>4, EnqueueProperties DEF Scheduling
    <3> QED BY <2>1, <2>2, <3>1, <3>5
  <2>4. Items(ready') = Items(ready)
    BY <1>1, <2>3
  <2>5. node_priority' \in [AllThreads -> Nat]
    BY <2>1 DEF Scheduling
  <2>6. Scheduling' /\ HeirStep /\ (is_preemptible'[heir'] => HeirIsEarliest')
    BY <2>1, <2>3, <2>4, <2>5, ElectIfPreemptible DEF Scheduling
  <2> QED BY <2>1, <2>4, <2>6
<1>2. CASE ~ (Is_ready(t) /\ p # node_priority[t])
  BY <1>2 DEF Scheduler_EDF_Update_priority, treeVars, decisionVars,
              Scheduling, HeirStep
<1> QED BY <1>1, <1>2

-----------------------------------------------------------------------------
(* Aggregations.                                                            *)

(* The priority nodes of a thread, and the least of them.                   *)
WellFormed(nodes) ==
  /\ nodes \in [DOMAIN nodes -> Nat]
  /\ Real \in DOMAIN nodes /\ DOMAIN nodes \subseteq Nodes
  /\ \A n \in DOMAIN nodes : nodes[n] # Pseudo_ISR

(* Neither a deadline nor a fixed priority is that of an interrupt.         *)
LEMMA NotPseudoISR ==
  ASSUME ConstantsAssumption
  PROVE  /\ \A d \in Deadlines : d \in Nat /\ d # Pseudo_ISR
         /\ \A p \in Nat \ {0} : Map_priority(p) \in Nat /\ Map_priority(p) # Pseudo_ISR
BY DEF ConstantsAssumption, Map_priority, Pseudo_ISR

IsMinimum(p, nodes) ==
  /\ p \in Nat
  /\ \E n \in DOMAIN nodes : nodes[n] = p
  /\ \A n \in DOMAIN nodes : p <= nodes[n]

Aggregations ==
  /\ contributors = [t \in AllThreads |-> contributors[t]]
  /\ value \in [AllThreads -> [priority : Nat, last : BOOLEAN]]
  /\ aggregate \in [AllThreads -> Nat]
  /\ updates \in [Contexts -> SUBSET AllThreads]
  /\ \A t \in AllThreads :
       /\ WellFormed(contributors[t])
       /\ IsMinimum(aggregate[t], contributors[t])
       /\ value[t].priority = aggregate[t]

(* What a change of one node of thread o in a context does.                 *)
PriorityStep(o, context) ==
  /\ Aggregations'
  /\ \A t \in AllThreads : t # o => aggregate'[t] = aggregate[t]
  /\ aggregate'[o] = aggregate[o] \/ o \in updates'[context]
  /\ \A c \in Contexts : updates[c] \subseteq updates'[c]

LEMMA MinimumUnchanged ==
  ASSUME Aggregations, NEW o \in AllThreads, NEW context \in Contexts,
         NEW nodes, WellFormed(nodes), IsMinimum(aggregate[o], nodes),
         contributors' = [contributors EXCEPT ![o] = nodes],
         UNCHANGED <<aggregate, value, updates>>
  PROVE  PriorityStep(o, context)
<1>1. /\ contributors' = [t \in AllThreads |-> contributors'[t]]
      /\ contributors'[o] = nodes
      /\ \A t \in AllThreads \ {o} : contributors'[t] = contributors[t]
  BY DEF Aggregations
<1>2. Aggregations'
  BY <1>1 DEF Aggregations
<1> QED BY <1>2 DEF PriorityStep

LEMMA MinimumChanged ==
  ASSUME Aggregations, NEW o \in AllThreads, NEW context \in Contexts,
         NEW nodes, WellFormed(nodes), NEW p, IsMinimum(p, nodes),
         NEW last \in BOOLEAN,
         contributors' = [contributors EXCEPT ![o] = nodes],
         aggregate' = [aggregate EXCEPT ![o] = p],
         value' = [value EXCEPT ![o] = [priority |-> p, last |-> last]],
         updates' = [updates EXCEPT ![context] = @ \union {o}]
  PROVE  PriorityStep(o, context)
<1>1. /\ contributors' = [t \in AllThreads |-> contributors'[t]]
      /\ contributors'[o] = nodes
      /\ \A t \in AllThreads \ {o} : contributors'[t] = contributors[t]
  BY DEF Aggregations
<1>2. p \in Nat
  BY DEF IsMinimum
<1>3. /\ aggregate' \in [AllThreads -> Nat]
      /\ aggregate'[o] = p
      /\ \A t \in AllThreads \ {o} : aggregate'[t] = aggregate[t]
  BY <1>2 DEF Aggregations
<1>4. /\ value' \in [AllThreads -> [priority : Nat, last : BOOLEAN]]
      /\ value'[o].priority = p
      /\ \A t \in AllThreads \ {o} : value'[t] = value[t]
  BY <1>2 DEF Aggregations
<1>5. /\ updates' \in [Contexts -> SUBSET AllThreads]
      /\ updates'[context] = updates[context] \union {o}
      /\ \A c \in Contexts \ {context} : updates'[c] = updates[c]
  BY DEF Aggregations
<1>6. ASSUME NEW t \in AllThreads
      PROVE  /\ WellFormed(contributors'[t])
             /\ IsMinimum(aggregate'[t], contributors'[t])
             /\ value'[t].priority = aggregate'[t]
  <2>1. CASE t = o
    BY <1>1, <1>3, <1>4, <2>1
  <2>2. CASE t # o
    BY <1>1, <1>3, <1>4, <2>2 DEF Aggregations
  <2> QED BY <2>1, <2>2
<1>7. Aggregations'
  BY <1>1, <1>3, <1>4, <1>5, <1>6 DEF Aggregations
<1> QED BY <1>3, <1>5, <1>7 DEF PriorityStep

(* Adding a node that is not there yet.                                     *)
LEMMA AddStep ==
  ASSUME Aggregations, NEW o \in AllThreads, NEW context \in Contexts,
         NEW node \in Nodes, node \notin DOMAIN contributors[o],
         NEW p \in Nat, p # Pseudo_ISR,
         Thread_Priority_add(o, node, p, context)
  PROVE  PriorityStep(o, context)
<1>1. PICK old : old = contributors[o]
  OBVIOUS
<1>2. PICK nodes : nodes = [n \in DOMAIN old \union {node} |->
                              IF n = node THEN p ELSE old[n]]
  OBVIOUS
<1>3. /\ contributors' = [contributors EXCEPT ![o] = nodes]
      /\ Priority_action(o, \A n \in DOMAIN old : p < old[n], p, TRUE, context)
  BY <1>1, <1>2 DEF Thread_Priority_add
<1>4. /\ WellFormed(old) /\ IsMinimum(aggregate[o], old)
      /\ node \notin DOMAIN old
  BY <1>1 DEF Aggregations
<1>5. WellFormed(nodes)
  BY <1>2, <1>4 DEF WellFormed
<1>6. /\ DOMAIN nodes = DOMAIN old \union {node} /\ nodes[node] = p
      /\ \A n \in DOMAIN old : nodes[n] = old[n] /\ old[n] \in Nat
  BY <1>2, <1>4 DEF WellFormed
<1>7. CASE \A n \in DOMAIN old : p < old[n]
  <2>1. IsMinimum(p, nodes)
    BY <1>6, <1>7 DEF IsMinimum
  <2>2. /\ aggregate' = [aggregate EXCEPT ![o] = p]
        /\ value' = [value EXCEPT ![o] = [priority |-> p, last |-> TRUE]]
        /\ updates' = [updates EXCEPT ![context] = @ \union {o}]
    BY <1>3, <1>7 DEF Priority_action
  <2> QED BY <1>3, <1>5, <2>1, <2>2, MinimumChanged
<1>8. CASE ~ \A n \in DOMAIN old : p < old[n]
  <2>1. PICK n \in DOMAIN old : ~ (p < old[n])
    BY <1>8
  <2>2. aggregate[o] \in Nat /\ aggregate[o] <= old[n] /\ old[n] \in Nat
    BY <1>4, <1>6 DEF IsMinimum
  <2>3. aggregate[o] <= p
    BY <2>1, <2>2
  <2>4. IsMinimum(aggregate[o], nodes)
    BY <1>4, <1>6, <2>3 DEF IsMinimum
  <2>5. UNCHANGED <<aggregate, value, updates>>
    BY <1>3, <1>8 DEF Priority_action
  <2> QED BY <1>3, <1>5, <2>4, <2>5, MinimumUnchanged
<1> QED BY <1>7, <1>8

(* The least of the nodes of a thread is their minimum.                     *)
LEMMA LeastIsMinimum ==
  ASSUME NEW nodes, WellFormed(nodes)
  PROVE  IsMinimum(LeastOf(nodes), nodes)
BY LeastOfProperties DEF WellFormed, IsMinimum

LEMMA MinimumIsUnique ==
  ASSUME NEW nodes, WellFormed(nodes), NEW p, IsMinimum(p, nodes),
         NEW q, IsMinimum(q, nodes)
  PROVE  p = q
<1>1. PICK n \in DOMAIN nodes : nodes[n] = p
  BY DEF IsMinimum
<1>2. PICK m \in DOMAIN nodes : nodes[m] = q
  BY DEF IsMinimum
<1>3. p \in Nat /\ q \in Nat /\ q <= p /\ p <= q
  BY <1>1, <1>2 DEF IsMinimum
<1> QED BY <1>3

(* Changing the priority of a node.                                         *)
LEMMA ChangedStep ==
  ASSUME Aggregations, NEW o \in AllThreads, NEW context \in Contexts,
         NEW node \in Nodes, NEW p \in Nat, p # Pseudo_ISR,
         NEW last \in BOOLEAN,
         Thread_Priority_changed(o, node, p, last, context)
  PROVE  PriorityStep(o, context)
<1>1. PICK old : old = contributors[o]
  OBVIOUS
<1>2. PICK nodes : nodes = [n \in DOMAIN old |-> IF n = node THEN p ELSE old[n]]
  OBVIOUS
<1>3. contributors' = [contributors EXCEPT ![o] = nodes]
  BY <1>1, <1>2 DEF Thread_Priority_changed
<1>4. contributors'[o] = nodes
  BY <1>3 DEF Aggregations
<1>5. WellFormed(old)
  BY <1>1 DEF Aggregations
<1>6. WellFormed(nodes)
  BY <1>2, <1>5 DEF WellFormed
<1>7. PICK min : min = LeastOf(nodes) /\ IsMinimum(min, nodes)
  BY <1>6, LeastIsMinimum
<1>8. Priority_action(o, min # aggregate[o], min, last, context)
  BY <1>4, <1>7 DEF Thread_Priority_changed
<1>9. CASE min # aggregate[o]
  <2>1. /\ aggregate' = [aggregate EXCEPT ![o] = min]
        /\ value' = [value EXCEPT ![o] = [priority |-> min, last |-> last]]
        /\ updates' = [updates EXCEPT ![context] = @ \union {o}]
    BY <1>8, <1>9 DEF Priority_action
  <2> QED BY <1>3, <1>6, <1>7, <2>1, MinimumChanged
<1>10. CASE min = aggregate[o]
  <2>1. UNCHANGED <<aggregate, value, updates>>
    BY <1>8, <1>10 DEF Priority_action
  <2> QED BY <1>3, <1>6, <1>7, <1>10, <2>1, MinimumUnchanged
<1> QED BY <1>9, <1>10

(* Removing the node of a job.                                              *)
LEMMA RemoveStep ==
  ASSUME Aggregations, NEW o \in AllThreads, NEW context \in Contexts,
         NEW node \in DOMAIN contributors[o], node # Real,
         Thread_Priority_remove(o, node, context)
  PROVE  PriorityStep(o, context)
<1>1. PICK old : old = contributors[o]
  OBVIOUS
<1>2. PICK nodes : nodes = [n \in DOMAIN old \ {node} |-> old[n]]
  OBVIOUS
<1>3. contributors' = [contributors EXCEPT ![o] = nodes]
  BY <1>1, <1>2 DEF Thread_Priority_remove
<1>4. contributors'[o] = nodes
  BY <1>3 DEF Aggregations
<1>5. WellFormed(old) /\ IsMinimum(aggregate[o], old) /\ node \in DOMAIN old
  BY <1>1 DEF Aggregations
<1>6. WellFormed(nodes)
  BY <1>2, <1>5 DEF WellFormed
<1>7. /\ DOMAIN nodes = DOMAIN old \ {node}
      /\ \A n \in DOMAIN nodes : nodes[n] = old[n] /\ old[n] \in Nat
      /\ old[node] \in Nat
  BY <1>2, <1>5 DEF WellFormed
<1>8. PICK min : min = LeastOf(nodes) /\ IsMinimum(min, nodes)
  BY <1>6, LeastIsMinimum
<1>9. Priority_action(o, old[node] < min, min, FALSE, context)
  BY <1>1, <1>4, <1>8 DEF Thread_Priority_remove
<1>10. CASE old[node] < min
  <2>1. /\ aggregate' = [aggregate EXCEPT ![o] = min]
        /\ value' = [value EXCEPT ![o] = [priority |-> min, last |-> FALSE]]
        /\ updates' = [updates EXCEPT ![context] = @ \union {o}]
    BY <1>9, <1>10 DEF Priority_action
  <2> QED BY <1>3, <1>6, <1>8, <2>1, MinimumChanged
<1>11. CASE ~ (old[node] < min)
  <2>1. min <= old[node] /\ min \in Nat
    BY <1>7, <1>8, <1>11 DEF IsMinimum
  <2>2. IsMinimum(min, old)
    BY <1>7, <1>8, <2>1 DEF IsMinimum
  <2>3. min = aggregate[o]
    BY <1>5, <2>2, MinimumIsUnique
  <2>4. UNCHANGED <<aggregate, value, updates>>
    BY <1>9, <1>11 DEF Priority_action
  <2> QED BY <1>3, <1>6, <1>8, <2>3, <2>4, MinimumUnchanged
<1> QED BY <1>10, <1>11

LEMMA ReleaseStep ==
  ASSUME ConstantsAssumption, Aggregations, NEW j \in Jobs,
         NEW deadline \in Deadlines, NEW context \in Contexts,
         Scheduler_EDF_Release_job(j, deadline, context)
  PROVE  Owner[j] \in AllThreads /\ PriorityStep(Owner[j], context)
<1>1. /\ Owner[j] \in AllThreads /\ j \in Nodes
      /\ deadline \in Nat /\ deadline # Pseudo_ISR
  BY NotPseudoISR DEF ConstantsAssumption, AllThreads, Nodes
<1>2. CASE Is_active(j)
  <2>1. Thread_Priority_changed(Owner[j], j, deadline, TRUE, context)
    BY <1>2 DEF Scheduler_EDF_Release_job
  <2> QED BY <1>1, <2>1, ChangedStep
<1>3. CASE ~ Is_active(j)
  <2>1. Thread_Priority_add(Owner[j], j, deadline, context)
    BY <1>3 DEF Scheduler_EDF_Release_job
  <2>2. j \notin DOMAIN contributors[Owner[j]]
    BY <1>3 DEF Is_active
  <2> QED BY <1>1, <2>1, <2>2, AddStep
<1> QED BY <1>2, <1>3

LEMMA CancelStep ==
  ASSUME ConstantsAssumption, Aggregations, NEW j \in Jobs,
         NEW context \in Contexts, Scheduler_EDF_Cancel_job(j, context)
  PROVE  Owner[j] \in AllThreads /\ PriorityStep(Owner[j], context)
<1>1. Owner[j] \in AllThreads /\ j # Real
  BY DEF ConstantsAssumption, AllThreads
<1>2. CASE Is_active(j)
  <2>1. Thread_Priority_remove(Owner[j], j, context)
    BY <1>2 DEF Scheduler_EDF_Cancel_job
  <2>2. j \in DOMAIN contributors[Owner[j]]
    BY <1>2 DEF Is_active
  <2> QED BY <1>1, <2>1, <2>2, RemoveStep
<1>3. CASE ~ Is_active(j)
  <2>1. UNCHANGED <<value, contributors, aggregate, updates>>
    BY <1>3 DEF Scheduler_EDF_Cancel_job, priorityVars
  <2>2. Aggregations'
    BY <2>1 DEF Aggregations
  <2> QED BY <1>1, <2>1, <2>2 DEF PriorityStep
<1> QED BY <1>2, <1>3

-----------------------------------------------------------------------------
(* The inductive invariant.                                                 *)

ThreadsOK ==
  /\ current_state \in [AllThreads -> SUBSET States]
  /\ is_preemptible \in [AllThreads -> BOOLEAN]
  /\ executing \in AllThreads
  /\ preempt_enabled \in SUBSET Threads
  /\ current_state[Idle] = {}
  /\ Items(ready) = {t \in AllThreads : Is_ready(t)}

NothingStale ==
  \A t \in AllThreads : Is_ready(t) => node_priority[t] = aggregate[t]

(* The heir is right as soon as no key is out of date and nobody is about   *)
(* to call the scheduler for having enabled pre-emption.                    *)
HeirInv ==
  preempt_enabled = {} /\ NothingStale =>
    (is_preemptible[heir] => HeirIsEarliest)

DispatchIsDue == executing # heir => dispatch_necessary

IInv ==
  /\ Aggregations /\ Scheduling /\ ThreadsOK
  /\ NoUpdateIsLost /\ HeirInv /\ DispatchIsDue

(* Without outstanding updates no key is out of date.                       *)
LEMMA NoUpdatesNothingStale ==
  ASSUME NoUpdateIsLost, updates = [c \in Contexts |-> {}]
  PROVE  NothingStale
BY DEF NoUpdateIsLost, NothingStale

LEMMA DispatchStaysDue ==
  ASSUME DispatchIsDue, HeirStep, executing' = executing
  PROVE  DispatchIsDue'
BY DEF DispatchIsDue, HeirStep

LEMMA InitInv ==
  ASSUME ConstantsAssumption, Init
  PROVE  IInv
<1>1. \A t \in AllThreads : /\ Map_priority(InitialPriority[t]) \in Nat
                            /\ Map_priority(InitialPriority[t]) # Pseudo_ISR
  BY NotPseudoISR DEF ConstantsAssumption
<1>2. PICK fixed :
        /\ fixed = [t \in AllThreads |-> Map_priority(InitialPriority[t])]
        /\ fixed \in [AllThreads -> Nat]
        /\ \A t \in AllThreads : fixed[t] # Pseudo_ISR
  <2> DEFINE f == [t \in AllThreads |-> Map_priority(InitialPriority[t])]
  <2>1. f \in [AllThreads -> Nat]
    BY <1>1
  <2>2. \A t \in AllThreads : f[t] # Pseudo_ISR
    BY <1>1
  <2> QED BY <2>1, <2>2
<1>3. /\ ready = <<Idle>> /\ node_priority = fixed
      /\ value = [t \in AllThreads |-> [priority |-> fixed[t], last |-> FALSE]]
      /\ contributors = [t \in AllThreads |-> [n \in {Real} |-> fixed[t]]]
      /\ aggregate = fixed
      /\ current_state = [t \in AllThreads |->
                            IF t = Idle THEN {} ELSE {"blocked"}]
      /\ is_preemptible = [t \in AllThreads |-> TRUE]
      /\ heir = Idle /\ executing = Idle /\ dispatch_necessary = FALSE
      /\ updates = [c \in Contexts |-> {}]
      /\ preempt_enabled = {}
  BY <1>2 DEF Init
<1>4. Idle \in AllThreads
  BY DEF AllThreads
<1>5. Len(ready) = 1 /\ ready[1] = Idle /\ ready \in Seq(AllThreads)
  BY <1>3, <1>4
<1>6. Items(ready) = {Idle}
  BY <1>5 DEF Items
<1>7. Ordered(ready, node_priority)
  BY <1>5 DEF Ordered, NoDuplicates, Sorted
<1>8. ASSUME NEW t \in AllThreads
      PROVE  /\ WellFormed(contributors[t])
             /\ IsMinimum(aggregate[t], contributors[t])
             /\ value[t].priority = aggregate[t]
  <2>1. /\ DOMAIN contributors[t] = {Real} /\ contributors[t][Real] = fixed[t]
        /\ contributors[t] \in [{Real} -> Nat]
        /\ fixed[t] \in Nat /\ fixed[t] # Pseudo_ISR /\ aggregate[t] = fixed[t]
    BY <1>2, <1>3
  <2>2. fixed[t] <= fixed[t]
    BY <2>1
  <2> QED BY <1>3, <2>1, <2>2 DEF WellFormed, IsMinimum, Nodes
<1>9. /\ contributors = [t \in AllThreads |-> contributors[t]]
      /\ value \in [AllThreads -> [priority : Nat, last : BOOLEAN]]
      /\ aggregate \in [AllThreads -> Nat]
      /\ updates \in [Contexts -> SUBSET AllThreads]
  BY <1>2, <1>3
<1>10. Aggregations
  BY <1>8, <1>9 DEF Aggregations
<1>11. Scheduling
  BY <1>2, <1>3, <1>4, <1>6, <1>7 DEF Scheduling
<1>12. ThreadsOK
  BY <1>3, <1>4, <1>6 DEF ThreadsOK, Is_ready, States
<1>13. NoUpdateIsLost /\ DispatchIsDue
  BY <1>2, <1>3 DEF NoUpdateIsLost, DispatchIsDue
<1>14. HeirIsEarliest
  BY <1>2, <1>3, <1>4, <1>6 DEF HeirIsEarliest
<1> QED BY <1>10, <1>11, <1>12, <1>13, <1>14 DEF IInv, HeirInv

(* First parts of priority changes.                                         *)
LEMMA PriorityStepInv ==
  ASSUME IInv, NEW o \in AllThreads, NEW context \in Contexts,
         PriorityStep(o, context),
         Is_ready(o) => updates = [c \in Contexts |-> {}],
         UNCHANGED <<ready, node_priority, current_state, is_preemptible, heir,
                     dispatch_necessary, executing, preempt_enabled>>
  PROVE  IInv'
<1>1. Aggregations' /\ Scheduling' /\ ThreadsOK' /\ DispatchIsDue'
  BY DEF IInv, PriorityStep, Scheduling, ThreadsOK, DispatchIsDue, Is_ready
<1>2. /\ \A t \in AllThreads : t # o => aggregate'[t] = aggregate[t]
      /\ aggregate'[o] = aggregate[o] \/ o \in updates'[context]
      /\ \A c \in Contexts : updates[c] \subseteq updates'[c]
  BY DEF PriorityStep
<1>3. NoUpdateIsLost'
  <2> SUFFICES ASSUME NEW t \in AllThreads, Is_ready(t)',
                      node_priority[t] # aggregate'[t]
               PROVE  \E c \in Contexts : t \in updates'[c]
    BY DEF NoUpdateIsLost
  <2>1. CASE aggregate'[t] = aggregate[t]
    BY <1>2, <2>1 DEF IInv, NoUpdateIsLost, Is_ready
  <2>2. CASE aggregate'[t] # aggregate[t]
    BY <1>2, <2>2
  <2> QED BY <2>1, <2>2
<1>4. HeirInv'
  <2>1. ASSUME NothingStale'
        PROVE  NothingStale
    <3> SUFFICES ASSUME NEW t \in AllThreads, Is_ready(t)
                 PROVE  node_priority[t] = aggregate[t]
      BY DEF NothingStale
    <3>1. CASE t = o
      <4>1. NothingStale
        BY <3>1, NoUpdatesNothingStale DEF IInv
      <4> QED BY <4>1 DEF NothingStale
    <3>2. CASE t # o
      BY <1>2, <2>1, <3>2 DEF NothingStale, Is_ready
    <3> QED BY <3>1, <3>2
  <2> QED BY <2>1 DEF IInv, HeirInv, HeirIsEarliest
<1> QED BY <1>1, <1>3, <1>4 DEF IInv

(* Actions that leave the aggregations alone.                               *)
LEMMA AggregationsUnchanged ==
  ASSUME Aggregations, UNCHANGED <<value, contributors, aggregate, updates>>
  PROVE  Aggregations'
BY DEF Aggregations

LEMMA SetStateInv ==
  ASSUME IInv, ConstantsAssumption, NEW t \in Threads, NEW s \in States,
         Set_state(t, s)
  PROVE  IInv'
<1>1. /\ updates = [c \in Contexts |-> {}]
      /\ current_state' = [current_state EXCEPT ![t] = @ \union {s}]
      /\ IF Is_ready(t) THEN Scheduler_EDF_Block(t)
         ELSE UNCHANGED <<ready, node_priority, heir, dispatch_necessary>>
      /\ UNCHANGED <<value, contributors, aggregate, is_preemptible, executing,
                     updates, preempt_enabled>>
  BY DEF Set_state, Thread_Set_state, InThread, priorityVars, treeVars,
         decisionVars
<1>2. t \in AllThreads /\ t # Idle /\ Idle \in AllThreads
  BY DEF ConstantsAssumption, AllThreads
<1>3. /\ Scheduling /\ Aggregations /\ ThreadsOK /\ HeirInv /\ DispatchIsDue
      /\ NothingStale
  BY <1>1, NoUpdatesNothingStale DEF IInv
<1>4. Aggregations'
  BY <1>1, <1>3, AggregationsUnchanged
<1>5. /\ current_state' \in [AllThreads -> SUBSET States]
      /\ current_state'[t] # {}
      /\ \A u \in AllThreads \ {t} : current_state'[u] = current_state[u]
  BY <1>1, <1>2, <1>3 DEF ThreadsOK
<1>6. {u \in AllThreads : Is_ready(u)'} = {u \in AllThreads : Is_ready(u)} \ {t}
  BY <1>5 DEF Is_ready
<1>7. Idle \in Items(ready) \ {t}
  BY <1>2, <1>3 DEF ThreadsOK, Is_ready
<1>8. /\ Scheduling' /\ HeirStep /\ Items(ready') = Items(ready) \ {t}
      /\ node_priority' = node_priority
      /\ HeirIsEarliest => HeirIsEarliest'
      /\ heir' = heir \/ HeirIsEarliest'
  <2>1. CASE Is_ready(t)
    <3>1. Scheduler_EDF_Block(t)
      BY <1>1, <2>1
    <3>2. node_priority' = node_priority
      BY <3>1 DEF Scheduler_EDF_Block
    <3> QED BY <1>2, <1>3, <1>7, <3>1, <3>2, BlockStep
  <2>2. CASE ~ Is_ready(t)
    <3>1. t \notin Items(ready)
      BY <1>3, <2>2 DEF ThreadsOK
    <3>2. UNCHANGED <<ready, node_priority, heir, dispatch_necessary>>
      BY <1>1, <2>2
    <3> QED BY <1>3, <3>1, <3>2 DEF Scheduling, HeirStep, HeirIsEarliest
  <2> QED BY <2>1, <2>2
<1>9. ThreadsOK'
  BY <1>1, <1>2, <1>3, <1>5, <1>6, <1>8 DEF ThreadsOK
<1>10. DispatchIsDue'
  BY <1>1, <1>3, <1>8, DispatchStaysDue
<1>11. NoUpdateIsLost'
  <2>1. \A u \in AllThreads : Is_ready(u)' => node_priority'[u] = aggregate'[u]
    BY <1>1, <1>3, <1>6, <1>8 DEF NothingStale
  <2> QED BY <2>1 DEF NoUpdateIsLost
<1>12. HeirInv'
  <2>1. (is_preemptible[heir] => HeirIsEarliest) \/ preempt_enabled # {}
    BY <1>3 DEF HeirInv
  <2>2. (is_preemptible'[heir'] => HeirIsEarliest') \/ preempt_enabled' # {}
    BY <1>1, <1>8, <2>1
  <2> QED BY <2>2 DEF HeirInv
<1> QED BY <1>4, <1>8, <1>9, <1>10, <1>11, <1>12 DEF IInv

LEMMA ClearStateInv ==
  ASSUME IInv, ConstantsAssumption, NEW t \in Threads, NEW s \in States,
         Clear_state(t, s)
  PROVE  IInv'
<1>1. /\ s \in current_state[t]
      /\ current_state' = [current_state EXCEPT ![t] = @ \ {s}]
      /\ IF current_state[t] = {s} THEN Scheduler_EDF_Unblock(t)
         ELSE UNCHANGED <<ready, node_priority, heir, dispatch_necessary>>
      /\ UNCHANGED <<value, contributors, aggregate, is_preemptible, executing,
                     updates, preempt_enabled>>
  BY DEF Clear_state, Thread_Clear_state, priorityVars, treeVars, decisionVars
<1>2. t \in AllThreads /\ t # Idle /\ Idle \in AllThreads
  BY DEF ConstantsAssumption, AllThreads
<1>3. /\ Scheduling /\ Aggregations /\ ThreadsOK /\ HeirInv /\ DispatchIsDue
      /\ NoUpdateIsLost
  BY DEF IInv
<1>4. Aggregations'
  BY <1>1, <1>3, AggregationsUnchanged
<1>5. /\ current_state' \in [AllThreads -> SUBSET States]
      /\ current_state'[t] = current_state[t] \ {s}
      /\ \A u \in AllThreads \ {t} : current_state'[u] = current_state[u]
  BY <1>1, <1>2, <1>3 DEF ThreadsOK
<1>6. t \notin Items(ready)
  BY <1>1, <1>3 DEF ThreadsOK, Is_ready
<1>7. CASE current_state[t] = {s}
  <2>1. Scheduler_EDF_Unblock(t)
    BY <1>1, <1>7
  <2>2. /\ value[t].priority \in Nat /\ value[t].priority = aggregate[t]
        /\ value[t].priority # Pseudo_ISR
    BY <1>2, <1>3 DEF Aggregations, WellFormed, IsMinimum
  <2>3. /\ Scheduling' /\ HeirStep
        /\ Items(ready') = Items(ready) \union {t}
        /\ node_priority' = [node_priority EXCEPT ![t] = value[t].priority]
        /\ /\ node_priority[heir] = aggregate[heir]
           /\ is_preemptible[heir] => HeirIsEarliest
           => (is_preemptible[heir'] => HeirIsEarliest')
    BY <1>2, <1>3, <1>6, <2>1, <2>2, UnblockStep
  <2>4. {u \in AllThreads : Is_ready(u)'} = {u \in AllThreads : Is_ready(u)} \union {t}
    BY <1>2, <1>5, <1>7 DEF Is_ready
  <2>5. ThreadsOK'
    BY <1>1, <1>2, <1>3, <1>5, <2>3, <2>4 DEF ThreadsOK
  <2>6. DispatchIsDue'
    BY <1>1, <1>3, <2>3, DispatchStaysDue
  <2>7. /\ node_priority'[t] = aggregate[t]
        /\ \A u \in AllThreads \ {t} : node_priority'[u] = node_priority[u]
    BY <1>2, <1>3, <2>2, <2>3 DEF Scheduling
  <2>8. NoUpdateIsLost'
    <3> SUFFICES ASSUME NEW u \in AllThreads, Is_ready(u)',
                        node_priority'[u] # aggregate'[u]
                 PROVE  \E c \in Contexts : u \in updates'[c]
      BY DEF NoUpdateIsLost
    <3>1. u # t
      BY <1>1, <2>7
    <3>2. Is_ready(u) /\ node_priority[u] # aggregate[u]
      BY <1>1, <1>5, <2>7, <3>1 DEF Is_ready
    <3> QED BY <1>1, <1>3, <3>2 DEF NoUpdateIsLost
  <2>9. HeirInv'
    <3> SUFFICES ASSUME preempt_enabled' = {}, NothingStale'
                 PROVE  is_preemptible'[heir'] => HeirIsEarliest'
      BY DEF HeirInv
    <3>1. ASSUME NEW u \in AllThreads, Is_ready(u)
          PROVE  node_priority[u] = aggregate[u]
      <4>1. u # t /\ Is_ready(u)'
        BY <1>1, <1>5, <3>1 DEF Is_ready
      <4>2. node_priority'[u] = aggregate'[u]
        BY <4>1 DEF NothingStale
      <4> QED BY <1>1, <2>7, <4>1, <4>2
    <3>2. NothingStale
      BY <3>1 DEF NothingStale
    <3>3. heir \in AllThreads /\ Is_ready(heir)
      BY <1>3 DEF Scheduling, ThreadsOK
    <3>4. node_priority[heir] = aggregate[heir]
      BY <3>1, <3>3
    <3>5. is_preemptible[heir] => HeirIsEarliest
      BY <1>1, <1>3, <3>2 DEF HeirInv
    <3> QED BY <1>1, <2>3, <3>4, <3>5
  <2> QED BY <1>4, <2>3, <2>5, <2>6, <2>8, <2>9 DEF IInv
<1>8. CASE current_state[t] # {s}
  <2>1. UNCHANGED <<ready, node_priority, heir, dispatch_necessary>>
    BY <1>1, <1>8
  <2>2. \A u \in AllThreads : Is_ready(u)' <=> Is_ready(u)
    BY <1>1, <1>2, <1>5, <1>8 DEF Is_ready
  <2>3. Scheduling' /\ DispatchIsDue' /\ NoUpdateIsLost' /\ HeirInv'
    BY <1>1, <1>3, <2>1, <2>2 DEF Scheduling, DispatchIsDue, NoUpdateIsLost,
                                  HeirInv, NothingStale, HeirIsEarliest
  <2>4. ThreadsOK'
    BY <1>1, <1>2, <1>3, <1>5, <2>1, <2>2 DEF ThreadsOK
  <2> QED BY <1>4, <2>3, <2>4 DEF IInv
<1> QED BY <1>7, <1>8

LEMMA YieldInv ==
  ASSUME IInv, Yield
  PROVE  IInv'
<1>1. /\ Is_ready(executing) /\ executing \in AllThreads
      /\ Scheduler_EDF_Yield(executing)
      /\ UNCHANGED <<value, contributors, aggregate, current_state,
                     is_preemptible, executing, updates, preempt_enabled>>
  BY DEF Yield, InThread, priorityVars, IInv, ThreadsOK
<1>2. executing \in Items(ready)
  BY <1>1 DEF IInv, ThreadsOK
<1>3. /\ Scheduling' /\ HeirStep /\ HeirIsEarliest'
      /\ Items(ready') = Items(ready) /\ node_priority' = node_priority
  BY <1>1, <1>2, YieldStep DEF IInv
<1>4. Aggregations' /\ DispatchIsDue'
  BY <1>1, <1>3, AggregationsUnchanged, DispatchStaysDue DEF IInv
<1>5. ThreadsOK' /\ NoUpdateIsLost' /\ HeirInv'
  BY <1>1, <1>3 DEF IInv, ThreadsOK, NoUpdateIsLost, HeirInv, Is_ready
<1> QED BY <1>3, <1>4, <1>5 DEF IInv

LEMMA SetPreemptibleInv ==
  ASSUME IInv, NEW on \in BOOLEAN, Set_preemptible(on)
  PROVE  IInv'
<1>1. /\ executing # Idle
      /\ is_preemptible' = [is_preemptible EXCEPT ![executing] = on]
      /\ preempt_enabled' = IF on THEN preempt_enabled \union {executing}
                            ELSE preempt_enabled
      /\ UNCHANGED <<ready, node_priority, value, contributors, aggregate,
                     current_state, heir, dispatch_necessary, executing,
                     updates>>
  BY DEF Set_preemptible, CallBegins, InThread, priorityVars, treeVars,
         decisionVars
<1>2. executing \in Threads /\ executing \in AllThreads
  BY <1>1 DEF IInv, ThreadsOK, AllThreads
<1>3. Aggregations'
  BY <1>1, AggregationsUnchanged DEF IInv
<1>4. Scheduling' /\ DispatchIsDue' /\ NoUpdateIsLost'
  BY <1>1 DEF IInv, Scheduling, DispatchIsDue, NoUpdateIsLost, Is_ready
<1>5. ThreadsOK'
  BY <1>1, <1>2 DEF IInv, ThreadsOK, Is_ready
<1>6. HeirInv'
  <2>1. CASE on
    BY <1>1, <2>1 DEF HeirInv
  <2>2. CASE ~ on
    <3>1. is_preemptible'[heir] => is_preemptible[heir]
      <4>1. heir \in AllThreads /\ is_preemptible \in [AllThreads -> BOOLEAN]
        BY DEF IInv, Scheduling, ThreadsOK
      <4> QED BY <1>1, <1>2, <2>2, <4>1
    <3> QED BY <1>1, <2>2, <3>1 DEF IInv, HeirInv, HeirIsEarliest, NothingStale,
                                    Is_ready
  <2> QED BY <2>1, <2>2
<1> QED BY <1>3, <1>4, <1>5, <1>6 DEF IInv

LEMMA ScheduleInv ==
  ASSUME IInv, Schedule
  PROVE  IInv'
<1>1. /\ Update_heir_if_preemptible(Get_highest_ready(ready))
      /\ preempt_enabled' = preempt_enabled \ {executing}
      /\ UNCHANGED <<ready, node_priority, value, contributors, aggregate,
                     current_state, is_preemptible, executing, updates>>
  BY DEF Schedule, Scheduler_EDF_Schedule, priorityVars, treeVars
<1>2. Update_heir_if_preemptible(Get_highest_ready(ready'))
  BY <1>1
<1>3. /\ node_priority' \in [AllThreads -> Nat] /\ Ordered(ready', node_priority')
      /\ heir \in Items(ready') /\ heir \in AllThreads
      /\ dispatch_necessary \in BOOLEAN
  BY <1>1 DEF IInv, Scheduling
<1>4. Scheduling' /\ HeirStep /\ (is_preemptible'[heir'] => HeirIsEarliest')
  BY <1>1, <1>2, <1>3, ElectIfPreemptible
<1>5. Aggregations' /\ DispatchIsDue'
  BY <1>1, <1>4, AggregationsUnchanged, DispatchStaysDue DEF IInv
<1>6. ThreadsOK' /\ NoUpdateIsLost'
  BY <1>1 DEF IInv, ThreadsOK, NoUpdateIsLost, Is_ready
<1>7. HeirInv'
  BY <1>4 DEF HeirInv
<1> QED BY <1>4, <1>5, <1>6, <1>7 DEF IInv

LEMMA UpdateInv ==
  ASSUME IInv, NEW context \in Contexts, NEW t \in AllThreads,
         Thread_Priority_update(context, t)
  PROVE  IInv'
<1>1. /\ Scheduler_EDF_Update_priority(t)
      /\ updates' = [updates EXCEPT ![context] = @ \ {t}]
      /\ UNCHANGED <<value, contributors, aggregate, current_state,
                     is_preemptible, executing, preempt_enabled>>
  BY DEF Thread_Priority_update, priorityVars
<1>2. /\ Scheduling /\ Aggregations /\ ThreadsOK /\ HeirInv /\ DispatchIsDue
      /\ NoUpdateIsLost
  BY DEF IInv
<1>3. value[t].priority \in Nat /\ value[t].last \in BOOLEAN /\ value[t].priority = aggregate[t]
  BY <1>2 DEF Aggregations
<1>4. Is_ready(t) => t \in Items(ready)
  BY <1>2 DEF ThreadsOK
<1>5. /\ Scheduling' /\ HeirStep /\ Items(ready') = Items(ready)
      /\ \/ /\ UNCHANGED <<ready, node_priority, heir, dispatch_necessary>>
            /\ Is_ready(t) => node_priority[t] = value[t].priority
         \/ /\ node_priority' = [node_priority EXCEPT ![t] = value[t].priority]
            /\ is_preemptible'[heir'] => HeirIsEarliest'
  BY <1>1, <1>2, <1>3, <1>4, UpdatePriorityStep
<1>6. /\ updates' \in [Contexts -> SUBSET AllThreads]
      /\ \A c \in Contexts : \A u \in updates[c] : u # t => u \in updates'[c]
  BY <1>1, <1>2 DEF Aggregations
<1>7. Aggregations'
  BY <1>1, <1>2, <1>6 DEF Aggregations
<1>8. ThreadsOK' /\ DispatchIsDue'
  <2>1. DispatchIsDue'
    BY <1>1, <1>2, <1>5, DispatchStaysDue
  <2>2. ThreadsOK'
    BY <1>1, <1>2, <1>5 DEF ThreadsOK, Is_ready
  <2> QED BY <2>1, <2>2
<1>9. /\ Is_ready(t) => node_priority'[t] = aggregate[t]
      /\ \A u \in AllThreads \ {t} : node_priority'[u] = node_priority[u]
  BY <1>2, <1>3, <1>5 DEF Scheduling
<1>10. NoUpdateIsLost'
  <2> SUFFICES ASSUME NEW u \in AllThreads, Is_ready(u)',
                      node_priority'[u] # aggregate'[u]
               PROVE  \E c \in Contexts : u \in updates'[c]
    BY DEF NoUpdateIsLost
  <2>1. Is_ready(u)
    BY <1>1 DEF Is_ready
  <2>2. u # t
    BY <1>1, <1>9, <2>1
  <2>3. PICK c \in Contexts : u \in updates[c]
    BY <1>1, <1>2, <1>9, <2>1, <2>2 DEF NoUpdateIsLost
  <2> QED BY <1>6, <2>2, <2>3
<1>11. HeirInv'
  <2>1. CASE /\ UNCHANGED <<ready, node_priority, heir, dispatch_necessary>>
    BY <1>1, <1>2, <2>1 DEF HeirInv, HeirIsEarliest, NothingStale, Is_ready
  <2>2. CASE is_preemptible'[heir'] => HeirIsEarliest'
    BY <2>2 DEF HeirInv
  <2> QED BY <1>5, <2>1, <2>2
<1> QED BY <1>5, <1>7, <1>8, <1>10, <1>11 DEF IInv

LEMMA DispatchInv ==
  ASSUME IInv, Dispatch
  PROVE  IInv'
<1>1. /\ executing' = heir /\ dispatch_necessary' = FALSE
      /\ UNCHANGED <<ready, node_priority, value, contributors, aggregate,
                     current_state, is_preemptible, heir, updates,
                     preempt_enabled>>
  BY DEF Dispatch, priorityVars, treeVars
<1>2. Aggregations'
  BY <1>1, AggregationsUnchanged DEF IInv
<1>3. Scheduling' /\ ThreadsOK' /\ DispatchIsDue'
  BY <1>1 DEF IInv, Scheduling, ThreadsOK, DispatchIsDue, Is_ready
<1>4. NoUpdateIsLost' /\ HeirInv'
  BY <1>1 DEF IInv, NoUpdateIsLost, HeirInv, HeirIsEarliest, NothingStale, Is_ready
<1> QED BY <1>2, <1>3, <1>4 DEF IInv

LEMMA NextInv ==
  ASSUME ConstantsAssumption, IInv, [Next]_vars
  PROVE  IInv'
<1>1. ASSUME NEW t \in Threads, NEW s \in States, Set_state(t, s)
      PROVE  IInv'
  BY <1>1, SetStateInv
<1>2. ASSUME NEW t \in Threads, NEW s \in States, Clear_state(t, s)
      PROVE  IInv'
  BY <1>2, ClearStateInv
<1>3. ASSUME Yield
      PROVE  IInv'
  BY <1>3, YieldInv
<1>4. ASSUME NEW on \in BOOLEAN, Set_preemptible(on)
      PROVE  IInv'
  BY <1>4, SetPreemptibleInv
<1>5. ASSUME Schedule
      PROVE  IInv'
  BY <1>5, ScheduleInv
<1>6. ASSUME NEW j \in Jobs, NEW d \in Deadlines, Release_job(j, d)
      PROVE  IInv'
  <2>1. /\ Scheduler_EDF_Release_job(j, d, "task")
        /\ updates = [c \in Contexts |-> {}]
        /\ UNCHANGED <<ready, node_priority, current_state, is_preemptible,
                       heir, dispatch_necessary, executing, preempt_enabled>>
    BY <1>6 DEF Release_job, CallBegins, InThread, OnlyPrioritiesChange,
                treeVars, decisionVars
  <2>2. "task" \in Contexts /\ Aggregations
    BY DEF Contexts, IInv
  <2>3. Owner[j] \in AllThreads /\ PriorityStep(Owner[j], "task")
    BY <2>1, <2>2, ReleaseStep
  <2> QED BY <2>1, <2>2, <2>3, PriorityStepInv
<1>7. ASSUME NEW j \in Jobs, NEW d \in Deadlines, Release_job_from_ISR(j, d)
      PROVE  IInv'
  <2>1. /\ Scheduler_EDF_Release_job(j, d, "isr")
        /\ Is_ready(Owner[j]) => updates = [c \in Contexts |-> {}]
        /\ UNCHANGED <<ready, node_priority, current_state, is_preemptible,
                       heir, dispatch_necessary, executing, preempt_enabled>>
    BY <1>7 DEF Release_job_from_ISR, InThread, OnlyPrioritiesChange,
                treeVars, decisionVars
  <2>2. "isr" \in Contexts /\ Aggregations
    BY DEF Contexts, IInv
  <2>3. Owner[j] \in AllThreads /\ PriorityStep(Owner[j], "isr")
    BY <2>1, <2>2, ReleaseStep
  <2> QED BY <2>1, <2>2, <2>3, PriorityStepInv
<1>8. ASSUME NEW j \in Jobs, Cancel_job(j)
      PROVE  IInv'
  <2>1. /\ Scheduler_EDF_Cancel_job(j, "task")
        /\ updates = [c \in Contexts |-> {}]
        /\ UNCHANGED <<ready, node_priority, current_state, is_preemptible,
                       heir, dispatch_necessary, executing, preempt_enabled>>
    BY <1>8 DEF Cancel_job, CallBegins, InThread, OnlyPrioritiesChange,
                treeVars, decisionVars
  <2>2. "task" \in Contexts /\ Aggregations
    BY DEF Contexts, IInv
  <2>3. Owner[j] \in AllThreads /\ PriorityStep(Owner[j], "task")
    BY <2>1, <2>2, CancelStep
  <2> QED BY <2>1, <2>2, <2>3, PriorityStepInv
<1>9. ASSUME NEW t \in Threads, NEW p \in Priorities, Set_priority(t, p)
      PROVE  IInv'
  <2>1. /\ Thread_Priority_changed(t, Real, Map_priority(p), TRUE, "task")
        /\ updates = [c \in Contexts |-> {}]
        /\ UNCHANGED <<ready, node_priority, current_state, is_preemptible,
                       heir, dispatch_necessary, executing, preempt_enabled>>
    BY <1>9 DEF Set_priority, CallBegins, InThread, OnlyPrioritiesChange,
                treeVars, decisionVars
  <2>2. /\ t \in AllThreads /\ "task" \in Contexts /\ Real \in Nodes
        /\ Map_priority(p) \in Nat /\ Map_priority(p) # Pseudo_ISR
        /\ Aggregations
    BY NotPseudoISR DEF ConstantsAssumption, AllThreads, Contexts, Nodes, IInv
  <2>3. PriorityStep(t, "task")
    BY <2>1, <2>2, ChangedStep
  <2> QED BY <2>1, <2>2, <2>3, PriorityStepInv
<1>10. ASSUME NEW c \in Contexts, NEW t \in AllThreads, Thread_Priority_update(c, t)
       PROVE  IInv'
  BY <1>10, UpdateInv
<1>11. ASSUME Dispatch
       PROVE  IInv'
  BY <1>11, DispatchInv
<1>12. ASSUME UNCHANGED vars
       PROVE  IInv'
  <2>1. UNCHANGED <<ready, node_priority, value, contributors, aggregate,
                    current_state, is_preemptible, heir, dispatch_necessary,
                    executing, updates, preempt_enabled>>
    BY <1>12 DEF vars, treeVars, priorityVars, decisionVars
  <2>2. Aggregations' /\ Scheduling' /\ ThreadsOK'
    BY <2>1 DEF IInv, Aggregations, Scheduling, ThreadsOK, Is_ready
  <2>3. NoUpdateIsLost' /\ HeirInv' /\ DispatchIsDue'
    BY <2>1 DEF IInv, NoUpdateIsLost, HeirInv, HeirIsEarliest, NothingStale,
                DispatchIsDue, Is_ready
  <2> QED BY <2>2, <2>3 DEF IInv
<1> QED BY <1>1, <1>2, <1>3, <1>4, <1>5, <1>6, <1>7, <1>8, <1>9, <1>10, <1>11,
           <1>12 DEF Next

-----------------------------------------------------------------------------
(* The theorems.                                                            *)

(* The inductive invariant holds in every behaviour of the scheduler.       *)
THEOREM InvariantHolds == Spec => []IInv
BY InitInv, NextInv, ConstantsAssumption, PTL DEF Spec

(* Every variable keeps its type, and an aggregation never loses its real   *)
(* priority: neither _Scheduler_EDF_Get_highest_ready nor the minimum of an *)
(* aggregation is ever asked of an empty tree.                              *)
THEOREM TypeCorrect == Spec => []TypeOK
<1>1. IInv => TypeOK
  <2> SUFFICES ASSUME IInv PROVE TypeOK
    OBVIOUS
  <2>1. /\ node_priority \in [AllThreads -> Nat] /\ ready \in Seq(AllThreads)
        /\ heir \in AllThreads /\ dispatch_necessary \in BOOLEAN
    BY DEF IInv, Scheduling, Ordered
  <2>2. /\ contributors = [t \in AllThreads |-> contributors[t]]
        /\ value \in [AllThreads -> [priority : Nat, last : BOOLEAN]]
        /\ aggregate \in [AllThreads -> Nat]
        /\ updates \in [Contexts -> SUBSET AllThreads]
        /\ \A t \in AllThreads : WellFormed(contributors[t])
    BY DEF IInv, Aggregations
  <2>3. /\ current_state \in [AllThreads -> SUBSET States]
        /\ is_preemptible \in [AllThreads -> BOOLEAN]
        /\ executing \in AllThreads /\ preempt_enabled \in SUBSET Threads
    BY DEF IInv, ThreadsOK
  <2>4. ASSUME NEW t \in AllThreads
        PROVE  /\ contributors[t] \in [DOMAIN contributors[t] -> Nat]
               /\ Real \in DOMAIN contributors[t]
               /\ DOMAIN contributors[t] \subseteq Nodes
    BY <2>2 DEF WellFormed
  <2> QED BY <2>1, <2>2, <2>3, <2>4 DEF TypeOK, Priority
<1> QED BY <1>1, InvariantHolds, PTL

(* The ready tree holds exactly the ready threads, once each, in the order  *)
(* of their keys, and the heir is one of them, for any number of threads:   *)
(* no unblocking, blocking, yield or update of a priority in any order      *)
(* breaks the invariant of models/edf_ready_set.h.                          *)
THEOREM ReadyTreeIsWellFormed == Spec => []ReadyTreeWellFormed
<1>1. IInv => ReadyTreeWellFormed
  BY DEF IInv, Scheduling, Ordered, ThreadsOK, ReadyTreeWellFormed
<1> QED BY <1>1, InvariantHolds, PTL

(* The priority a thread is scheduled by is at all times the least of its   *)
(* contributors, whatever sequence of releases, cancellations and changes   *)
(* of the real priority it went through; and a change of it reaches the     *)
(* ready tree or has its update still coming, also when the thread blocks,  *)
(* is suspended or is resumed between the release of a job and              *)
(* _Thread_Priority_update.                                                 *)
THEOREM PrioritiesAreKept == Spec => []PrioritiesTakeEffect
<1>1. IInv => CachedMinimum
  BY DEF IInv, Aggregations, IsMinimum, CachedMinimum
<1>2. IInv => PrioritiesTakeEffect
  BY <1>1 DEF IInv, PrioritiesTakeEffect
<1> QED BY <1>2, InvariantHolds, PTL

(* EDF: whenever no update of a priority is outstanding the heir, if it can *)
(* be pre-empted, has the earliest deadline or least priority among all     *)
(* ready threads, and a heir that does not run yet will be dispatched.      *)
THEOREM HeirIsEDF == Spec => []EDFDecision
<1>1. IInv => EDFDecision
  <2> SUFFICES ASSUME IInv, updates = [c \in Contexts |-> {}],
                      preempt_enabled = {}
               PROVE  /\ edf_scheduler_decision
                      /\ is_preemptible[heir] =>
                           \A t \in Items(ready) :
                             \A n \in DOMAIN contributors[t] :
                               \E m \in DOMAIN contributors[heir] :
                                 contributors[heir][m] <= contributors[t][n]
    BY DEF EDFDecision
  <2>1. NothingStale
    BY NoUpdatesNothingStale DEF IInv
  <2>2. is_preemptible[heir] => HeirIsEarliest
    BY <2>1 DEF IInv, HeirInv
  <2>3. edf_scheduler_decision
    BY <2>2 DEF IInv, DispatchIsDue, HeirIsEarliest, edf_scheduler_decision
  <2>4. ASSUME is_preemptible[heir], NEW t \in Items(ready),
               NEW n \in DOMAIN contributors[t]
        PROVE  \E m \in DOMAIN contributors[heir] :
                 contributors[heir][m] <= contributors[t][n]
    <3>1. /\ t \in AllThreads /\ Is_ready(t)
          /\ heir \in AllThreads /\ Is_ready(heir)
      BY DEF IInv, ThreadsOK, Scheduling
    <3>2. aggregate[heir] <= aggregate[t]
      BY <2>1, <2>2, <2>4, <3>1 DEF NothingStale, HeirIsEarliest
    <3>3. /\ IsMinimum(aggregate[heir], contributors[heir])
          /\ IsMinimum(aggregate[t], contributors[t])
          /\ WellFormed(contributors[t])
      BY <3>1 DEF IInv, Aggregations
    <3>4. aggregate[t] <= contributors[t][n] /\ contributors[t][n] \in Nat
      BY <3>3 DEF IsMinimum, WellFormed
    <3>5. PICK m \in DOMAIN contributors[heir] :
                 contributors[heir][m] = aggregate[heir]
      BY <3>3 DEF IsMinimum
    <3>6. aggregate[heir] \in Nat /\ aggregate[t] \in Nat
      BY <3>3 DEF IsMinimum
    <3>7. contributors[heir][m] <= contributors[t][n]
      BY <3>2, <3>4, <3>5, <3>6
    <3> QED BY <3>7
  <2> QED BY <2>3, <2>4
<1> QED BY <1>1, InvariantHolds, PTL

(* No wake-up, update of a priority or call of _Scheduler_Schedule takes    *)
(* the processor from a thread that cannot be pre-empted, in any            *)
(* interleaving: it stays the heir until it blocks, is suspended or yields, *)
(* or, in version 5.1, another thread that still executes blocks.           *)
THEOREM NonPreemptibleStays == Spec => NotPreempted
<1> DEFINE Stays == heir' # heir /\ ~ is_preemptible[heir] =>
                      \/ current_state'[heir] # {} \/ Yield
                      \/ /\ Version = "5.1" /\ executing # heir
                         /\ current_state'[executing] # {}
<1>1. ASSUME IInv, [Next]_vars
      PROVE  Stays
  <2>1. ASSUME NEW t \in Threads, NEW s \in States, Set_state(t, s)
        PROVE  Stays
    <3>1. /\ current_state' = [current_state EXCEPT ![t] = @ \union {s}]
          /\ heir' # heir => t = heir \/ (Version = "5.1" /\ t = executing)
      <4>1. heir' # heir => Scheduler_EDF_Block(t)
        BY <2>1 DEF Set_state, Thread_Set_state, decisionVars
      <4> QED BY <2>1, <4>1, BlockReplacesHeir DEF Set_state, Thread_Set_state
    <3>2. t \in AllThreads /\ current_state \in [AllThreads -> SUBSET States]
      BY <1>1 DEF IInv, ThreadsOK, AllThreads
    <3>3. s \in current_state'[t]
      BY <3>1, <3>2
    <3> QED BY <3>1, <3>3
  <2>2. ASSUME NEW t \in Threads, NEW s \in States, Clear_state(t, s)
        PROVE  Stays
    <3>1. CASE current_state[t] # {s}
      BY <2>2, <3>1 DEF Clear_state, Thread_Clear_state, decisionVars
    <3>2. CASE current_state[t] = {s}
      <4>1. Scheduler_EDF_Unblock(t)
        BY <2>2, <3>2 DEF Clear_state, Thread_Clear_state
      <4>2. t \in AllThreads
        BY DEF AllThreads
      <4>3. value[t].priority # Pseudo_ISR
        BY <1>1, <4>2 DEF IInv, Aggregations, WellFormed, IsMinimum
      <4> QED BY <4>1, <4>3 DEF Scheduler_EDF_Unblock, Unblock_or_force,
                  Scheduler_uniprocessor_Unblock, Update_heir_or_force,
                  Update_heir_if_preemptible, decisionVars
    <3> QED BY <3>1, <3>2
  <2>3. ASSUME Yield
        PROVE  Stays
    BY <2>3
  <2>4. ASSUME Schedule
        PROVE  Stays
    BY <2>4 DEF Schedule, Scheduler_EDF_Schedule, Update_heir_if_preemptible,
                decisionVars
  <2>5. ASSUME NEW context \in Contexts, NEW t \in AllThreads,
               Thread_Priority_update(context, t)
        PROVE  Stays
    BY <2>5 DEF Thread_Priority_update, Scheduler_EDF_Update_priority,
                Update_heir_if_preemptible, decisionVars
  <2>6. ASSUME \/ \E on \in BOOLEAN : Set_preemptible(on)
               \/ \E j \in Jobs, d \in Deadlines :
                    Release_job(j, d) \/ Release_job_from_ISR(j, d)
               \/ \E j \in Jobs : Cancel_job(j)
               \/ \E t \in Threads, p \in Priorities : Set_priority(t, p)
               \/ Dispatch
               \/ UNCHANGED vars
        PROVE  Stays
    <3>1. heir' = heir
      BY <2>6 DEF Set_preemptible, Release_job, Release_job_from_ISR,
                  Cancel_job, Set_priority, OnlyPrioritiesChange, Dispatch,
                  vars, decisionVars
    <3> QED BY <3>1
  <2> QED BY <1>1, <2>1, <2>2, <2>3, <2>4, <2>5, <2>6 DEF Next
<1>2. IInv /\ [Next]_vars => [Stays]_vars
  BY <1>1
<1> QED BY <1>2, InvariantHolds, PTL DEF Spec, NotPreempted

-----------------------------------------------------------------------------
(* The inductive invariant.                                                 *)

PeriodTypes ==
  /\ state \in [Jobs -> PeriodStates]
  /\ postponed_jobs \in [Jobs -> 0..MaxPostponed]
  /\ latest_deadline \in [Jobs -> Nat] /\ expire \in [Jobs -> Nat]
  /\ scheduled \in SUBSET Jobs
  /\ wait_flags \in [Threads -> WaitFlags]
  /\ return_argument \in [Threads -> Jobs \union {Null}]
  /\ section \in Sections
  /\ waking \in SUBSET Threads

JobsOK ==
  \A j \in Jobs :
    /\ state[j] = "EXPIRED" => postponed_jobs[j] > 0
    /\ Version = "6.2" /\ state[j] = "INACTIVE" => postponed_jobs[j] = 0
    /\ postponed_jobs[j] > 0 => latest_deadline[j] \in Deadlines
    /\ j \in scheduled <=> state[j] # "INACTIVE"

(* A thread that tells it is about to block is the executing one; one that  *)
(* has blocked, or is being unblocked, is not in the middle of blocking.    *)
WaitsOK ==
  \A t \in Threads :
    /\ wait_flags[t] = "INTEND_TO_BLOCK" =>
         t = executing /\ section \in {"set_state", "try_change"}
    /\ wait_flags[t] = "BLOCKED" \/ t \in waking =>
         /\ "blocked" \in current_state[t]
         /\ t = executing => section = "application"
    /\ t \in waking => wait_flags[t] = "READY"
    /\ wait_flags[t] # "READY" =>
         /\ return_argument[t] \in scheduled
         /\ t = Owner[return_argument[t]]

(* What holds while Block_while_active has dispatching disabled.            *)
SectionOK ==
  section # "application" =>
    /\ executing \in Threads /\ executing \notin preempt_enabled
    /\ updates["task"] = {}
    /\ section = "set_state" => Is_ready(executing)
    /\ section # "set_state" => "blocked" \in current_state[executing]
    /\ section = "unblock" => wait_flags[executing] = "READY"

PInv == PeriodTypes /\ JobsOK /\ WaitsOK /\ SectionOK

Assumptions == ConstantsAssumption /\ PeriodConstantsAssumption

LEMMA PeriodInitInv ==
  ASSUME Assumptions, PeriodInit
  PROVE  PInv
<1>1. /\ state = [j \in Jobs |-> "INACTIVE"]
      /\ postponed_jobs = [j \in Jobs |-> 0]
      /\ latest_deadline = [j \in Jobs |-> 0] /\ expire = [j \in Jobs |-> 0]
      /\ scheduled = {} /\ section = "application" /\ waking = {}
      /\ wait_flags = [t \in Threads |-> "READY"]
      /\ return_argument = [t \in Threads |-> Null]
  BY DEF PeriodInit
<1>2. 0 \in 0..MaxPostponed
  BY DEF Assumptions, PeriodConstantsAssumption
<1>3. PeriodTypes
  BY <1>1, <1>2 DEF PeriodTypes, PeriodStates, WaitFlags, Sections
<1>4. JobsOK
  BY <1>1 DEF JobsOK
<1>5. WaitsOK /\ SectionOK
  BY <1>1 DEF WaitsOK, SectionOK
<1> QED BY <1>3, <1>4, <1>5 DEF PInv

-----------------------------------------------------------------------------
(* Facts for the steps.                                                     *)

LEMMA NoUpdates ==
  ASSUME IInv, updates["task"] = {}, updates["isr"] = {}
  PROVE  updates = [c \in Contexts |-> {}]
<1>1. updates \in [Contexts -> SUBSET AllThreads]
  BY DEF IInv, Aggregations
<1>2. \A c \in Contexts : updates[c] = {}
  BY DEF Contexts
<1> QED BY <1>1, <1>2

(* A job released by an interrupt leaves the calls of the thread alone.     *)
LEMMA ReleaseFromISR ==
  ASSUME IInv, NEW j, NEW deadline, Scheduler_EDF_Release_job(j, deadline, "isr")
  PROVE  updates'["task"] = updates["task"]
<1>1. updates \in [Contexts -> SUBSET AllThreads]
  BY DEF IInv, Aggregations
<1>2. \/ updates' = updates
      \/ updates' = [updates EXCEPT !["isr"] = @ \union {Owner[j]}]
  BY DEF Scheduler_EDF_Release_job, Thread_Priority_changed,
         Thread_Priority_add, Priority_action
<1> QED BY <1>1, <1>2 DEF Contexts

(* The executing thread about to block is in the code of its call.          *)
LEMMA BlockingInThread ==
  ASSUME Assumptions, IInv, SectionOK, section = "set_state", NoInterrupt
  PROVE  InThread /\ executing \in Threads
<1>1. /\ executing \in Threads /\ executing \notin preempt_enabled
      /\ updates["task"] = {} /\ updates["isr"] = {} /\ Is_ready(executing)
  BY DEF SectionOK, NoInterrupt
<1>2. updates = [c \in Contexts |-> {}]
  BY <1>1, NoUpdates
<1> QED BY <1>1, <1>2 DEF InThread, Assumptions, ConstantsAssumption

(* Waits survive when nobody who waits for a period loses its state.        *)
LEMMA WaitsKept ==
  ASSUME PInv, UNCHANGED periodVars, executing' = executing,
         \A t \in Threads :
           OnPeriod(t) /\ "blocked" \in current_state[t] =>
             "blocked" \in current_state'[t]
  PROVE  WaitsOK' /\ PeriodTypes' /\ JobsOK'
<1>1. UNCHANGED <<state, postponed_jobs, latest_deadline, scheduled, expire,
                  wait_flags, return_argument, section, waking>>
  BY DEF periodVars, timerVars, jobVars, waitVars
<1>2. WaitsOK'
  BY <1>1 DEF PInv, WaitsOK, OnPeriod
<1> QED BY <1>1, <1>2 DEF PInv, PeriodTypes, JobsOK

-----------------------------------------------------------------------------
(* The calls of the owner.                                                  *)

LEMMA ActivateStep ==
  ASSUME Assumptions, IInv, PInv, NEW j \in Jobs, NEW d \in Deadlines,
         Activate(j, d)
  PROVE  PInv' /\ Next
<1>1. /\ section = "application" /\ state[j] = "INACTIVE"
      /\ state' = [state EXCEPT ![j] = "ACTIVE"]
      /\ scheduled' = scheduled \union {j}
      /\ expire' = [expire EXCEPT ![j] = d]
      /\ Release_job(j, d)
      /\ \/ postponed_jobs' = [postponed_jobs EXCEPT ![j] = 0]
         \/ postponed_jobs' = postponed_jobs
      /\ UNCHANGED <<latest_deadline, wait_flags, return_argument, section,
                     waking, current_state, executing>>
  BY DEF Activate, InApplication, Insert_ticks, waitVars, Release_job,
         OnlyPrioritiesChange, Forget_postponed_jobs
<1>2. d \in Nat /\ 0 \in 0..MaxPostponed
  BY DEF Assumptions, ConstantsAssumption, PeriodConstantsAssumption
<1>3. PeriodTypes'
  BY <1>1, <1>2 DEF PInv, PeriodTypes, PeriodStates
<1>4. JobsOK'
  BY <1>1 DEF PInv, PeriodTypes, JobsOK
<1>5. WaitsOK' /\ SectionOK'
  BY <1>1 DEF PInv, WaitsOK, SectionOK
<1> QED BY <1>1, <1>3, <1>4, <1>5 DEF PInv, Next

LEMMA BlockExpiredStep ==
  ASSUME Assumptions, IInv, PInv, NEW j \in Jobs, Block_while_expired(j)
  PROVE  PInv' /\ Next
<1>1. /\ section = "application"
      /\ HasPostponedJob(j)
      /\ state' = [state EXCEPT ![j] = "ACTIVE"]
      /\ postponed_jobs' = [postponed_jobs EXCEPT ![j] = @ - 1]
      /\ Release_job(j, latest_deadline[j])
      /\ UNCHANGED <<scheduled, expire, latest_deadline, wait_flags,
                     return_argument, section, waking, current_state, executing>>
  BY DEF Block_while_expired, InApplication, timerVars, waitVars, Release_job,
         OnlyPrioritiesChange
<1>2. /\ postponed_jobs[j] > 0 /\ latest_deadline[j] \in Deadlines
      /\ state[j] # "INACTIVE"
  BY <1>1 DEF PInv, JobsOK, HasPostponedJob
<1>3. postponed_jobs[j] - 1 \in 0..MaxPostponed
  BY <1>2 DEF PInv, PeriodTypes, Assumptions, PeriodConstantsAssumption
<1>4. PeriodTypes'
  BY <1>1, <1>3 DEF PInv, PeriodTypes, PeriodStates
<1>5. JobsOK'
  <2>1. ASSUME NEW i \in Jobs
        PROVE  /\ state'[i] = (IF i = j THEN "ACTIVE" ELSE state[i])
               /\ i # j => postponed_jobs'[i] = postponed_jobs[i]
    BY <1>1 DEF PInv, PeriodTypes
  <2> QED BY <1>1, <1>2, <2>1 DEF PInv, JobsOK
<1>6. WaitsOK' /\ SectionOK'
  BY <1>1 DEF PInv, WaitsOK, SectionOK
<1> QED BY <1>1, <1>2, <1>4, <1>5, <1>6 DEF PInv, Next

LEMMA BlockActiveStep ==
  ASSUME Assumptions, IInv, PInv, NEW j \in Jobs, Block_while_active(j)
  PROVE  PInv' /\ UNCHANGED vars
<1>1. /\ section = "application" /\ waking = {} /\ InThread
      /\ executing = Owner[j] /\ state[j] = "ACTIVE"
      /\ return_argument' = [return_argument EXCEPT ![executing] = j]
      /\ wait_flags' = [wait_flags EXCEPT ![executing] = "INTEND_TO_BLOCK"]
      /\ section' = "set_state"
      /\ UNCHANGED vars
      /\ UNCHANGED <<state, postponed_jobs, latest_deadline, scheduled, expire,
                     waking>>
  BY DEF Block_while_active, InApplication, NoInterrupt, CallBegins, jobVars,
         timerVars
<1>2. executing \in Threads
  BY <1>1 DEF Assumptions, ConstantsAssumption
<1>3. UNCHANGED <<current_state, executing, updates, preempt_enabled>>
  BY <1>1 DEF vars
<1>4. PeriodTypes'
  BY <1>1, <1>2 DEF PInv, PeriodTypes, WaitFlags, Sections
<1>5. JobsOK' /\ j \in scheduled
  BY <1>1 DEF PInv, JobsOK
<1>6. WaitsOK'
  <2> SUFFICES ASSUME NEW t \in Threads
               PROVE  /\ wait_flags'[t] = "INTEND_TO_BLOCK" => t = executing
                      /\ wait_flags'[t] = "BLOCKED" =>
                           "blocked" \in current_state[t] /\ t # executing
                      /\ wait_flags'[t] # "READY" =>
                           /\ return_argument'[t] \in scheduled
                           /\ t = Owner[return_argument'[t]]
    BY <1>1, <1>3 DEF WaitsOK
  <2>1. CASE t = executing
    BY <1>1, <1>2, <1>5, <2>1 DEF PInv, PeriodTypes
  <2>2. CASE t # executing
    BY <1>1, <2>2 DEF PInv, PeriodTypes, WaitsOK
  <2> QED BY <2>1, <2>2
<1>7. SectionOK'
  <2>1. "task" \in Contexts /\ Is_ready(executing) /\ executing \notin preempt_enabled
        /\ updates = [c \in Contexts |-> {}]
    BY <1>1 DEF InThread, Contexts
  <2>2. updates["task"] = {}
    BY <2>1
  <2> QED BY <1>1, <1>2, <1>3, <2>1, <2>2 DEF SectionOK, Is_ready
<1> QED BY <1>1, <1>4, <1>5, <1>6, <1>7 DEF PInv

LEMMA SetWaitingStep ==
  ASSUME Assumptions, IInv, PInv, Set_waiting_for_period
  PROVE  PInv' /\ Next
<1>1. /\ section = "set_state" /\ NoInterrupt
      /\ Thread_Set_state(executing, "blocked")
      /\ section' = "try_change"
      /\ current_state' = [current_state EXCEPT ![executing] = @ \union {"blocked"}]
      /\ UNCHANGED <<state, postponed_jobs, latest_deadline, scheduled, expire,
                     wait_flags, return_argument, waking, executing, updates,
                     preempt_enabled>>
  BY DEF Set_waiting_for_period, Thread_Set_state, jobVars, timerVars, waitVars
<1>2. InThread /\ executing \in Threads
  BY <1>1, BlockingInThread DEF PInv
<1>3. Next
  BY <1>1, <1>2 DEF Next, Set_state, States
<1>4. executing \in AllThreads /\ current_state \in [AllThreads -> SUBSET States]
  BY DEF IInv, ThreadsOK
<1>5. /\ "blocked" \in current_state'[executing]
      /\ \A t \in AllThreads : current_state[t] \subseteq current_state'[t]
  BY <1>1, <1>4
<1>6. PeriodTypes' /\ JobsOK'
  BY <1>1 DEF PInv, PeriodTypes, JobsOK, Sections
<1>7. WaitsOK'
  BY <1>1, <1>5 DEF PInv, WaitsOK, AllThreads
<1>8. SectionOK'
  BY <1>1, <1>5 DEF PInv, SectionOK
<1> QED BY <1>3, <1>6, <1>7, <1>8 DEF PInv

LEMMA TryChangeStep ==
  ASSUME Assumptions, IInv, PInv, Thread_Wait_flags_try_change
  PROVE  PInv' /\ UNCHANGED vars
<1>1. /\ section = "try_change" /\ waking = {}
      /\ UNCHANGED vars
      /\ UNCHANGED <<state, postponed_jobs, latest_deadline, scheduled, expire,
                     return_argument, waking>>
  BY DEF Thread_Wait_flags_try_change, NoInterrupt, jobVars, timerVars
<1>2. UNCHANGED <<current_state, executing, updates, preempt_enabled>>
  BY <1>1 DEF vars
<1>3. /\ executing \in Threads /\ "blocked" \in current_state[executing]
      /\ updates["task"] = {} /\ executing \notin preempt_enabled
  BY <1>1 DEF PInv, SectionOK
<1>4. JobsOK'
  BY <1>1 DEF PInv, JobsOK
<1>5. CASE wait_flags[executing] = "INTEND_TO_BLOCK"
  <2>1. /\ wait_flags' = [wait_flags EXCEPT ![executing] = "BLOCKED"]
        /\ section' = "application"
    BY <1>5 DEF Thread_Wait_flags_try_change
  <2>2. PeriodTypes'
    BY <1>1, <2>1 DEF PInv, PeriodTypes, WaitFlags, Sections
  <2>3. WaitsOK'
    <3> SUFFICES ASSUME NEW t \in Threads
                 PROVE  /\ wait_flags'[t] # "INTEND_TO_BLOCK"
                        /\ wait_flags'[t] = "BLOCKED" =>
                             "blocked" \in current_state[t]
                        /\ wait_flags'[t] # "READY" =>
                             /\ return_argument[t] \in scheduled
                             /\ t = Owner[return_argument[t]]
      BY <1>1, <1>2, <2>1 DEF WaitsOK
    <3>1. CASE t = executing
      BY <1>3, <1>5, <2>1, <3>1 DEF PInv, PeriodTypes, WaitsOK
    <3>2. CASE t # executing
      BY <2>1, <3>2 DEF PInv, PeriodTypes, WaitsOK
    <3> QED BY <3>1, <3>2
  <2>4. SectionOK'
    BY <2>1 DEF SectionOK
  <2> QED BY <1>1, <1>4, <2>2, <2>3, <2>4 DEF PInv
<1>6. CASE wait_flags[executing] # "INTEND_TO_BLOCK"
  <2>1. wait_flags' = wait_flags /\ section' = "unblock"
    BY <1>6 DEF Thread_Wait_flags_try_change
  <2>2. PeriodTypes'
    BY <1>1, <2>1 DEF PInv, PeriodTypes, Sections
  <2>3. WaitsOK'
    BY <1>1, <1>2, <1>6, <2>1 DEF PInv, WaitsOK
  <2>4. wait_flags[executing] = "READY"
    BY <1>1, <1>3, <1>6 DEF PInv, PeriodTypes, WaitsOK, WaitFlags
  <2>5. SectionOK'
    BY <1>2, <1>3, <2>1, <2>4 DEF SectionOK
  <2> QED BY <1>1, <1>4, <2>2, <2>3, <2>5 DEF PInv
<1> QED BY <1>5, <1>6

LEMMA UnblockExecutingStep ==
  ASSUME Assumptions, IInv, PInv, Unblock_executing
  PROVE  PInv' /\ Next
<1>1. /\ section = "unblock" /\ waking = {}
      /\ Thread_Clear_state(executing, "blocked")
      /\ section' = "application"
      /\ current_state' = [current_state EXCEPT ![executing] = @ \ {"blocked"}]
      /\ UNCHANGED <<state, postponed_jobs, latest_deadline, scheduled, expire,
                     wait_flags, return_argument, waking, executing>>
  BY DEF Unblock_executing, NoInterrupt, Thread_Clear_state, jobVars,
         timerVars, waitVars
<1>2. /\ executing \in Threads /\ "blocked" \in current_state[executing]
      /\ wait_flags[executing] = "READY"
  BY <1>1 DEF PInv, SectionOK
<1>3. Next
  BY <1>1, <1>2 DEF Next, Clear_state, States
<1>4. current_state \in [AllThreads -> SUBSET States]
  BY DEF IInv, ThreadsOK
<1>5. \A t \in AllThreads : t # executing => current_state'[t] = current_state[t]
  BY <1>1, <1>4
<1>6. PeriodTypes' /\ JobsOK'
  BY <1>1 DEF PInv, PeriodTypes, JobsOK, Sections
<1>7. WaitsOK'
  BY <1>1, <1>2, <1>5 DEF PInv, WaitsOK, AllThreads
<1>8. SectionOK'
  BY <1>1 DEF SectionOK
<1> QED BY <1>3, <1>6, <1>7, <1>8 DEF PInv

LEMMA CancelStepOfPeriod ==
  ASSUME Assumptions, IInv, PInv, NEW j \in Jobs, Cancel(j)
  PROVE  PInv' /\ Next
<1>1. /\ section = "application" /\ waking = {} /\ InThread
      /\ executing = Owner[j]
      /\ scheduled' = scheduled \ {j}
      /\ \/ postponed_jobs' = [postponed_jobs EXCEPT ![j] = 0]
         \/ Version # "6.2" /\ postponed_jobs' = postponed_jobs
      /\ state' = [state EXCEPT ![j] = "INACTIVE"]
      /\ Cancel_job(j)
      /\ UNCHANGED <<latest_deadline, expire, wait_flags, return_argument,
                     section, waking, current_state, executing>>
  BY DEF Cancel, InApplication, NoInterrupt, waitVars, Cancel_job, CallBegins,
         OnlyPrioritiesChange, Forget_postponed_jobs
<1>2. 0 \in 0..MaxPostponed
  BY DEF Assumptions, PeriodConstantsAssumption
<1>3. PeriodTypes'
  BY <1>1, <1>2 DEF PInv, PeriodTypes, PeriodStates
<1>4. JobsOK'
  BY <1>1 DEF PInv, PeriodTypes, JobsOK
<1>5. executing \in Threads /\ wait_flags[executing] = "READY"
  <2>1. executing \in Threads
    BY <1>1 DEF Assumptions, ConstantsAssumption
  <2>2. "blocked" \notin current_state[executing]
    BY <1>1 DEF InThread, Is_ready
  <2> QED BY <1>1, <2>1, <2>2 DEF PInv, PeriodTypes, WaitsOK, WaitFlags
<1>6. ASSUME NEW t \in Threads, wait_flags[t] # "READY"
      PROVE  return_argument[t] \in scheduled'
  BY <1>1, <1>5, <1>6 DEF PInv, WaitsOK
<1>7. WaitsOK' /\ SectionOK'
  BY <1>1, <1>6 DEF PInv, WaitsOK, SectionOK
<1> QED BY <1>1, <1>3, <1>4, <1>7 DEF PInv, Next

-----------------------------------------------------------------------------
(* The watchdog.                                                            *)

(* A timeout releases the job of a blocked thread, or of the executing one  *)
(* that has announced it will block and changes no priority.                *)
LEMMA RestartAllowed ==
  ASSUME Assumptions, IInv, PInv, NEW j \in Jobs, WaitsFor(j), NoInterrupt,
         Is_ready(Owner[j])
  PROVE  Owner[j] = executing /\ InThread
<1>1. Owner[j] \in Threads /\ wait_flags[Owner[j]] # "READY"
  BY DEF Assumptions, ConstantsAssumption, WaitsFor
<1>2. "blocked" \notin current_state[Owner[j]]
  BY DEF Is_ready
<1>3. wait_flags[Owner[j]] = "INTEND_TO_BLOCK"
  BY <1>1, <1>2 DEF PInv, PeriodTypes, WaitsOK, WaitFlags
<1>4. Owner[j] = executing /\ section = "set_state"
  BY <1>1, <1>2, <1>3 DEF PInv, WaitsOK, SectionOK
<1> QED BY <1>4, BlockingInThread DEF PInv

LEMMA RestartStep ==
  ASSUME Assumptions, IInv, PInv, NEW j \in Jobs, NEW d \in Deadlines,
         Timeout_restart(j, d)
  PROVE  PInv' /\ Next
<1> DEFINE owner == Owner[j]
<1>1. /\ NoInterrupt /\ waking = {} /\ WaitsFor(j)
      /\ return_argument' = [return_argument EXCEPT ![owner] = Null]
      /\ wait_flags' = [wait_flags EXCEPT ![owner] = "READY"]
      /\ waking' = IF wait_flags[owner] = "BLOCKED" THEN {owner} ELSE {}
      /\ scheduled' = scheduled \union {j}
      /\ expire' = [expire EXCEPT ![j] = d]
      /\ Scheduler_EDF_Release_job(j, d, "isr") /\ OnlyPrioritiesChange
      /\ UNCHANGED <<state, postponed_jobs, latest_deadline, section,
                     current_state, executing, preempt_enabled>>
  BY DEF Timeout_restart, NoInterrupt, Insert_ticks, jobVars,
         OnlyPrioritiesChange
<1>2. owner \in Threads /\ d \in Nat
  BY DEF Assumptions, ConstantsAssumption
<1>3. Release_job_from_ISR(j, d)
  BY <1>1, RestartAllowed DEF NoInterrupt, Release_job_from_ISR
<1>4. updates'["task"] = updates["task"]
  BY <1>1, ReleaseFromISR
<1>5. return_argument[owner] = j /\ wait_flags[owner] # "READY"
  BY <1>1 DEF WaitsFor
<1>6. j \in scheduled /\ scheduled' = scheduled
  BY <1>1, <1>2, <1>5 DEF PInv, WaitsOK
<1>7. PeriodTypes'
  BY <1>1, <1>2 DEF PInv, PeriodTypes, WaitFlags
<1>8. JobsOK'
  BY <1>1, <1>6 DEF PInv, JobsOK
<1>9. WaitsOK'
  <2> SUFFICES ASSUME NEW t \in Threads
               PROVE  /\ wait_flags'[t] = "INTEND_TO_BLOCK" =>
                           /\ t = executing
                           /\ section \in {"set_state", "try_change"}
                      /\ wait_flags'[t] = "BLOCKED" \/ t \in waking' =>
                           /\ "blocked" \in current_state[t]
                           /\ t = executing => section = "application"
                      /\ t \in waking' => wait_flags'[t] = "READY"
                      /\ wait_flags'[t] # "READY" =>
                           /\ return_argument'[t] \in scheduled
                           /\ t = Owner[return_argument'[t]]
    BY <1>1, <1>6 DEF WaitsOK
  <2>1. CASE t = owner
    <3>1. wait_flags'[t] = "READY"
      BY <1>1, <1>2, <2>1 DEF PInv, PeriodTypes
    <3>2. t \in waking' => wait_flags[t] = "BLOCKED"
      BY <1>1, <2>1
    <3> QED BY <3>1, <3>2 DEF PInv, WaitsOK
  <2>2. CASE t # owner
    <3>1. /\ wait_flags'[t] = wait_flags[t] /\ t \notin waking'
          /\ return_argument'[t] = return_argument[t]
      BY <1>1, <2>2 DEF PInv, PeriodTypes
    <3> QED BY <3>1 DEF PInv, WaitsOK
  <2> QED BY <2>1, <2>2
<1>10. SectionOK'
  <2>1. wait_flags[executing] = "READY" /\ executing \in Threads =>
          wait_flags'[executing] = "READY"
    BY <1>1 DEF PInv, PeriodTypes
  <2> QED BY <1>1, <1>4, <2>1 DEF PInv, SectionOK, Is_ready
<1> QED BY <1>3, <1>7, <1>8, <1>9, <1>10 DEF PInv, Next

LEMMA TimeoutUnblockStep ==
  ASSUME Assumptions, IInv, PInv, NEW t \in Threads, Timeout_unblock(t)
  PROVE  PInv' /\ Next
<1>1. /\ t \in waking /\ waking' = {}
      /\ Thread_Clear_state(t, "blocked")
      /\ current_state' = [current_state EXCEPT ![t] = @ \ {"blocked"}]
      /\ UNCHANGED <<state, postponed_jobs, latest_deadline, scheduled, expire,
                     wait_flags, return_argument, section, executing, updates,
                     preempt_enabled>>
  BY DEF Timeout_unblock, Thread_Clear_state, jobVars, timerVars, waitVars
<1>2. /\ "blocked" \in current_state[t] /\ wait_flags[t] = "READY"
      /\ t = executing => section = "application"
  BY <1>1 DEF PInv, WaitsOK
<1>3. Next
  BY <1>1, <1>2 DEF Next, Clear_state, States
<1>4. current_state \in [AllThreads -> SUBSET States]
  BY DEF IInv, ThreadsOK
<1>5. \A u \in AllThreads : u # t => current_state'[u] = current_state[u]
  BY <1>1, <1>4
<1>6. PeriodTypes' /\ JobsOK'
  BY <1>1 DEF PInv, PeriodTypes, JobsOK
<1>7. WaitsOK'
  BY <1>1, <1>2, <1>5 DEF PInv, WaitsOK, AllThreads
<1>8. SectionOK'
  BY <1>1, <1>2, <1>5 DEF PInv, SectionOK, Is_ready, AllThreads
<1> QED BY <1>3, <1>6, <1>7, <1>8 DEF PInv

LEMMA RenewStep ==
  ASSUME Assumptions, IInv, PInv, NEW j \in Jobs, NEW d \in Deadlines,
         Timeout_renew(j, d)
  PROVE  PInv' /\ UNCHANGED vars
<1>1. /\ j \in scheduled
      /\ postponed_jobs' = [postponed_jobs EXCEPT
                              ![j] = IF @ = MaxPostponed THEN @ ELSE @ + 1]
      /\ state' = [state EXCEPT ![j] = "EXPIRED"]
      /\ scheduled' = scheduled \union {j}
      /\ expire' = [expire EXCEPT ![j] = d]
      /\ latest_deadline' = [latest_deadline EXCEPT ![j] = d]
      /\ UNCHANGED vars
      /\ UNCHANGED <<wait_flags, return_argument, section, waking>>
  BY DEF Timeout_renew, Insert_ticks, waitVars
<1>2. UNCHANGED <<current_state, executing, updates, preempt_enabled>>
  BY <1>1 DEF vars
<1>3. d \in Nat
  BY DEF Assumptions, ConstantsAssumption
<1>4. PICK p : p = IF postponed_jobs[j] = MaxPostponed THEN postponed_jobs[j]
                   ELSE postponed_jobs[j] + 1
  OBVIOUS
<1>5. p \in 0..MaxPostponed /\ p > 0
  BY <1>4 DEF PInv, PeriodTypes, Assumptions, PeriodConstantsAssumption
<1>6. postponed_jobs' = [postponed_jobs EXCEPT ![j] = p]
  BY <1>1, <1>4
<1>7. PeriodTypes'
  BY <1>1, <1>3, <1>5, <1>6 DEF PInv, PeriodTypes, PeriodStates
<1>8. JobsOK'
  BY <1>1, <1>5, <1>6 DEF PInv, PeriodTypes, JobsOK
<1>9. WaitsOK' /\ SectionOK'
  BY <1>1, <1>2 DEF PInv, WaitsOK, SectionOK, Is_ready
<1> QED BY <1>1, <1>7, <1>8, <1>9 DEF PInv

-----------------------------------------------------------------------------
(* The rest of the scheduler.                                               *)

LEMMA OtherCallStep ==
  ASSUME Assumptions, IInv, PInv, OtherCall
  PROVE  PInv' /\ Next
<1>1. section = "application" /\ UNCHANGED periodVars /\ section' = section
  BY DEF OtherCall, InApplication, periodVars
<1>2. Next
  BY DEF OtherCall, Next
<1>3. /\ executing' = executing
      /\ \/ current_state' = current_state
         \/ \E t \in Threads, s \in States :
              current_state' = [current_state EXCEPT ![t] = @ \union {s}]
  BY DEF OtherCall, Set_state, Thread_Set_state, Yield, Set_preemptible,
         Schedule, Set_priority, OnlyPrioritiesChange
<1>4. current_state \in [AllThreads -> SUBSET States]
  BY DEF IInv, ThreadsOK
<1>5. \A t \in AllThreads : current_state[t] \subseteq current_state'[t]
  BY <1>3, <1>4
<1>6. WaitsOK' /\ PeriodTypes' /\ JobsOK'
  BY <1>1, <1>3, <1>5, WaitsKept DEF AllThreads
<1>7. SectionOK'
  BY <1>1 DEF SectionOK
<1> QED BY <1>2, <1>6, <1>7 DEF PInv

LEMMA OtherWakeupStep ==
  ASSUME Assumptions, IInv, PInv, NEW t \in Threads, NEW s \in States,
         OtherWakeup(t, s)
  PROVE  PInv' /\ Next
<1>1. /\ s = "blocked" => ~ OnPeriod(t)
      /\ s \in current_state[t]
      /\ current_state' = [current_state EXCEPT ![t] = @ \ {s}]
      /\ UNCHANGED periodVars
      /\ UNCHANGED <<executing, updates, preempt_enabled>>
  BY DEF OtherWakeup, Clear_state, Thread_Clear_state
<1>2. Next
  BY DEF OtherWakeup, Next
<1>3. current_state \in [AllThreads -> SUBSET States]
  BY DEF IInv, ThreadsOK
<1>4. ASSUME NEW u \in Threads, OnPeriod(u), "blocked" \in current_state[u]
      PROVE  "blocked" \in current_state'[u]
  BY <1>1, <1>3, <1>4 DEF AllThreads
<1>5. WaitsOK' /\ PeriodTypes' /\ JobsOK'
  BY <1>1, <1>4, WaitsKept
<1>6. UNCHANGED <<section, wait_flags>>
  BY <1>1 DEF periodVars, waitVars
<1>7. SectionOK'
  <2> SUFFICES ASSUME section # "application"
               PROVE  /\ section = "set_state" => current_state'[executing] = {}
                      /\ section # "set_state" =>
                           "blocked" \in current_state'[executing]
    BY <1>1, <1>6 DEF PInv, SectionOK, Is_ready
  <2>1. /\ executing \in Threads /\ OnPeriod(executing)
        /\ section = "set_state" => current_state[executing] = {}
        /\ section # "set_state" => "blocked" \in current_state[executing]
    BY DEF PInv, SectionOK, Is_ready, OnPeriod
  <2>2. section = "set_state" => current_state'[executing] = {}
    BY <1>1, <1>3, <2>1 DEF AllThreads
  <2> QED BY <1>4, <2>1, <2>2
<1> QED BY <1>2, <1>5, <1>7 DEF PInv

LEMMA UpdateStep ==
  ASSUME Assumptions, IInv, PInv, NEW c \in Contexts, NEW t \in AllThreads,
         Update(c, t)
  PROVE  PInv' /\ Next
<1>1. /\ updates' = [updates EXCEPT ![c] = @ \ {t}]
      /\ UNCHANGED periodVars
      /\ UNCHANGED <<executing, current_state, preempt_enabled>>
  BY DEF Update, Thread_Priority_update
<1>2. Next
  BY DEF Update, Next
<1>3. WaitsOK' /\ PeriodTypes' /\ JobsOK'
  BY <1>1, WaitsKept
<1>4. UNCHANGED <<section, wait_flags>>
  BY <1>1 DEF periodVars, waitVars
<1>5. updates["task"] = {} => updates'["task"] = {}
  BY <1>1 DEF IInv, Aggregations
<1>6. SectionOK'
  BY <1>1, <1>4, <1>5 DEF PInv, SectionOK, Is_ready
<1> QED BY <1>2, <1>3, <1>6 DEF PInv

LEMMA DispatchStep ==
  ASSUME Assumptions, IInv, PInv, Dispatch_enabled
  PROVE  PInv' /\ Next
<1>1. /\ section = "application" /\ waking = {}
      /\ UNCHANGED <<state, postponed_jobs, latest_deadline, scheduled, expire,
                     wait_flags, return_argument, section, waking,
                     current_state>>
  BY DEF Dispatch_enabled, InApplication, NoInterrupt, Dispatch, periodVars,
         jobVars, timerVars, waitVars
<1>2. Next
  BY DEF Dispatch_enabled, Next
<1>3. PeriodTypes' /\ JobsOK'
  BY <1>1 DEF PInv, PeriodTypes, JobsOK
<1>4. WaitsOK' /\ SectionOK'
  BY <1>1 DEF PInv, WaitsOK, SectionOK
<1> QED BY <1>2, <1>3, <1>4 DEF PInv

(* Every step of the periods is a step of the scheduler or none.            *)
LEMMA PeriodStep ==
  ASSUME Assumptions, IInv, PInv, [PeriodNext]_allVars
  PROVE  PInv' /\ [Next]_vars
<1>1. ASSUME NEW j \in Jobs, NEW d \in Deadlines,
             Activate(j, d) \/ Timeout_restart(j, d) \/ Timeout_renew(j, d)
      PROVE  PInv' /\ [Next]_vars
  BY <1>1, ActivateStep, RestartStep, RenewStep
<1>2. ASSUME NEW j \in Jobs,
             Block_while_expired(j) \/ Block_while_active(j) \/ Cancel(j)
      PROVE  PInv' /\ [Next]_vars
  BY <1>2, BlockExpiredStep, BlockActiveStep, CancelStepOfPeriod
<1>3. ASSUME \/ Set_waiting_for_period \/ Thread_Wait_flags_try_change
             \/ Unblock_executing \/ Dispatch_enabled \/ OtherCall
      PROVE  PInv' /\ [Next]_vars
  BY <1>3, SetWaitingStep, TryChangeStep, UnblockExecutingStep, DispatchStep,
     OtherCallStep
<1>4. ASSUME NEW t \in Threads,
             \/ Timeout_unblock(t)
             \/ \E s \in States : OtherWakeup(t, s)
      PROVE  PInv' /\ [Next]_vars
  BY <1>4, TimeoutUnblockStep, OtherWakeupStep
<1>5. ASSUME NEW c \in Contexts, NEW t \in AllThreads, Update(c, t)
      PROVE  PInv' /\ [Next]_vars
  BY <1>5, UpdateStep
<1>6. ASSUME UNCHANGED allVars
      PROVE  PInv' /\ [Next]_vars
  <2>1. /\ UNCHANGED vars
        /\ UNCHANGED <<state, postponed_jobs, latest_deadline, scheduled,
                       expire, wait_flags, return_argument, section, waking>>
    BY <1>6 DEF allVars, periodVars, jobVars, timerVars, waitVars
  <2>2. UNCHANGED <<current_state, executing, updates, preempt_enabled>>
    BY <2>1 DEF vars
  <2>3. PeriodTypes' /\ JobsOK' /\ WaitsOK' /\ SectionOK'
    BY <2>1, <2>2 DEF PInv, PeriodTypes, JobsOK, WaitsOK, SectionOK, Is_ready
  <2> QED BY <2>1, <2>3 DEF PInv
<1> QED BY <1>1, <1>2, <1>3, <1>4, <1>5, <1>6 DEF PeriodNext, Proceed, Timeout

-----------------------------------------------------------------------------
(* Watchdogs and jobs.                                                      *)

(* A job counts for its owner as long as the period is not inactive, and    *)
(* the watchdog expires at its deadline or at the last postponed one.       *)
JobsTimed ==
  \A j \in Jobs :
    /\ Is_active(j) <=> state[j] # "INACTIVE"
    /\ j \in scheduled =>
         expire[j] = IF postponed_jobs[j] > 0 THEN latest_deadline[j]
                     ELSE contributors[Owner[j]][j]

(* Nobody waits for a period with postponed jobs: what its timeout releases *)
(* is the next job.                                                         *)
WaitersAreInTime ==
  \A t \in Threads :
    wait_flags[t] # "READY" => postponed_jobs[return_argument[t]] = 0

TInv == JobsTimed /\ WaitersAreInTime

(* The job i is left alone.                                                 *)
JobKept(i) ==
  /\ Is_active(i)' <=> Is_active(i)
  /\ Is_active(i) => contributors'[Owner[i]][i] = contributors[Owner[i]][i]

(* The node of one job, and no other job's, is replaced or added.           *)
LEMMA NodeReplaced ==
  ASSUME Assumptions, IInv, NEW t \in Threads, NEW node, NEW p,
         contributors' = [contributors EXCEPT ![t] =
                            [n \in DOMAIN contributors[t] \union {node} |->
                               IF n = node THEN p ELSE contributors[t][n]]]
  PROVE  /\ \A i \in Jobs : i # node => JobKept(i)
         /\ \A i \in Jobs : i = node /\ Owner[i] = t =>
              Is_active(i)' /\ contributors'[Owner[i]][i] = p
<1>1. PICK nodes : nodes = [n \in DOMAIN contributors[t] \union {node} |->
                              IF n = node THEN p ELSE contributors[t][n]]
  OBVIOUS
<1>2. t \in AllThreads /\ contributors = [u \in AllThreads |-> contributors[u]]
  BY DEF AllThreads, IInv, Aggregations
<1>3. /\ contributors'[t] = nodes
      /\ \A u \in AllThreads : u # t => contributors'[u] = contributors[u]
  BY <1>1, <1>2
<1>4. /\ DOMAIN nodes = DOMAIN contributors[t] \union {node} /\ nodes[node] = p
      /\ \A n \in DOMAIN contributors[t] : n # node => nodes[n] = contributors[t][n]
  BY <1>1
<1>5. ASSUME NEW i \in Jobs
      PROVE  Owner[i] \in AllThreads
  BY DEF Assumptions, ConstantsAssumption, AllThreads
<1>6. ASSUME NEW i \in Jobs, i # node
      PROVE  JobKept(i)
  <2>1. CASE Owner[i] # t
    BY <1>3, <1>5, <2>1 DEF JobKept, Is_active
  <2>2. CASE Owner[i] = t
    BY <1>3, <1>4, <1>6, <2>2 DEF JobKept, Is_active
  <2> QED BY <2>1, <2>2
<1>7. ASSUME NEW i \in Jobs, i = node, Owner[i] = t
      PROVE  Is_active(i)' /\ contributors'[Owner[i]][i] = p
  BY <1>3, <1>4, <1>7 DEF Is_active
<1> QED BY <1>6, <1>7

LEMMA ReleaseNode ==
  ASSUME Assumptions, IInv, NEW j \in Jobs, NEW d, NEW context,
         Scheduler_EDF_Release_job(j, d, context)
  PROVE  /\ \A i \in Jobs : i # j => JobKept(i)
         /\ Is_active(j)' /\ contributors'[Owner[j]][j] = d
<1> DEFINE old == contributors[Owner[j]]
<1>1. Owner[j] \in Threads
  BY DEF Assumptions, ConstantsAssumption
<1>2. contributors' = [contributors EXCEPT ![Owner[j]] =
                         [n \in DOMAIN old \union {j} |->
                            IF n = j THEN d ELSE old[n]]]
  <2>1. CASE Is_active(j)
    <3>1. DOMAIN old \union {j} = DOMAIN old
      BY <2>1 DEF Is_active
    <3> QED BY <2>1, <3>1 DEF Scheduler_EDF_Release_job, Thread_Priority_changed
  <2>2. CASE ~ Is_active(j)
    BY <2>2 DEF Scheduler_EDF_Release_job, Thread_Priority_add
  <2> QED BY <2>1, <2>2
<1> QED BY <1>1, <1>2, NodeReplaced

LEMMA CancelNode ==
  ASSUME Assumptions, IInv, NEW j \in Jobs, NEW context,
         Scheduler_EDF_Cancel_job(j, context)
  PROVE  (\A i \in Jobs : i # j => JobKept(i)) /\ ~ Is_active(j)'
<1>1. Owner[j] \in AllThreads /\ contributors = [u \in AllThreads |-> contributors[u]]
  BY DEF Assumptions, ConstantsAssumption, AllThreads, IInv, Aggregations
<1>2. CASE Is_active(j)
  <2>1. PICK nodes : nodes = [n \in DOMAIN contributors[Owner[j]] \ {j} |->
                                contributors[Owner[j]][n]]
    OBVIOUS
  <2>2. contributors' = [contributors EXCEPT ![Owner[j]] = nodes]
    BY <1>2, <2>1 DEF Scheduler_EDF_Cancel_job, Thread_Priority_remove
  <2>3. /\ contributors'[Owner[j]] = nodes
        /\ \A u \in AllThreads : u # Owner[j] => contributors'[u] = contributors[u]
    BY <1>1, <2>2
  <2>4. /\ DOMAIN nodes = DOMAIN contributors[Owner[j]] \ {j}
        /\ \A n \in DOMAIN nodes : nodes[n] = contributors[Owner[j]][n]
    BY <2>1
  <2>5. ASSUME NEW i \in Jobs, i # j
        PROVE  JobKept(i)
    <3>1. Owner[i] \in AllThreads
      BY DEF Assumptions, ConstantsAssumption, AllThreads
    <3>2. CASE Owner[i] # Owner[j]
      BY <2>3, <3>1, <3>2 DEF JobKept, Is_active
    <3>3. CASE Owner[i] = Owner[j]
      <4>1. CASE i \in DOMAIN nodes
        BY <2>3, <2>4, <3>3, <4>1 DEF JobKept, Is_active
      <4>2. CASE i \notin DOMAIN nodes
        <5>1. i \notin DOMAIN contributors[Owner[j]]
          BY <2>4, <2>5, <4>2
        <5> QED BY <2>3, <3>3, <4>2, <5>1 DEF JobKept, Is_active
      <4> QED BY <4>1, <4>2
    <3> QED BY <3>2, <3>3
  <2>6. ~ Is_active(j)'
    BY <2>3, <2>4 DEF Is_active
  <2> QED BY <2>5, <2>6
<1>3. CASE ~ Is_active(j)
  <2>1. contributors' = contributors
    BY <1>3 DEF Scheduler_EDF_Cancel_job, priorityVars
  <2> QED BY <1>3, <2>1 DEF JobKept, Is_active
<1> QED BY <1>2, <1>3

(* What does not touch periods or jobs.                                     *)
LEMMA JobsTimedKept ==
  ASSUME PInv, JobsTimed, \A i \in Jobs : JobKept(i),
         UNCHANGED <<state, scheduled, expire, postponed_jobs, latest_deadline>>
  PROVE  JobsTimed'
<1> SUFFICES ASSUME NEW i \in Jobs
             PROVE  /\ Is_active(i)' <=> state[i] # "INACTIVE"
                    /\ i \in scheduled =>
                         expire[i] = IF postponed_jobs[i] > 0
                                     THEN latest_deadline[i]
                                     ELSE contributors'[Owner[i]][i]
  BY DEF JobsTimed
<1>1. JobKept(i) /\ (i \in scheduled <=> state[i] # "INACTIVE")
  BY DEF PInv, JobsOK
<1> QED BY <1>1 DEF JobsTimed, JobKept

LEMMA NothingKept ==
  ASSUME contributors' = contributors
  PROVE  \A i \in Jobs : JobKept(i)
BY DEF JobKept, Is_active

(* A change of the fixed priority leaves the jobs alone.                    *)
LEMMA OtherCallKept ==
  ASSUME Assumptions, IInv, OtherCall
  PROVE  \A i \in Jobs : JobKept(i)
<1>1. CASE \E t \in Threads, p \in Priorities : Set_priority(t, p)
  <2>1. PICK t \in Threads, p \in Priorities : Set_priority(t, p)
    BY <1>1
  <2>2. Real \in DOMAIN contributors[t] /\ t \in AllThreads
    BY DEF AllThreads, IInv, Aggregations, WellFormed
  <2>3. contributors' = [contributors EXCEPT ![t] =
                           [n \in DOMAIN contributors[t] \union {Real} |->
                              IF n = Real THEN Map_priority(p)
                              ELSE contributors[t][n]]]
    <3>1. DOMAIN contributors[t] \union {Real} = DOMAIN contributors[t]
      BY <2>2
    <3> QED BY <2>1, <3>1 DEF Set_priority, Thread_Priority_changed
  <2>4. \A i \in Jobs : i # Real
    BY DEF Assumptions, ConstantsAssumption
  <2> QED BY <2>3, <2>4, NodeReplaced
<1>2. CASE ~ \E t \in Threads, p \in Priorities : Set_priority(t, p)
  <2>1. contributors' = contributors
    BY <1>2 DEF OtherCall, Set_state, Thread_Set_state, Yield, Set_preemptible,
                Schedule, priorityVars
  <2> QED BY <2>1, NothingKept
<1> QED BY <1>1, <1>2

LEMMA ActivateTimed ==
  ASSUME Assumptions, IInv, PInv, TInv, NEW j \in Jobs, NEW d \in Deadlines,
         Activate(j, d)
  PROVE  TInv'
<1>1. /\ state[j] = "INACTIVE"
      /\ state' = [state EXCEPT ![j] = "ACTIVE"]
      /\ scheduled' = scheduled \union {j}
      /\ expire' = [expire EXCEPT ![j] = d]
      /\ \/ postponed_jobs' = [postponed_jobs EXCEPT ![j] = 0]
         \/ Version # "5.1" /\ postponed_jobs' = postponed_jobs
      /\ Scheduler_EDF_Release_job(j, d, "task")
      /\ UNCHANGED <<latest_deadline, wait_flags, return_argument>>
  BY DEF Activate, Insert_ticks, waitVars, Release_job, Forget_postponed_jobs
<1>2. postponed_jobs' = [postponed_jobs EXCEPT ![j] = 0]
  <2>1. Version # "5.1" => postponed_jobs[j] = 0
    BY <1>1 DEF PInv, JobsOK, Assumptions, ConstantsAssumption
  <2> QED BY <1>1, <2>1 DEF PInv, PeriodTypes
<1>3. /\ \A i \in Jobs : i # j => JobKept(i)
      /\ Is_active(j)' /\ contributors'[Owner[j]][j] = d
  BY <1>1, ReleaseNode
<1>4. JobsTimed'
  <2> SUFFICES ASSUME NEW i \in Jobs
               PROVE  /\ Is_active(i)' <=> state'[i] # "INACTIVE"
                      /\ i \in scheduled' =>
                           expire'[i] = IF postponed_jobs'[i] > 0
                                        THEN latest_deadline[i]
                                        ELSE contributors'[Owner[i]][i]
    BY <1>1 DEF JobsTimed
  <2>1. CASE i = j
    <3>1. state'[j] = "ACTIVE" /\ expire'[j] = d /\ postponed_jobs'[j] = 0
      BY <1>1, <1>2 DEF PInv, PeriodTypes
    <3> QED BY <1>3, <2>1, <3>1
  <2>2. CASE i # j
    <3>1. /\ state'[i] = state[i] /\ expire'[i] = expire[i]
          /\ postponed_jobs'[i] = postponed_jobs[i]
          /\ i \in scheduled' => i \in scheduled /\ state[i] # "INACTIVE"
      BY <1>1, <1>2, <2>2 DEF PInv, PeriodTypes, JobsOK
    <3> QED BY <1>3, <2>2, <3>1 DEF TInv, JobsTimed, JobKept
  <2> QED BY <2>1, <2>2
<1>5. WaitersAreInTime'
  <2> SUFFICES ASSUME NEW t \in Threads, wait_flags[t] # "READY"
               PROVE  postponed_jobs'[return_argument[t]] = 0
    BY <1>1 DEF WaitersAreInTime
  <2>1. postponed_jobs[return_argument[t]] = 0 /\ return_argument[t] \in Jobs
    BY DEF TInv, WaitersAreInTime, PInv, WaitsOK, PeriodTypes
  <2> QED BY <1>2, <2>1 DEF PInv, PeriodTypes
<1> QED BY <1>4, <1>5 DEF TInv

LEMMA BlockExpiredTimed ==
  ASSUME Assumptions, IInv, PInv, TInv, NEW j \in Jobs, Block_while_expired(j)
  PROVE  TInv'
<1>1. /\ HasPostponedJob(j)
      /\ state' = [state EXCEPT ![j] = "ACTIVE"]
      /\ postponed_jobs' = [postponed_jobs EXCEPT ![j] = @ - 1]
      /\ Scheduler_EDF_Release_job(j, latest_deadline[j], "task")
      /\ UNCHANGED <<scheduled, expire, latest_deadline, wait_flags,
                     return_argument>>
  BY DEF Block_while_expired, timerVars, waitVars, Release_job
<1>2. postponed_jobs[j] > 0 /\ state[j] # "INACTIVE" /\ j \in scheduled
  BY <1>1 DEF PInv, JobsOK, HasPostponedJob
<1>3. /\ \A i \in Jobs : i # j => JobKept(i)
      /\ Is_active(j)' /\ contributors'[Owner[j]][j] = latest_deadline[j]
  BY <1>1, ReleaseNode
<1>4. \A i \in Jobs : i # j => /\ state'[i] = state[i]
                               /\ postponed_jobs'[i] = postponed_jobs[i]
  BY <1>1 DEF PInv, PeriodTypes
<1>5. JobsTimed'
  <2> SUFFICES ASSUME NEW i \in Jobs
               PROVE  /\ Is_active(i)' <=> state'[i] # "INACTIVE"
                      /\ i \in scheduled =>
                           expire[i] = IF postponed_jobs'[i] > 0
                                       THEN latest_deadline[i]
                                       ELSE contributors'[Owner[i]][i]
    BY <1>1 DEF JobsTimed
  <2>1. CASE i = j
    <3>1. state'[j] = "ACTIVE"
      BY <1>1 DEF PInv, PeriodTypes
    <3>2. expire[j] = latest_deadline[j]
      BY <1>2 DEF TInv, JobsTimed
    <3> QED BY <1>3, <2>1, <3>1, <3>2
  <2>2. CASE i # j
    <3>1. i \in scheduled => Is_active(i)
      BY DEF PInv, JobsOK, TInv, JobsTimed
    <3> QED BY <1>3, <1>4, <2>2, <3>1 DEF TInv, JobsTimed, JobKept
  <2> QED BY <2>1, <2>2
<1>6. WaitersAreInTime'
  <2> SUFFICES ASSUME NEW t \in Threads, wait_flags[t] # "READY"
               PROVE  postponed_jobs'[return_argument[t]] = 0
    BY <1>1 DEF WaitersAreInTime
  <2>1. postponed_jobs[return_argument[t]] = 0 /\ return_argument[t] \in Jobs
    BY DEF TInv, WaitersAreInTime, PInv, WaitsOK, PeriodTypes
  <2>2. return_argument[t] # j
    BY <1>2, <2>1
  <2> QED BY <1>4, <2>1, <2>2
<1> QED BY <1>5, <1>6 DEF TInv

LEMMA CancelTimed ==
  ASSUME Assumptions, IInv, PInv, TInv, NEW j \in Jobs, Cancel(j)
  PROVE  TInv'
<1>1. /\ state' = [state EXCEPT ![j] = "INACTIVE"]
      /\ scheduled' = scheduled \ {j}
      /\ \/ postponed_jobs' = [postponed_jobs EXCEPT ![j] = 0]
         \/ postponed_jobs' = postponed_jobs
      /\ Scheduler_EDF_Cancel_job(j, "task")
      /\ UNCHANGED <<expire, latest_deadline, wait_flags, return_argument>>
  BY DEF Cancel, waitVars, Cancel_job, Forget_postponed_jobs
<1>2. (\A i \in Jobs : i # j => JobKept(i)) /\ ~ Is_active(j)'
  BY <1>1, CancelNode
<1>3. /\ state'[j] = "INACTIVE"
      /\ \A i \in Jobs : i # j => /\ state'[i] = state[i]
                                  /\ postponed_jobs'[i] = postponed_jobs[i]
      /\ \A i \in Jobs : postponed_jobs[i] = 0 => postponed_jobs'[i] = 0
  BY <1>1 DEF PInv, PeriodTypes
<1>4. JobsTimed'
  <2> SUFFICES ASSUME NEW i \in Jobs
               PROVE  /\ Is_active(i)' <=> state'[i] # "INACTIVE"
                      /\ i \in scheduled' =>
                           expire[i] = IF postponed_jobs'[i] > 0
                                       THEN latest_deadline[i]
                                       ELSE contributors'[Owner[i]][i]
    BY <1>1 DEF JobsTimed
  <2>1. CASE i = j
    BY <1>1, <1>2, <1>3, <2>1
  <2>2. CASE i # j
    <3>1. i \in scheduled' => i \in scheduled /\ Is_active(i)
      BY <1>1 DEF PInv, JobsOK, TInv, JobsTimed
    <3> QED BY <1>2, <1>3, <2>2, <3>1 DEF TInv, JobsTimed, JobKept
  <2> QED BY <2>1, <2>2
<1>5. WaitersAreInTime'
  <2> SUFFICES ASSUME NEW t \in Threads, wait_flags[t] # "READY"
               PROVE  postponed_jobs'[return_argument[t]] = 0
    BY <1>1 DEF WaitersAreInTime
  <2>1. postponed_jobs[return_argument[t]] = 0 /\ return_argument[t] \in Jobs
    BY DEF TInv, WaitersAreInTime, PInv, WaitsOK, PeriodTypes
  <2> QED BY <1>3, <2>1
<1> QED BY <1>4, <1>5 DEF TInv

LEMMA RestartTimed ==
  ASSUME Assumptions, IInv, PInv, TInv, NEW j \in Jobs, NEW d \in Deadlines,
         Timeout_restart(j, d)
  PROVE  TInv'
<1>1. /\ j \in scheduled /\ WaitsFor(j)
      /\ return_argument' = [return_argument EXCEPT ![Owner[j]] = Null]
      /\ wait_flags' = [wait_flags EXCEPT ![Owner[j]] = "READY"]
      /\ scheduled' = scheduled \union {j}
      /\ expire' = [expire EXCEPT ![j] = d]
      /\ Scheduler_EDF_Release_job(j, d, "isr")
      /\ UNCHANGED <<state, postponed_jobs, latest_deadline>>
  BY DEF Timeout_restart, Insert_ticks, jobVars
<1>2. Owner[j] \in Threads
  BY DEF Assumptions, ConstantsAssumption
<1>3. postponed_jobs[j] = 0
  BY <1>1, <1>2 DEF TInv, WaitersAreInTime, WaitsFor
<1>4. /\ \A i \in Jobs : i # j => JobKept(i)
      /\ Is_active(j)' /\ contributors'[Owner[j]][j] = d
  BY <1>1, ReleaseNode
<1>5. JobsTimed'
  <2> SUFFICES ASSUME NEW i \in Jobs
               PROVE  /\ Is_active(i)' <=> state[i] # "INACTIVE"
                      /\ i \in scheduled' =>
                           expire'[i] = IF postponed_jobs[i] > 0
                                        THEN latest_deadline[i]
                                        ELSE contributors'[Owner[i]][i]
    BY <1>1 DEF JobsTimed
  <2>1. CASE i = j
    <3>1. expire'[j] = d /\ state[j] # "INACTIVE"
      BY <1>1 DEF PInv, PeriodTypes, JobsOK
    <3> QED BY <1>3, <1>4, <2>1, <3>1
  <2>2. CASE i # j
    <3>1. i \in scheduled' => i \in scheduled /\ Is_active(i)
      BY <1>1, <2>2 DEF PInv, JobsOK, TInv, JobsTimed
    <3>2. expire'[i] = expire[i]
      BY <1>1, <2>2 DEF PInv, PeriodTypes
    <3> QED BY <1>4, <2>2, <3>1, <3>2 DEF TInv, JobsTimed, JobKept
  <2> QED BY <2>1, <2>2
<1>6. WaitersAreInTime'
  <2> SUFFICES ASSUME NEW t \in Threads, wait_flags'[t] # "READY"
               PROVE  postponed_jobs[return_argument'[t]] = 0
    BY <1>1 DEF WaitersAreInTime
  <2>1. t # Owner[j]
    BY <1>1, <1>2 DEF PInv, PeriodTypes
  <2> QED BY <1>1, <2>1 DEF PInv, PeriodTypes, TInv, WaitersAreInTime
<1> QED BY <1>5, <1>6 DEF TInv

LEMMA RenewTimed ==
  ASSUME Assumptions, IInv, PInv, TInv, NEW j \in Jobs, NEW d \in Deadlines,
         Timeout_renew(j, d)
  PROVE  TInv'
<1>1. /\ j \in scheduled /\ ~ WaitsFor(j)
      /\ postponed_jobs' = [postponed_jobs EXCEPT
                              ![j] = IF @ = MaxPostponed THEN @ ELSE @ + 1]
      /\ state' = [state EXCEPT ![j] = "EXPIRED"]
      /\ scheduled' = scheduled \union {j}
      /\ expire' = [expire EXCEPT ![j] = d]
      /\ latest_deadline' = [latest_deadline EXCEPT ![j] = d]
      /\ UNCHANGED <<contributors, wait_flags, return_argument>>
  BY DEF Timeout_renew, Insert_ticks, waitVars, vars, priorityVars
<1>2. postponed_jobs'[j] > 0
  <2>1. /\ postponed_jobs[j] \in 0..MaxPostponed /\ MaxPostponed \in Nat \ {0}
        /\ postponed_jobs'[j] = IF postponed_jobs[j] = MaxPostponed
                                THEN postponed_jobs[j] ELSE postponed_jobs[j] + 1
    BY <1>1 DEF PInv, PeriodTypes, Assumptions, PeriodConstantsAssumption
  <2> QED BY <2>1
<1>3. /\ state'[j] = "EXPIRED" /\ expire'[j] = d /\ latest_deadline'[j] = d
      /\ \A i \in Jobs : i # j =>
           /\ state'[i] = state[i] /\ expire'[i] = expire[i]
           /\ postponed_jobs'[i] = postponed_jobs[i]
           /\ latest_deadline'[i] = latest_deadline[i]
  BY <1>1 DEF PInv, PeriodTypes
<1>4. \A i \in Jobs : JobKept(i)
  BY <1>1, NothingKept
<1>5. JobsTimed'
  <2> SUFFICES ASSUME NEW i \in Jobs
               PROVE  /\ Is_active(i)' <=> state'[i] # "INACTIVE"
                      /\ i \in scheduled' =>
                           expire'[i] = IF postponed_jobs'[i] > 0
                                        THEN latest_deadline'[i]
                                        ELSE contributors[Owner[i]][i]
    BY <1>1 DEF JobsTimed
  <2>1. CASE i = j
    <3>1. Is_active(j)
      BY <1>1 DEF PInv, JobsOK, TInv, JobsTimed
    <3> QED BY <1>2, <1>3, <1>4, <2>1, <3>1 DEF JobKept
  <2>2. CASE i # j
    <3>1. i \in scheduled' => i \in scheduled
      BY <1>1, <2>2
    <3> QED BY <1>3, <1>4, <2>2, <3>1 DEF TInv, JobsTimed, JobKept
  <2> QED BY <2>1, <2>2
<1>6. WaitersAreInTime'
  <2> SUFFICES ASSUME NEW t \in Threads, wait_flags[t] # "READY"
               PROVE  postponed_jobs'[return_argument[t]] = 0
    BY <1>1 DEF WaitersAreInTime
  <2>1. /\ postponed_jobs[return_argument[t]] = 0 /\ return_argument[t] \in Jobs
        /\ t = Owner[return_argument[t]]
    BY DEF TInv, WaitersAreInTime, PInv, WaitsOK, PeriodTypes
  <2>2. return_argument[t] # j
    BY <1>1, <2>1 DEF WaitsFor
  <2> QED BY <1>3, <2>1, <2>2
<1> QED BY <1>5, <1>6 DEF TInv

LEMMA BlockActiveTimed ==
  ASSUME Assumptions, IInv, PInv, TInv, NEW j \in Jobs, Block_while_active(j)
  PROVE  TInv'
<1>1. /\ state[j] = "ACTIVE" /\ ~ HasPostponedJob(j)
      /\ return_argument' = [return_argument EXCEPT ![Owner[j]] = j]
      /\ wait_flags' = [wait_flags EXCEPT ![Owner[j]] = "INTEND_TO_BLOCK"]
      /\ UNCHANGED <<state, postponed_jobs, latest_deadline, scheduled, expire,
                     contributors>>
  BY DEF Block_while_active, jobVars, timerVars, vars, priorityVars
<1>2. postponed_jobs[j] = 0
  BY <1>1 DEF HasPostponedJob, PInv, PeriodTypes
<1>3. JobsTimed'
  BY <1>1, NothingKept, JobsTimedKept DEF TInv
<1>4. WaitersAreInTime'
  <2> SUFFICES ASSUME NEW t \in Threads, wait_flags'[t] # "READY"
               PROVE  postponed_jobs[return_argument'[t]] = 0
    BY <1>1 DEF WaitersAreInTime
  <2>1. CASE t = Owner[j]
    BY <1>1, <1>2, <2>1 DEF PInv, PeriodTypes
  <2>2. CASE t # Owner[j]
    BY <1>1, <2>2 DEF PInv, PeriodTypes, TInv, WaitersAreInTime
  <2> QED BY <2>1, <2>2
<1> QED BY <1>3, <1>4 DEF TInv

LEMMA TryChangeTimed ==
  ASSUME Assumptions, IInv, PInv, TInv, Thread_Wait_flags_try_change
  PROVE  TInv'
<1>1. /\ \/ wait_flags' = wait_flags
         \/ /\ wait_flags[executing] = "INTEND_TO_BLOCK"
            /\ wait_flags' = [wait_flags EXCEPT ![executing] = "BLOCKED"]
      /\ UNCHANGED <<state, postponed_jobs, latest_deadline, scheduled, expire,
                     return_argument, contributors>>
  BY DEF Thread_Wait_flags_try_change, jobVars, timerVars, vars, priorityVars
<1>2. JobsTimed'
  BY <1>1, NothingKept, JobsTimedKept DEF TInv
<1>3. WaitersAreInTime'
  <2>1. ASSUME NEW t \in Threads, wait_flags'[t] # "READY"
        PROVE  wait_flags[t] # "READY"
    BY <1>1, <2>1 DEF PInv, PeriodTypes
  <2> QED BY <1>1, <2>1 DEF TInv, WaitersAreInTime
<1> QED BY <1>2, <1>3 DEF TInv

(* Steps that leave the periods alone.                                      *)
LEMMA OtherTimed ==
  ASSUME Assumptions, IInv, PInv, TInv, \A i \in Jobs : JobKept(i),
         UNCHANGED <<state, postponed_jobs, latest_deadline, scheduled, expire,
                     wait_flags, return_argument>>
  PROVE  TInv'
<1>1. JobsTimed'
  BY JobsTimedKept DEF TInv
<1>2. WaitersAreInTime'
  BY DEF TInv, WaitersAreInTime
<1> QED BY <1>1, <1>2 DEF TInv

LEMMA TimedStep ==
  ASSUME Assumptions, IInv, PInv, TInv, [PeriodNext]_allVars
  PROVE  TInv'
<1>1. ASSUME NEW j \in Jobs, NEW d \in Deadlines,
             Activate(j, d) \/ Timeout_restart(j, d) \/ Timeout_renew(j, d)
      PROVE  TInv'
  BY <1>1, ActivateTimed, RestartTimed, RenewTimed
<1>2. ASSUME NEW j \in Jobs,
             Block_while_expired(j) \/ Block_while_active(j) \/ Cancel(j)
      PROVE  TInv'
  BY <1>2, BlockExpiredTimed, BlockActiveTimed, CancelTimed
<1>3. CASE Thread_Wait_flags_try_change
  BY <1>3, TryChangeTimed
<1>4. ASSUME \/ Set_waiting_for_period \/ Unblock_executing
             \/ \E t \in Threads : Timeout_unblock(t)
      PROVE  TInv'
  <2>1. UNCHANGED <<state, postponed_jobs, latest_deadline, scheduled, expire,
                    wait_flags, return_argument, contributors>>
    BY <1>4 DEF Set_waiting_for_period, Thread_Set_state, Unblock_executing,
                Timeout_unblock, Thread_Clear_state, jobVars, timerVars,
                waitVars, priorityVars
  <2> QED BY <2>1, NothingKept, OtherTimed
<1>5. ASSUME \/ OtherCall \/ Dispatch_enabled \/ UNCHANGED allVars
             \/ \E t \in Threads, s \in States : OtherWakeup(t, s)
             \/ \E c \in Contexts, t \in AllThreads : Update(c, t)
      PROVE  TInv'
  <2>1. UNCHANGED <<state, postponed_jobs, latest_deadline, scheduled, expire,
                    wait_flags, return_argument>>
    BY <1>5 DEF OtherCall, Dispatch_enabled, OtherWakeup, Update, allVars,
                periodVars, jobVars, timerVars, waitVars
  <2>2. \A i \in Jobs : JobKept(i)
    <3>1. CASE OtherCall
      BY <3>1, OtherCallKept
    <3>2. CASE ~ OtherCall
      <4>1. contributors' = contributors
        BY <1>5, <3>2 DEF Dispatch_enabled, Dispatch, OtherWakeup, Clear_state,
                          Thread_Clear_state, Update, Thread_Priority_update,
                          allVars, vars, priorityVars
      <4> QED BY <4>1, NothingKept
    <3> QED BY <3>1, <3>2
  <2> QED BY <2>1, <2>2, OtherTimed
<1> QED BY <1>1, <1>2, <1>3, <1>4, <1>5 DEF PeriodNext, Proceed, Timeout

LEMMA TimedInit ==
  ASSUME Assumptions, PeriodInit
  PROVE  TInv
<1>1. /\ state = [j \in Jobs |-> "INACTIVE"] /\ scheduled = {}
      /\ wait_flags = [t \in Threads |-> "READY"]
      /\ \A t \in AllThreads : DOMAIN contributors[t] = {Real}
  BY DEF PeriodInit, Init
<1>2. \A j \in Jobs : ~ Is_active(j)
  BY <1>1 DEF Is_active, Assumptions, ConstantsAssumption, AllThreads
<1> QED BY <1>1, <1>2 DEF TInv, JobsTimed, WaitersAreInTime

-----------------------------------------------------------------------------
(* The theorems.                                                            *)

LEMMA AssumptionsHold == Assumptions
BY ConstantsAssumption, PeriodConstantsAssumption DEF Assumptions

(* The inductive invariants hold of the periods on top of the scheduler.    *)
THEOREM PeriodInvariantHolds == PeriodSpec => [](IInv /\ PInv /\ TInv)
<1>1. PeriodInit => IInv /\ PInv /\ TInv
  BY AssumptionsHold, PeriodInitInv, TimedInit, InitInv
  DEF PeriodInit, Assumptions
<1>2. IInv /\ PInv /\ TInv /\ [PeriodNext]_allVars => IInv' /\ PInv' /\ TInv'
  BY AssumptionsHold, PeriodStep, TimedStep, NextInv DEF Assumptions
<1> QED BY <1>1, <1>2, PTL DEF PeriodSpec

(* The periods use the scheduler as RTEMSScheduler says: for any number of  *)
(* threads and periods, a timeout between any two steps of                  *)
(* _Rate_monotonic_Block_while_active releases only the job of a thread     *)
(* that is blocked or executes outside any other change of a priority.      *)
THEOREM PeriodsImplementScheduler == PeriodSpec => ImplementsScheduler
<1>1. PeriodInit => Init
  BY DEF PeriodInit
<1>2. IInv /\ PInv /\ [PeriodNext]_allVars => [Next]_vars
  BY AssumptionsHold, PeriodStep
<1>3. PeriodSpec => Spec
  BY <1>1, <1>2, PeriodInvariantHolds, PTL DEF PeriodSpec, Spec
<1> QED BY <1>3 DEF ImplementsScheduler

(* So the threads of periods are scheduled earliest deadline first.         *)
THEOREM PeriodsAreEDF == PeriodSpec => []EDFDecision
<1>1. PeriodSpec => Spec
  BY PeriodsImplementScheduler DEF ImplementsScheduler
<1> QED BY <1>1, HeirIsEDF

(* Every variable keeps its type; postponed_jobs is never decremented at    *)
(* zero.                                                                    *)
THEOREM PeriodTypeCorrect == PeriodSpec => []PeriodTypeOK
<1>1. PeriodSpec => []TypeOK
  <2>1. PeriodSpec => Spec
    BY PeriodsImplementScheduler DEF ImplementsScheduler
  <2> QED BY <2>1, TypeCorrect
<1>2. TypeOK /\ PInv => PeriodTypeOK
  BY DEF PInv, PeriodTypes, PeriodTypeOK
<1> QED BY <1>1, <1>2, PeriodInvariantHolds, PTL

(* The state of a period, its count of postponed jobs, its watchdog and its *)
(* job agree in both versions, for any interleaving of timeouts, calls,     *)
(* cancellations and changes of fixed priorities: the count is never        *)
(* decremented at zero, and a period's job is scheduled by the deadline its *)
(* watchdog was set to.                                                     *)
THEOREM PeriodsAgree == PeriodSpec => []PeriodsConsistent
<1>1. PInv /\ TInv => PeriodsConsistent
  BY DEF PInv, JobsOK, TInv, JobsTimed, PeriodsConsistent,
         PostponedMatchesState, JobMatchesWatchdog
<1> QED BY <1>1, PeriodInvariantHolds, PTL

(* Whoever waits for a period, or has announced it, has its watchdog        *)
(* running, and one whose flags say it blocked is blocked: no timeout gets  *)
(* lost in the window of _Rate_monotonic_Block_while_active.                *)
THEOREM WaitsAreTimed == PeriodSpec => []NobodyWaitsInVain
<1>1. PInv => NobodyWaitsInVain
  BY DEF PInv, WaitsOK, NobodyWaitsInVain
<1> QED BY <1>1, PeriodInvariantHolds, PTL
=============================================================================

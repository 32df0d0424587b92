-------------------------- MODULE RTEMSScheduler --------------------------
(***************************************************************************)
(* The EDF scheduler of RTEMS 6.2 and 5.1 on one processor: the ready tree, *)
(* the priority nodes that make up a thread's priority, heir, executing     *)
(* thread and the dispatch between them.  The versions differ in how        *)
(* blocking and unblocking choose the heir.                                 *)
(*                                                                          *)
(* Everything the code does with interrupts disabled is one action.  The    *)
(* work on a priority has two such parts: the first changes the aggregation *)
(* of the thread and puts the thread on the update list of the caller's     *)
(* queue context, the second, _Thread_Priority_update, takes it from there  *)
(* to the scheduler.  In between interrupts run.                            *)
(***************************************************************************)
EXTENDS OrderedSequences

CONSTANTS
  Threads,         \* the application's threads
  Idle,            \* the idle thread
  Jobs,            \* the priority nodes of rate-monotonic periods
  Owner,           \* Owner[j]: the thread of the period of job j
  Real,            \* the name of a thread's Real_priority among its nodes
  MSB,             \* SCHEDULER_EDF_PRIO_MSB, above all deadlines
  InitialPriority, \* InitialPriority[t]: the fixed priority t is created with
  Priorities,      \* the fixed priorities threads ask for
  Deadlines,       \* the deadlines jobs are released with
  Version          \* the version of RTEMS

AllThreads == Threads \union {Idle}
Nodes == Jobs \union {Real}
Contexts == {"task", "isr"}   \* whose Thread_queue_Context it is
States == {"blocked", "suspended"}

ASSUME ConstantsAssumption ==
  /\ Idle \notin Threads /\ Real \notin Jobs
  /\ Owner \in [Jobs -> Threads]
  /\ MSB \in Nat
  /\ InitialPriority \in [AllThreads -> Nat \ {0}] \* 0 is PRIORITY_PSEUDO_ISR
  /\ Priorities \subseteq Nat \ {0} /\ Deadlines \subseteq Nat
  /\ \A d \in Deadlines : d < MSB
  /\ Version \in {"5.1", "6.2"}

VARIABLES
  ready,              \* the tree Ready, in order
  node_priority,      \* Scheduler_EDF_Node.priority, the key in the tree
  value,              \* Priority.value of the scheduler node: the priority and
                      \* its lowest bit, the group order
  contributors,       \* the active priority nodes of a thread
  aggregate,          \* Wait.Priority.Node.priority, their cached minimum
  current_state,      \* the states that keep a thread from running
  is_preemptible,
  heir, executing, dispatch_necessary,
  updates,            \* update lists of the queue contexts in use
  preempt_enabled     \* threads in rtems_task_mode between enabling preemption
                      \* and calling _Scheduler_Schedule

treeVars == <<ready, node_priority>>
priorityVars == <<value, contributors, aggregate>>
decisionVars == <<heir, dispatch_necessary>>
vars == <<treeVars, priorityVars, current_state, is_preemptible,
          decisionVars, executing, updates, preempt_enabled>>

-----------------------------------------------------------------------------
(* Priorities: the smaller the more urgent.                                 *)

(* SCHEDULER_PRIORITY_MAP makes room for the group bit, which is a field    *)
(* here; a fixed priority has the most significant bit set.                 *)
Map_priority(p) == MSB + p

(* The priority of system threads that stand for interrupts.                *)
Pseudo_ISR == Map_priority(0)

Is_ready(t) == current_state[t] = {}

(* _Scheduler_EDF_Priority_less_equal of a key with the group bit `last'    *)
(* and a key in the tree, which has none.                                   *)
Priority_less_equal(p, last, key) == IF last THEN p < key ELSE p <= key

(* _RBTree_Insert_inline, in order: in front of the first node that is not  *)
(* less.  A key with the group bit goes behind its equals, else in front.   *)
InsertPosition(tree, key, p, last) ==
  CHOOSE k \in 1..(Len(tree) + 1) :
    /\ \A i \in 1..(k - 1) : ~ Priority_less_equal(p, last, key[tree[i]])
    /\ k <= Len(tree) => Priority_less_equal(p, last, key[tree[k]])

Enqueue(tree, t, p, last) ==
  InsertAt(tree, InsertPosition(tree, node_priority, p, last), t)

Extract(tree, t) == Without(tree, t)

-----------------------------------------------------------------------------
(* Choosing the heir.                                                       *)

Get_highest_ready(tree) == Head(tree)

Update_heir(new_heir) ==
  /\ heir' = new_heir
  /\ dispatch_necessary' = TRUE

Update_heir_if_necessary(new_heir) ==
  IF heir # new_heir THEN Update_heir(new_heir) ELSE UNCHANGED decisionVars

Update_heir_if_preemptible(new_heir) ==
  IF heir # new_heir /\ is_preemptible[heir]
  THEN Update_heir(new_heir)
  ELSE UNCHANGED decisionVars

(* _Scheduler_Update_heir of version 5.1.                                   *)
Update_heir_or_force(new_heir, force_dispatch) ==
  IF heir # new_heir /\ (is_preemptible[heir] \/ force_dispatch)
  THEN Update_heir(new_heir)
  ELSE UNCHANGED decisionVars

(* Mutant: the heir's mode is not looked at.                                *)
ScheduleAnyway ==
  /\ Update_heir_if_necessary(Get_highest_ready(ready))
  /\ UNCHANGED treeVars

(* The operations of the scheduler.                                         *)
Scheduler_EDF_Schedule ==
  /\ Update_heir_if_preemptible(Get_highest_ready(ready))
  /\ UNCHANGED treeVars

Scheduler_uniprocessor_Block(t) ==
  /\ ready' = Extract(ready, t)
  /\ IF t = heir THEN Update_heir(Get_highest_ready(ready'))
     ELSE UNCHANGED decisionVars

(* Mutant: an heir that cannot be pre-empted stays, though it blocks.       *)
GenericBlockUnforced(t) ==
  /\ ready' = Extract(ready, t)
  /\ IF t \in {executing, heir}
     THEN Update_heir_or_force(Get_highest_ready(ready'), FALSE)
     ELSE UNCHANGED decisionVars

(* Version 5.1 elects a heir also when the executing thread blocks that is  *)
(* not the heir any more.                                                   *)
Scheduler_Generic_block(t) ==
  /\ ready' = Extract(ready, t)
  /\ IF t \in {executing, heir}
     THEN Update_heir_or_force(Get_highest_ready(ready'), TRUE)
     ELSE UNCHANGED decisionVars

Scheduler_EDF_Block(t) ==
  /\ IF Version = "5.1" THEN Scheduler_Generic_block(t)
     ELSE Scheduler_uniprocessor_Block(t)
  /\ UNCHANGED node_priority

(* Who takes the place of the heir by being unblocked.                      *)
Scheduler_uniprocessor_Unblock(t, p) ==
  IF p < aggregate[heir] THEN Update_heir_if_preemptible(t)
  ELSE UNCHANGED decisionVars

Unblock_or_force(t, p) ==
  IF p < aggregate[heir] THEN Update_heir_or_force(t, p = Pseudo_ISR)
  ELSE UNCHANGED decisionVars

Scheduler_EDF_Unblock(t) ==
  LET p == value[t].priority IN
  /\ node_priority' = [node_priority EXCEPT ![t] = p]
  /\ ready' = Enqueue(ready, t, p, TRUE)
  /\ IF Version = "5.1" THEN Unblock_or_force(t, p)
     ELSE Scheduler_uniprocessor_Unblock(t, p)

Scheduler_EDF_Yield(t) ==
  /\ ready' = Enqueue(Extract(ready, t), t, node_priority[t], FALSE)
  /\ Update_heir_if_necessary(Get_highest_ready(ready'))
  /\ UNCHANGED node_priority

(* Mutant: the cached heir is left as it is.                                *)
UpdateWithoutElection(t) ==
  LET p == value[t].priority IN
  IF Is_ready(t) /\ p # node_priority[t]
  THEN /\ node_priority' = [node_priority EXCEPT ![t] = p]
       /\ ready' = Enqueue(Extract(ready, t), t, p, value[t].last)
       /\ UNCHANGED decisionVars
  ELSE UNCHANGED <<treeVars, decisionVars>>

Scheduler_EDF_Update_priority(t) ==
  LET p == value[t].priority IN
  IF Is_ready(t) /\ p # node_priority[t]
  THEN /\ node_priority' = [node_priority EXCEPT ![t] = p]
       /\ ready' = Enqueue(Extract(ready, t), t, p, value[t].last)
       /\ Update_heir_if_preemptible(Get_highest_ready(ready'))
  ELSE UNCHANGED <<treeVars, decisionVars>>

-----------------------------------------------------------------------------
(* Changing the aggregation of a thread.                                    *)

LeastOf(nodes) == CHOOSE p \in {nodes[n] : n \in DOMAIN nodes} :
                    \A n \in DOMAIN nodes : p <= nodes[n]

(* _Thread_Priority_action_change and the end of                            *)
(* _Thread_Priority_do_perform_actions: a new minimum is stored in the      *)
(* scheduler node and the thread goes on the update list.                   *)
Priority_action(t, changes, p, last, context) ==
  IF changes
  THEN /\ aggregate' = [aggregate EXCEPT ![t] = p]
       /\ value' = [value EXCEPT ![t] = [priority |-> p, last |-> last]]
       /\ updates' = [updates EXCEPT ![context] = @ \union {t}]
  ELSE UNCHANGED <<aggregate, value, updates>>

Thread_Priority_add(t, node, p, context) ==
  LET nodes == contributors[t] IN
  /\ contributors' = [contributors EXCEPT ![t] =
                        [n \in DOMAIN nodes \union {node} |->
                           IF n = node THEN p ELSE nodes[n]]]
  /\ Priority_action(t, \A n \in DOMAIN nodes : p < nodes[n],
                     p, TRUE, context)

Thread_Priority_changed(t, node, p, last, context) ==
  /\ contributors' = [contributors EXCEPT ![t] =
                        [n \in DOMAIN contributors[t] |->
                           IF n = node THEN p ELSE contributors[t][n]]]
  /\ LET min == LeastOf(contributors'[t]) IN
     Priority_action(t, min # aggregate[t], min, last, context)

(* Mutant: the minimum is taken before the node is extracted.               *)
RemoveAfterMinimum(t, node, context) ==
  /\ contributors' = [contributors EXCEPT ![t] =
                        [n \in DOMAIN contributors[t] \ {node} |->
                           contributors[t][n]]]
  /\ LET min == LeastOf(contributors[t]) IN
     Priority_action(t, contributors[t][node] < min, min, FALSE, context)

Thread_Priority_remove(t, node, context) ==
  /\ contributors' = [contributors EXCEPT ![t] =
                        [n \in DOMAIN contributors[t] \ {node} |->
                           contributors[t][n]]]
  /\ LET min == LeastOf(contributors'[t]) IN
     Priority_action(t, contributors[t][node] < min, min, FALSE, context)

Is_active(j) == j \in DOMAIN contributors[Owner[j]]

Scheduler_EDF_Release_job(j, deadline, context) ==
  IF Is_active(j)
  THEN Thread_Priority_changed(Owner[j], j, deadline, TRUE, context)
  ELSE Thread_Priority_add(Owner[j], j, deadline, context)

Scheduler_EDF_Cancel_job(j, context) ==
  IF Is_active(j)
  THEN Thread_Priority_remove(Owner[j], j, context)
  ELSE UNCHANGED <<priorityVars, updates>>

-----------------------------------------------------------------------------
(* Who calls them.                                                          *)

(* The processor executes the code of a thread: no interrupt is at work and *)
(* the thread's own last priority update is done.  The idle thread makes no *)
(* calls.                                                                   *)
InThread ==
  /\ updates = [c \in Contexts |-> {}]
  /\ executing # Idle /\ Is_ready(executing)
  /\ executing \notin preempt_enabled

(* A call begins in the code of the thread; a dispatch that an interrupt    *)
(* asked for has been made by then.                                         *)
CallBegins == InThread /\ ~ dispatch_necessary

Thread_Set_state(t, s) ==
  /\ current_state' = [current_state EXCEPT ![t] = @ \union {s}]
  /\ IF Is_ready(t) THEN Scheduler_EDF_Block(t)
     ELSE UNCHANGED <<treeVars, decisionVars>>
  /\ UNCHANGED <<priorityVars, is_preemptible, executing, updates,
                 preempt_enabled>>

Thread_Clear_state(t, s) ==
  /\ current_state' = [current_state EXCEPT ![t] = @ \ {s}]
  /\ IF current_state[t] = {s} THEN Scheduler_EDF_Unblock(t)
     ELSE UNCHANGED <<treeVars, decisionVars>>
  /\ UNCHANGED <<priorityVars, is_preemptible, executing, updates,
                 preempt_enabled>>

(* The executing thread blocks itself or suspends a thread.                 *)
Set_state(t, s) ==
  /\ InThread
  /\ s = "blocked" => t = executing
  /\ Thread_Set_state(t, s)

(* What a thread waits for happens, or it is resumed, by another thread or  *)
(* an interrupt, at any time.                                               *)
Clear_state(t, s) ==
  /\ s \in current_state[t]
  /\ Thread_Clear_state(t, s)

Yield ==
  /\ InThread
  /\ Scheduler_EDF_Yield(executing)
  /\ UNCHANGED <<priorityVars, current_state, is_preemptible, executing,
                 updates, preempt_enabled>>

(* rtems_task_mode: the flag, and the call of the scheduler.                *)
Set_preemptible(on) ==
  /\ CallBegins
  /\ is_preemptible[executing] # on
  /\ is_preemptible' = [is_preemptible EXCEPT ![executing] = on]
  /\ preempt_enabled' = IF on THEN preempt_enabled \union {executing}
                        ELSE preempt_enabled
  /\ UNCHANGED <<treeVars, priorityVars, current_state, decisionVars,
                 executing, updates>>

Schedule ==
  /\ updates = [c \in Contexts |-> {}]
  /\ executing \in preempt_enabled
  /\ Scheduler_EDF_Schedule
  /\ preempt_enabled' = preempt_enabled \ {executing}
  /\ UNCHANGED <<priorityVars, current_state, is_preemptible, executing,
                 updates>>

OnlyPrioritiesChange ==
  UNCHANGED <<treeVars, current_state, is_preemptible, decisionVars,
              executing, preempt_enabled>>

(* Priorities change: first part.  A period releases and cancels the job of *)
(* the thread that calls it.  An interrupt that releases a job releases one *)
(* whose owner waits for it, or is just about to, and so is in no other     *)
(* call.                                                                    *)
Release_job(j, deadline) ==
  /\ CallBegins
  /\ executing = Owner[j]
  /\ Scheduler_EDF_Release_job(j, deadline, "task")
  /\ OnlyPrioritiesChange

Release_job_from_ISR(j, deadline) ==
  /\ updates["isr"] = {}
  /\ Is_ready(Owner[j]) => Owner[j] = executing /\ InThread
  /\ Scheduler_EDF_Release_job(j, deadline, "isr")
  /\ OnlyPrioritiesChange

Cancel_job(j) ==
  /\ CallBegins
  /\ executing = Owner[j]
  /\ Scheduler_EDF_Cancel_job(j, "task")
  /\ OnlyPrioritiesChange

Set_priority(t, p) ==
  /\ CallBegins
  /\ Thread_Priority_changed(t, Real, Map_priority(p), TRUE, "task")
  /\ OnlyPrioritiesChange

(* Second part: a step of _Thread_Priority_update.  An interrupt's comes    *)
(* before the interrupt returns to the thread.                              *)
Thread_Priority_update(context, t) ==
  /\ t \in updates[context]
  /\ context = "task" => updates["isr"] = {}
  /\ Scheduler_EDF_Update_priority(t)
  /\ updates' = [updates EXCEPT ![context] = @ \ {t}]
  /\ UNCHANGED <<priorityVars, current_state, is_preemptible, executing,
                 preempt_enabled>>

(* _Thread_Get_heir_and_make_it_executing.                                  *)
Dispatch ==
  /\ updates = [c \in Contexts |-> {}]
  /\ dispatch_necessary
  /\ executing' = heir
  /\ dispatch_necessary' = FALSE
  /\ UNCHANGED <<treeVars, priorityVars, current_state, is_preemptible,
                 heir, updates, preempt_enabled>>

-----------------------------------------------------------------------------
(* Multitasking starts with the idle thread while the others wait.          *)
Init ==
  LET fixed == [t \in AllThreads |-> Map_priority(InitialPriority[t])] IN
  /\ ready = <<Idle>>
  /\ node_priority = fixed
  /\ value = [t \in AllThreads |-> [priority |-> fixed[t], last |-> FALSE]]
  /\ contributors = [t \in AllThreads |-> [n \in {Real} |-> fixed[t]]]
  /\ aggregate = fixed
  /\ current_state = [t \in AllThreads |->
                        IF t = Idle THEN {} ELSE {"blocked"}]
  /\ is_preemptible = [t \in AllThreads |-> TRUE]
  /\ heir = Idle /\ executing = Idle /\ dispatch_necessary = FALSE
  /\ updates = [c \in Contexts |-> {}]
  /\ preempt_enabled = {}

Next ==
  \/ \E t \in Threads, s \in States : Set_state(t, s) \/ Clear_state(t, s)
  \/ Yield
  \/ \E on \in BOOLEAN : Set_preemptible(on)
  \/ Schedule
  \/ \E j \in Jobs, d \in Deadlines :
       Release_job(j, d) \/ Release_job_from_ISR(j, d)
  \/ \E j \in Jobs : Cancel_job(j)
  \/ \E t \in Threads, p \in Priorities : Set_priority(t, p)
  \/ \E c \in Contexts, t \in AllThreads : Thread_Priority_update(c, t)
  \/ Dispatch

Spec == Init /\ [][Next]_vars

-----------------------------------------------------------------------------
(* Properties.                                                              *)

Priority == Nat

(* Every variable has its type; the contributors are a partial function on  *)
(* the nodes that always has the real priority.                             *)
TypeOK ==
  /\ ready \in Seq(AllThreads)
  /\ node_priority \in [AllThreads -> Priority]
  /\ value \in [AllThreads -> [priority : Priority, last : BOOLEAN]]
  /\ contributors = [t \in AllThreads |-> contributors[t]]
  /\ \A t \in AllThreads :
       /\ contributors[t] \in [DOMAIN contributors[t] -> Priority]
       /\ Real \in DOMAIN contributors[t] /\ DOMAIN contributors[t] \subseteq Nodes
  /\ aggregate \in [AllThreads -> Priority]
  /\ current_state \in [AllThreads -> SUBSET States]
  /\ is_preemptible \in [AllThreads -> BOOLEAN]
  /\ heir \in AllThreads /\ executing \in AllThreads
  /\ dispatch_necessary \in BOOLEAN
  /\ updates \in [Contexts -> SUBSET AllThreads]
  /\ preempt_enabled \in SUBSET Threads

(* The tree holds exactly the ready threads, each once, in the order of the *)
(* keys they were inserted with, and the heir is among them                 *)
(* (edf_ready_context_well_formed of models/edf_ready_set.h).               *)
ReadyTreeWellFormed ==
  /\ NoDuplicates(ready)
  /\ Items(ready) = {t \in AllThreads : Is_ready(t)}
  /\ Sorted(ready, node_priority)
  /\ heir \in Items(ready)

(* The cached minimum of an aggregation is the least of its contributors    *)
(* (priority_aggregation_cached_minimum), and the scheduler node has the    *)
(* same priority, at all times.                                             *)
CachedMinimum ==
  \A t \in AllThreads :
    /\ \E n \in DOMAIN contributors[t] : contributors[t][n] = aggregate[t]
    /\ \A n \in DOMAIN contributors[t] : aggregate[t] <= contributors[t][n]
    /\ value[t].priority = aggregate[t]

(* A ready thread whose key in the tree is not its priority has an update   *)
(* coming: no change of a priority is ever lost, whatever becomes of the    *)
(* thread between the two parts.                                            *)
NoUpdateIsLost ==
  \A t \in AllThreads :
    Is_ready(t) /\ node_priority[t] # aggregate[t] =>
      \E c \in Contexts : t \in updates[c]

(* What a thread is scheduled by is the least of its priorities, or is      *)
(* about to be: the two together.                                           *)
PrioritiesTakeEffect == CachedMinimum /\ NoUpdateIsLost

(* edf_scheduler_decision of models/edf_property.h.                         *)
edf_scheduler_decision ==
  /\ is_preemptible[heir] =>
       \A t \in Items(ready) : node_priority[heir] <= node_priority[t]
  /\ executing # heir => dispatch_necessary

(* The heir is, among the ready threads, one with the earliest deadline or  *)
(* least priority by what its contributors say now, and will be dispatched, *)
(* whenever no priority update and no call of _Scheduler_Schedule is        *)
(* outstanding; only a thread that cannot be pre-empted is exempt.          *)
EDFDecision ==
  updates = [c \in Contexts |-> {}] /\ preempt_enabled = {} =>
    /\ edf_scheduler_decision
    /\ is_preemptible[heir] =>
         \A t \in Items(ready) : \A n \in DOMAIN contributors[t] :
           \E m \in DOMAIN contributors[heir] :
             contributors[heir][m] <= contributors[t][n]

(* A thread that cannot be pre-empted stays the heir until it is no longer  *)
(* ready or yields (the updates of the priority of a thread, wake-ups and   *)
(* calls of the scheduler leave it alone).  In version 5.1 it may lose the  *)
(* place before it has been dispatched, when the executing thread blocks.   *)
NotPreempted ==
  [][heir' # heir /\ ~ is_preemptible[heir] =>
       \/ current_state'[heir] # {} \/ Yield
       \/ /\ Version = "5.1" /\ executing # heir
          /\ current_state'[executing] # {}]_vars

(* schedulerimpl.h:246: yielding is to "transfer control of the processor   *)
(* to another thread": when another ready thread is as urgent, it becomes   *)
(* the heir.                                                                *)
YieldTransfersControl ==
  [][Yield /\ (\E t \in Items(ready) \ {executing} :
                 node_priority[t] <= node_priority[executing]) =>
       heir' # executing]_vars
=============================================================================

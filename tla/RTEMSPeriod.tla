---------------------------- MODULE RTEMSPeriod ----------------------------
(***************************************************************************)
(* The rate-monotonic periods of RTEMS 6.2 and 5.1 on top of the EDF        *)
(* scheduler: the calls rtems_rate_monotonic_period and                     *)
(* rtems_rate_monotonic_cancel of the owners and the timeout of the         *)
(* watchdog of a period.  The versions differ in when they forget the       *)
(* postponed jobs of a cancelled period.                                    *)
(*                                                                          *)
(* RTEMSScheduler is what the periods may do to the scheduler: its Spec is  *)
(* a property of this module.  A deadline is any of Deadlines, whatever the *)
(* length of the period and the time are.                                   *)
(***************************************************************************)
EXTENDS RTEMSScheduler

CONSTANTS
  Null,          \* no period
  MaxPostponed   \* where postponed_jobs stops counting, UINT32_MAX

ASSUME PeriodConstantsAssumption ==
  /\ Null \notin Jobs
  /\ MaxPostponed \in Nat \ {0}

VARIABLES
  state,            \* Rate_monotonic_Control.state
  postponed_jobs,   \* jobs not released yet though their time has come
  latest_deadline,  \* the deadline of the last of them
  scheduled,        \* periods whose Timer is running
  expire,           \* when it expires
  wait_flags,       \* Wait.flags of a thread
  return_argument,  \* Wait.return_argument: the period a thread waits for
  section,          \* where _Rate_monotonic_Block_while_active of the
                    \* executing thread is, with dispatching disabled
  waking            \* the thread a timeout still has to unblock

timerVars == <<scheduled, expire>>
jobVars == <<state, postponed_jobs, latest_deadline>>
waitVars == <<wait_flags, return_argument>>
periodVars == <<timerVars, jobVars, waitVars, section, waking>>
allVars == <<vars, periodVars>>

PeriodStates == {"INACTIVE", "ACTIVE", "EXPIRED"}
WaitFlags == {"READY", "INTEND_TO_BLOCK", "BLOCKED"}
Sections == {"application", "set_state", "try_change", "unblock"}

-----------------------------------------------------------------------------
(* The calls of the owner.                                                  *)

(* No interrupt is at work.                                                 *)
NoInterrupt == waking = {} /\ updates["isr"] = {}

InApplication == section = "application" /\ NoInterrupt

(* _Watchdog_Per_CPU_insert_ticks.                                          *)
Insert_ticks(j, deadline) ==
  /\ scheduled' = scheduled \union {j}
  /\ expire' = [expire EXCEPT ![j] = deadline]

Forget_postponed_jobs(j) ==
  postponed_jobs' = [postponed_jobs EXCEPT ![j] = 0]

(* _Rate_monotonic_Activate: the first job.                                 *)
Activate(j, deadline) ==
  /\ InApplication
  /\ state[j] = "INACTIVE"
  /\ state' = [state EXCEPT ![j] = "ACTIVE"]
  /\ IF Version = "5.1" THEN Forget_postponed_jobs(j)
     ELSE UNCHANGED postponed_jobs
  /\ Insert_ticks(j, deadline)
  /\ Release_job(j, deadline)
  /\ UNCHANGED <<latest_deadline, waitVars, section, waking>>

HasPostponedJob(j) ==
  \/ state[j] = "EXPIRED"
  \/ state[j] = "ACTIVE" /\ postponed_jobs[j] > 0

(* _Rate_monotonic_Block_while_expired: the next postponed job.             *)
Block_while_expired(j) ==
  /\ InApplication
  /\ HasPostponedJob(j)
  /\ state' = [state EXCEPT ![j] = "ACTIVE"]
  /\ postponed_jobs' = [postponed_jobs EXCEPT ![j] = @ - 1]
  /\ Release_job(j, latest_deadline[j])
  /\ UNCHANGED <<latest_deadline, timerVars, waitVars, section, waking>>

(* _Rate_monotonic_Block_while_active: the job is done, the owner waits for *)
(* the next one.  Dispatching is disabled until the last of these steps.    *)
Block_while_active(j) ==
  LET owner == Owner[j] IN
  /\ InApplication /\ CallBegins /\ executing = owner
  /\ state[j] = "ACTIVE" /\ ~ HasPostponedJob(j)
  /\ return_argument' = [return_argument EXCEPT ![owner] = j]
  /\ wait_flags' = [wait_flags EXCEPT ![owner] = "INTEND_TO_BLOCK"]
  /\ section' = "set_state"
  /\ UNCHANGED <<vars, jobVars, timerVars, waking>>

(* Mutant: the flags say that the thread blocks, but it does not.           *)
Set_no_state ==
  /\ section = "set_state" /\ NoInterrupt
  /\ section' = "try_change"
  /\ UNCHANGED <<vars, jobVars, timerVars, waitVars, waking>>

Set_waiting_for_period ==
  /\ section = "set_state" /\ NoInterrupt
  /\ Thread_Set_state(executing, "blocked")
  /\ section' = "try_change"
  /\ UNCHANGED <<jobVars, timerVars, waitVars, waking>>

(* Mutant: the flags are set, not compared first.                           *)
Thread_Wait_flags_set ==
  /\ section = "try_change" /\ NoInterrupt
  /\ wait_flags' = [wait_flags EXCEPT ![executing] = "BLOCKED"]
  /\ section' = "application"
  /\ UNCHANGED <<vars, jobVars, timerVars, return_argument, waking>>

Thread_Wait_flags_try_change ==
  /\ section = "try_change" /\ NoInterrupt
  /\ IF wait_flags[executing] = "INTEND_TO_BLOCK"
     THEN /\ wait_flags' = [wait_flags EXCEPT ![executing] = "BLOCKED"]
          /\ section' = "application"
     ELSE /\ section' = "unblock"
          /\ UNCHANGED wait_flags
  /\ UNCHANGED <<vars, jobVars, timerVars, return_argument, waking>>

Unblock_executing ==
  /\ section = "unblock" /\ NoInterrupt
  /\ Thread_Clear_state(executing, "blocked")
  /\ section' = "application"
  /\ UNCHANGED <<jobVars, timerVars, waitVars, waking>>

(* Mutant: the count survives.                                              *)
CancelKeepingPostponed(j) ==
  /\ InApplication
  /\ scheduled' = scheduled \ {j}
  /\ state' = [state EXCEPT ![j] = "INACTIVE"]
  /\ Cancel_job(j)
  /\ UNCHANGED <<postponed_jobs, latest_deadline, expire, waitVars, section,
                 waking>>

(* rtems_rate_monotonic_cancel.                                             *)
Cancel(j) ==
  /\ InApplication
  /\ scheduled' = scheduled \ {j}
  /\ IF Version = "6.2" THEN Forget_postponed_jobs(j)
     ELSE UNCHANGED postponed_jobs
  /\ state' = [state EXCEPT ![j] = "INACTIVE"]
  /\ Cancel_job(j)
  /\ UNCHANGED <<latest_deadline, expire, waitVars, section, waking>>

-----------------------------------------------------------------------------
(* The watchdog.                                                            *)

(* The owner waits for this period, or tells that it is about to.           *)
WaitsFor(j) ==
  /\ wait_flags[Owner[j]] # "READY"
  /\ return_argument[Owner[j]] = j

(* _Rate_monotonic_Timeout: release the job, unless the owner is still at   *)
(* an earlier one.  An owner that has not blocked yet finds its flags       *)
(* changed and goes on; one that has is unblocked after the update of its   *)
(* priority.                                                                *)
Timeout_restart(j, deadline) ==
  LET owner == Owner[j] IN
  /\ j \in scheduled /\ NoInterrupt
  /\ WaitsFor(j)
  /\ return_argument' = [return_argument EXCEPT ![owner] = Null]
  /\ wait_flags' = [wait_flags EXCEPT ![owner] = "READY"]
  /\ waking' = IF wait_flags[owner] = "BLOCKED" THEN {owner} ELSE {}
  /\ Insert_ticks(j, deadline)
  /\ Scheduler_EDF_Release_job(j, deadline, "isr") /\ OnlyPrioritiesChange
  /\ UNCHANGED <<jobVars, section>>

Timeout_unblock(t) ==
  /\ t \in waking /\ updates["isr"] = {}
  /\ Thread_Clear_state(t, "blocked")
  /\ waking' = {}
  /\ UNCHANGED <<jobVars, timerVars, waitVars, section>>

(* _Rate_monotonic_Renew_deadline.                                          *)
Timeout_renew(j, deadline) ==
  /\ j \in scheduled /\ NoInterrupt
  /\ ~ WaitsFor(j)
  /\ postponed_jobs' = [postponed_jobs EXCEPT
                          ![j] = IF @ = MaxPostponed THEN @ ELSE @ + 1]
  /\ state' = [state EXCEPT ![j] = "EXPIRED"]
  /\ Insert_ticks(j, deadline)
  /\ latest_deadline' = [latest_deadline EXCEPT ![j] = deadline]
  /\ UNCHANGED <<vars, waitVars, section, waking>>

-----------------------------------------------------------------------------
(* What else happens in the scheduler.                                      *)

(* The executing thread does something else.                                *)
OtherCall ==
  /\ InApplication
  /\ \/ \E t \in Threads, s \in States : Set_state(t, s)
     \/ Yield
     \/ \E on \in BOOLEAN : Set_preemptible(on)
     \/ Schedule
     \/ \E t \in Threads, p \in Priorities : Set_priority(t, p)
  /\ UNCHANGED periodVars

(* The thread is blocked by Block_while_active.                             *)
OnPeriod(t) ==
  \/ wait_flags[t] # "READY" \/ t \in waking
  \/ t = executing /\ section # "application"

(* A thread is resumed, or what it waits for, other than a period, happens. *)
OtherWakeup(t, s) ==
  /\ s = "blocked" => ~ OnPeriod(t)
  /\ Clear_state(t, s)
  /\ UNCHANGED periodVars

Update(context, t) ==
  /\ context = "task" => NoInterrupt
  /\ Thread_Priority_update(context, t)
  /\ UNCHANGED periodVars

Dispatch_enabled ==
  /\ InApplication
  /\ Dispatch
  /\ UNCHANGED periodVars

-----------------------------------------------------------------------------
PeriodInit ==
  /\ Init
  /\ state = [j \in Jobs |-> "INACTIVE"]
  /\ postponed_jobs = [j \in Jobs |-> 0]
  /\ latest_deadline = [j \in Jobs |-> 0]
  /\ scheduled = {}
  /\ expire = [j \in Jobs |-> 0]
  /\ wait_flags = [t \in Threads |-> "READY"]
  /\ return_argument = [t \in Threads |-> Null]
  /\ section = "application"
  /\ waking = {}

Timeout(j) ==
  \E d \in Deadlines : Timeout_restart(j, d) \/ Timeout_renew(j, d)

(* What goes on by itself once it has begun.                                *)
Proceed ==
  \/ Set_waiting_for_period
  \/ Thread_Wait_flags_try_change
  \/ Unblock_executing
  \/ \E t \in Threads : Timeout_unblock(t)
  \/ \E c \in Contexts, t \in AllThreads : Update(c, t)
  \/ Dispatch_enabled

PeriodNext ==
  \/ Proceed
  \/ \E j \in Jobs, d \in Deadlines : Activate(j, d)
  \/ \E j \in Jobs : Block_while_expired(j) \/ Block_while_active(j) \/ Cancel(j)
  \/ \E j \in Jobs : Timeout(j)
  \/ OtherCall
  \/ \E t \in Threads, s \in States : OtherWakeup(t, s)

PeriodSpec == PeriodInit /\ [][PeriodNext]_allVars

(* What has begun proceeds, and a running watchdog expires some time.       *)
FairPeriodSpec ==
  /\ PeriodSpec
  /\ WF_allVars(Proceed)
  /\ \A j \in Jobs : SF_allVars(Timeout(j))

-----------------------------------------------------------------------------
(* Properties.                                                              *)

(* Every variable has its type.                                             *)
PeriodTypeOK ==
  /\ TypeOK
  /\ state \in [Jobs -> PeriodStates]
  /\ postponed_jobs \in [Jobs -> 0..MaxPostponed]
  /\ latest_deadline \in [Jobs -> Nat] /\ expire \in [Jobs -> Nat]
  /\ scheduled \in SUBSET Jobs
  /\ wait_flags \in [Threads -> WaitFlags]
  /\ return_argument \in [Threads -> Jobs \union {Null}]
  /\ section \in Sections
  /\ waking \in SUBSET Threads

(* An expired period has a postponed job (the comment at ratemonperiod.c    *)
(* 840), an inactive one has none (the assertion at 683; version 5.1        *)
(* makes no such assertion): the count is never decremented at zero.        *)
PostponedMatchesState ==
  \A j \in Jobs :
    /\ state[j] = "EXPIRED" => postponed_jobs[j] > 0
    /\ Version = "6.2" /\ state[j] = "INACTIVE" => postponed_jobs[j] = 0

(* A period is active exactly if its watchdog runs and exactly if its job   *)
(* counts for the priority of the owner; then the deadline of the job, or   *)
(* if jobs are postponed the one they will be released with, is when the    *)
(* watchdog expires.                                                        *)
JobMatchesWatchdog ==
  \A j \in Jobs :
    /\ j \in scheduled <=> state[j] # "INACTIVE"
    /\ Is_active(j) <=> state[j] # "INACTIVE"
    /\ j \in scheduled =>
         expire[j] = IF postponed_jobs[j] > 0 THEN latest_deadline[j]
                     ELSE contributors[Owner[j]][j]

(* State, count, watchdog and job of a period agree: the two together.      *)
PeriodsConsistent == PostponedMatchesState /\ JobMatchesWatchdog

(* A thread that waits for a period, or is about to, has that period's      *)
(* watchdog running: the timeout that comes between the announcement and    *)
(* the blocking is not lost.                                                *)
NobodyWaitsInVain ==
  \A t \in Threads :
    /\ wait_flags[t] # "READY" => return_argument[t] \in scheduled
    /\ wait_flags[t] = "BLOCKED" => "blocked" \in current_state[t]

(* To the scheduler the periods are callers as RTEMSScheduler describes     *)
(* them; in particular a timeout only releases the job of a thread that is  *)
(* blocked or the executing one outside any other change of a priority.     *)
ImplementsScheduler == Spec

(* Who waits for a period is unblocked by its timeout, whatever happens     *)
(* between the steps of the call and of the timeout.                        *)
PeriodEnds ==
  \A t \in {Owner[j] : j \in Jobs} :
    OnPeriod(t) ~> ~ OnPeriod(t) /\ "blocked" \notin current_state[t]
=============================================================================

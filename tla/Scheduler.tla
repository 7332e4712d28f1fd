----------------------------- MODULE Scheduler -----------------------------
(***************************************************************************)
(* The preemptive scheduler of Stratify OS: the task table (cortexm/task.c), *)
(* the root scheduling functions (sys/scheduler) and every service call     *)
(* that creates, ends, stops, continues or re-prioritises a task.           *)
(*                                                                          *)
(* Task 0 is the scheduler's own loop; 1..N are the other slots of the task *)
(* table.  Service calls, PendSV, SysTick and the microsecond timer run at  *)
(* one interrupt priority (task_init), so each is one atomic step.  A       *)
(* service call is taken by the current task; PendSV is tail-chained, so    *)
(* the current task takes no step while pendSV is set; an interrupt that    *)
(* activates a task may still arrive in between.                            *)
(***************************************************************************)
EXTENDS Integers, FiniteSets

CONSTANTS
  N,         \* CONFIG_TASK_TOTAL - 1, the number of slots besides task 0
  Highest,   \* CONFIG_SCHED_HIGHEST_PRIORITY
  Pids,      \* process ids handed out by task_create_process
  RRMax,     \* m_task_rr_reload, in units of SYSTICK_MIN_CYCLES
  Ops        \* the operations the programs of a model use

Lowest == 0                     \* CONFIG_SCHED_LOWEST_PRIORITY
Tasks == 1..N
Slots == 0..N
Priorities == Lowest..Highest

AllOps == {"sleep", "wake", "yield", "param", "create", "process", "exit",
           "signal", "stop", "cont", "waitchild", "fifo", "unready"}

ASSUME SchedulerAssumption ==
  /\ N \in Nat \ {0}
  /\ Highest \in Nat
  /\ RRMax \in Nat \ {0}
  /\ 0 \in Pids
  /\ Ops \subseteq AllOps

VARIABLES
  used, thread, active, stopped, exec, fifo,  \* TASK_FLAGS_*, as sets of slots
  pid, priority,     \* sos_task_table[].pid and .priority
  base,              \* sos_sched_table[].attr.schedparam.sched_priority
  rr,                \* sos_task_table[].rr_time; 0: below SYSTICK_MIN_CYCLES
  current,           \* m_task_current
  curPrio,           \* m_task_current_priority
  execCount,         \* m_task_exec_count
  yield,             \* TASK_FLAGS_YIELD of the current task
  pendSV,            \* PendSV is pending
  systick,           \* the SysTick interrupt is enabled
  step,              \* where a task is in a sequence of several service calls
  child,             \* the slot a task has filled but not activated yet; 0: none
  unready,           \* the slots filled and not activated
  stale              \* slots whose wake time is an old or zeroed one

flags == <<used, thread, active, stopped, exec, fifo>>
table == <<pid, priority, base>>
cpu   == <<current, execCount, yield, systick>>
seq   == <<step, child, unready, stale>>
vars  == <<flags, table, rr, curPrio, pendSV, cpu, seq>>

Steps == {"boot", "run", "elevated", "zombie", "discard"}

\* Tasks that are used, active and not stopped (task_enabled_active_not_stopped).
Runnable == (used \cap active) \ stopped

\* The tasks a signal or the timer can activate.  A slot that is filled and not
\* activated has the wake time of its last owner, or the zero of scheduler_init;
\* models with "unready" look at the events that reach it in that state.
Signalable == IF "unready" \in Ops THEN used ELSE used \ unready
Wakeable == (Signalable \ unready) \cup (Signalable \cap stale)

\* The scheduling policies: is it SCHED_FIFO?
Policies == IF "fifo" \in Ops THEN BOOLEAN ELSE {FALSE}

-----------------------------------------------------------------------------
(* Root scheduling functions                                               *)

\* task_root_switch_context: save what is left of the current task's round
\* robin time (running costs at least one unit) and pend PendSV.
SwitchContext ==
  /\ pendSV' = TRUE
  /\ \E left \in 0..RRMax :
        /\ systick => left < rr[current] \/ left = 0
        /\ rr' = [rr EXCEPT ![current] = left]

\* Mutant: the current priority is not lowered.
UpdateOnStopped_KeepsPriority ==
  SwitchContext /\ UNCHANGED curPrio

\* scheduler_root_update_on_stopped, to be conjoined after the flags and
\* priorities of the step: the highest priority of the tasks now runnable.
UpdateOnStopped ==
  /\ \E p \in Priorities :
        /\ \A t \in Runnable' : priority'[t] <= p
        /\ p = Lowest \/ \E t \in Runnable' : priority'[t] = p
        /\ curPrio' = p
  /\ SwitchContext

\* Mutant: the current priority is not raised.
UpdateOnWake_KeepsPriority(woken) ==
  /\ UNCHANGED curPrio
  /\ IF \E t \in woken : t \notin stopped' /\ priority'[t] >= curPrio
     THEN SwitchContext ELSE UNCHANGED <<pendSV, rr>>

\* scheduler_root_update_on_wake(id, p) for a set of tasks woken in one step;
\* p is compared with the current priority first, then the stopped flag.
UpdateOnWake(woken) ==
  LET up == {t \in woken : t \notin stopped' /\ priority'[t] >= curPrio} IN
  IF up = {}
  THEN UNCHANGED <<curPrio, pendSV, rr>>
  ELSE /\ \E t \in up : /\ \A u \in up : priority'[u] <= priority'[t]
                        /\ curPrio' = priority'[t]
       /\ SwitchContext

\* Mutant: the executing tasks' time is not refilled.
SwitchContexts_NoRefill(e, r) ==
  LET next == {t \in e : t > current /\ (r[t] > 0 \/ t \in fifo)} IN
  /\ \/ \E t \in next : (\A u \in next : t <= u) /\ current' = t
     \/ next = {} /\ current' = 0
  /\ rr' = [r EXCEPT ![0] = RRMax]
  /\ systick' = (current' \notin fifo)

\* switch_contexts: the next slot after the current one that executes and has
\* round robin time left or is FIFO; else task 0, refilling the time of the
\* executing tasks once all of them have used theirs.
SwitchContexts(e, r) ==
  LET next == {t \in e : t > current /\ (r[t] > 0 \/ t \in fifo)} IN
  /\ IF next # {}
     THEN /\ \E t \in next : (\A u \in next : t <= u) /\ current' = t
          /\ rr' = r
     ELSE /\ current' = 0
          /\ rr' = [t \in Slots |->
                      IF t = 0
                      THEN IF r[0] = 0 THEN RRMax ELSE r[0]
                      ELSE IF t \in e /\ \A u \in e : r[u] = 0
                           THEN RRMax ELSE r[t]]
  /\ systick' = (current' \notin fifo)

\* cortexm_pendsv_handler
PendSV ==
  LET e == {t \in Runnable : priority[t] = curPrio} IN
  /\ pendSV
  /\ pendSV' = FALSE
  /\ exec' = e
  /\ execCount' = Cardinality(e)
  /\ yield' = FALSE
  /\ IF current = 0 \/ current \notin e \/ yield
     THEN SwitchContexts(e, rr)
     ELSE UNCHANGED <<current, rr, systick>>
  /\ UNCHANGED <<used, thread, active, stopped, fifo, table, curPrio, seq>>

\* cortexm_systick_handler: the current task's time is up.
SysTick ==
  /\ ~pendSV
  /\ systick
  /\ SwitchContexts(exec, [rr EXCEPT ![current] = 0])
  /\ UNCHANGED <<flags, table, curPrio, pendSV, execCount, yield, seq>>

\* A service call of t that is not the continuation of another one.
Svc(t, op) == ~pendSV /\ current = t /\ step[t] = "run" /\ child[t] = 0 /\ op \in Ops

-----------------------------------------------------------------------------
(* The scheduler loop, sleeping, waking and yielding                       *)

\* The loop of task 0: idle when nothing executes, else sched_yield.
SchedulerLoop ==
  /\ ~pendSV /\ current = 0 /\ step[0] = "run" /\ child[0] = 0
  /\ execCount > 0
  /\ yield' = TRUE
  /\ SwitchContext
  /\ UNCHANGED <<flags, table, curPrio, current, execCount, systick, seq>>

\* svcall_yield
SchedYield(t) ==
  /\ Svc(t, "yield")
  /\ yield' = TRUE
  /\ SwitchContext
  /\ UNCHANGED <<flags, table, curPrio, current, execCount, systick, seq>>

\* scheduler_root_update_on_sleep by a service call that blocks its caller.
Sleep(t) ==
  /\ Svc(t, "sleep")
  /\ active' = active \ {t}
  /\ exec' = exec \ {t}
  /\ UNCHANGED <<used, thread, stopped, fifo, table, cpu, seq>>
  /\ UpdateOnStopped

\* Blocked tasks are activated by another task's service call or by an
\* interrupt (scheduler_root_assert_active, scheduler_root_update_on_wake); the
\* match event of the timer may activate several.
Wake(woken) ==
  /\ "wake" \in Ops
  /\ woken # {}
  /\ \A t \in woken : t \in Wakeable \ active /\ step[t] = "run"
  /\ active' = active \cup woken
  /\ stale' = stale \ woken
  /\ UNCHANGED <<used, thread, stopped, exec, fifo, table, cpu, step, child, unready>>
  /\ UpdateOnWake(woken)

-----------------------------------------------------------------------------
(* Priorities and policies                                                 *)

\* The priority svcall_set_scheduling_param makes of the one it is given.
Clamp(q) == IF q > Highest THEN Highest ELSE IF q < Lowest THEN Lowest ELSE q

\* svcall_set_scheduling_param; the SysTick interrupt keeps its setting until
\* the next context switch.
SetSchedParam(t, id, q, isFifo) ==
  /\ Svc(t, "param")
  /\ id \in used
  /\ base' = [base EXCEPT ![id] = Clamp(q)]
  /\ priority' = [priority EXCEPT ![id] = Clamp(q)]
  /\ fifo' = IF isFifo THEN fifo \cup {id} ELSE fifo \ {id}
  /\ UNCHANGED <<used, thread, active, stopped, exec, pid, cpu, seq>>
  /\ IF id \in Runnable THEN UpdateOnStopped ELSE UNCHANGED <<curPrio, pendSV, rr>>

-----------------------------------------------------------------------------
(* Creating tasks                                                          *)

\* task_svcall_new_task: the first free slot gets a clean set of flags; its
\* priority is not written.
NewTask(c, isThread, p) ==
  /\ ~pendSV /\ current = c /\ child[c] = 0
  /\ \/ c = 0 /\ step[0] = "boot" /\ isThread
     \/ c # 0 /\ Svc(c, IF isThread THEN "create" ELSE "process")
  /\ p \in IF isThread THEN {pid[c]} ELSE Pids \ {pid[t] : t \in Slots}
  /\ \E i \in Tasks \ used :
        /\ \A j \in Tasks \ used : i <= j
        /\ used' = used \cup {i}
        /\ thread' = IF isThread THEN thread \cup {i} ELSE thread \ {i}
        /\ active' = active \ {i}
        /\ stopped' = stopped \ {i}
        /\ exec' = exec \ {i}
        /\ fifo' = fifo \ {i}
        /\ pid' = [pid EXCEPT ![i] = p]
        /\ rr' = [rr EXCEPT ![i] = RRMax]
        /\ child' = [child EXCEPT ![c] = i]
        /\ unready' = unready \cup {i}
  /\ UNCHANGED <<priority, base, curPrio, pendSV, cpu, step, stale>>

\* svcall_activate_thread
ActivateThread(c, p, isFifo) ==
  LET i == child[c] IN
  /\ ~pendSV /\ current = c /\ i # 0 /\ i \in thread
  /\ base' = [base EXCEPT ![i] = p]
  /\ priority' = [priority EXCEPT ![i] = p]
  /\ fifo' = IF isFifo THEN fifo \cup {i} ELSE fifo \ {i}
  /\ active' = active \cup {i}
  /\ child' = [child EXCEPT ![c] = 0]
  /\ unready' = unready \ {i}
  /\ stale' = stale \ {i}
  /\ step' = [step EXCEPT ![c] = "run"]
  /\ UNCHANGED <<used, thread, stopped, exec, pid, cpu>>
  /\ UpdateOnWake({i})

\* svcall_init_sched_task: the priority to fall back to is set, the priority
\* in the task table is the one the slot's last owner left.
ActivateProcess(c) ==
  LET i == child[c] IN
  /\ ~pendSV /\ current = c /\ i # 0 /\ i \notin thread
  /\ base' = [base EXCEPT ![i] = Lowest]
  /\ active' = active \cup {i}
  /\ child' = [child EXCEPT ![c] = 0]
  /\ unready' = unready \ {i}
  /\ stale' = stale \ {i}
  /\ UNCHANGED <<used, thread, stopped, exec, fifo, pid, priority, cpu, step>>
  /\ UpdateOnWake({i})

-----------------------------------------------------------------------------
(* Ending tasks                                                            *)

\* svcall_elevate_priority: no other task may run once the stack is freed.
ElevatePriority(t) ==
  /\ Svc(t, "exit") /\ t \in thread
  /\ base' = [base EXCEPT ![t] = Highest]
  /\ priority' = [priority EXCEPT ![t] = Highest]
  /\ fifo' = fifo \cup {t}
  /\ step' = [step EXCEPT ![t] = "elevated"]
  /\ UNCHANGED <<used, thread, active, stopped, exec, pid, cpu, child, unready, stale>>
  /\ UpdateOnStopped

\* svcall_cleanup: activate the tasks joined to t, free its slot, sleep.
Cleanup(t, joined) ==
  /\ ~pendSV /\ current = t /\ step[t] = "elevated"
  /\ joined \subseteq Wakeable \ active
  /\ used' = used \ {t}
  /\ exec' = exec \ {t}
  /\ active' = (active \cup joined) \ {t}
  /\ step' = [step EXCEPT ![t] = "run"]
  /\ UNCHANGED <<thread, stopped, fifo, table, cpu, child, unready, stale>>
  /\ UpdateOnStopped

\* svcall_stop_threads: free the other slots of the caller's process and send
\* SIGCHLD to the threads of the parent, up to the first that cannot take it.
\* It is reached from exit and from the default action of a signal, so from
\* any step of the caller; the parent of a zombie is not signalled again.
StopThreads(t, parent, told) ==
  LET others == {u \in Tasks \ {t} : pid[u] = pid[t]}
      parents == {u \in Signalable \ others : pid[u] = parent} IN
  /\ ~pendSV /\ current = t /\ "exit" \in Ops
  /\ told \subseteq parents
  /\ told # {} => parent # 0 /\ step[t] # "zombie"
  /\ used' = used \ others
  /\ exec' = exec \ others
  /\ active' = active \cup told
  /\ stopped' = stopped \ told
  /\ step' = [u \in Slots |->
                IF u \in others THEN "run"
                ELSE IF u # t THEN step[u]
                ELSE IF told # {} /\ told = parents THEN "zombie" ELSE "discard"]
  /\ child' = [u \in Slots |-> IF u \in others \cup {t} THEN 0 ELSE child[u]]
  /\ unready' = unready \ others
  /\ stale' = stale \cup ((others \cap used) \ active)
  /\ UNCHANGED <<thread, fifo, table, cpu>>
  /\ UpdateOnWake(told)

\* svcall_zombie_process: free the slot, or keep it until the parent waits.
ZombieProcess(t) ==
  /\ ~pendSV /\ current = t /\ step[t] \in {"zombie", "discard"}
  /\ active' = active \ {t}
  /\ exec' = exec \ {t}
  /\ used' = IF step[t] = "discard" THEN used \ {t} ELSE used
  /\ step' = IF step[t] = "discard" THEN [step EXCEPT ![t] = "run"] ELSE step
  /\ UNCHANGED <<thread, stopped, fifo, table, cpu, child, unready, stale>>
  /\ UpdateOnStopped

\* svcall_check_for_zombie_child: the parent frees the slot of a zombie.
ReapZombie(t, z) ==
  /\ Svc(t, "waitchild")
  /\ z \in used \ {t} /\ step[z] = "zombie"
  /\ used' = used \ {z}
  /\ exec' = exec \ {z}
  /\ step' = [step EXCEPT ![z] = "run"]
  /\ UNCHANGED <<thread, active, stopped, fifo, table, rr, curPrio, pendSV, cpu, child, unready, stale>>

-----------------------------------------------------------------------------
(* Signals, stopping and continuing                                        *)

\* signal_root_activate, from a service call or an interrupt
SignalActivate(t) ==
  /\ "signal" \in Ops
  /\ t \in Signalable
  /\ active' = active \cup {t}
  /\ stopped' = stopped \ {t}
  /\ UNCHANGED <<used, thread, exec, fifo, table, cpu, seq>>
  /\ UpdateOnWake({t})

\* Mutant: the current priority is not updated, so no switch follows.
StopPid_NoUpdate(t) ==
  /\ ~pendSV /\ current = t /\ "stop" \in Ops
  /\ stopped' = stopped \cup {t}
  /\ UNCHANGED <<used, thread, active, exec, fifo, table, rr, curPrio, pendSV, cpu, seq>>

\* svcall_stoppid: a thread stops itself, a main thread stops its process.
\* Like svcall_contpid it runs in a signal handler, at any step of the task.
StopPid(t) ==
  /\ ~pendSV /\ current = t /\ "stop" \in Ops
  /\ stopped' = stopped \cup IF t \in thread THEN {t}
                             ELSE {u \in Tasks : pid[u] = pid[t]}
  /\ UNCHANGED <<used, thread, active, exec, fifo, table, cpu, seq>>
  /\ UpdateOnStopped

\* svcall_contpid: the highest priority is taken over every slot that bears
\* the process id, used or not, active or not.
ContPid(t) ==
  LET same == IF t \in thread THEN {t} ELSE {u \in Tasks : pid[u] = pid[t]} IN
  /\ ~pendSV /\ current = t /\ "cont" \in Ops
  /\ pid[t] # 0
  /\ stopped' = stopped \ same
  /\ UNCHANGED <<used, thread, active, exec, fifo, table, cpu, seq>>
  /\ UpdateOnWake(same)

\* svcall_wait_child with no zombie ready: stop until a signal arrives.
WaitChild(t) ==
  /\ Svc(t, "waitchild")
  /\ stopped' = stopped \cup {t}
  /\ UNCHANGED <<used, thread, active, exec, fifo, table, cpu, seq>>
  /\ UpdateOnStopped

-----------------------------------------------------------------------------
\* scheduler_init, task_init: all slots free, task 0 about to start.
Init ==
  /\ used = {} /\ thread = {} /\ active = {} /\ stopped = {} /\ exec = {} /\ fifo = {}
  /\ pid = [t \in Slots |-> 0]
  /\ priority = [t \in Tasks |-> Lowest]
  /\ base = [t \in Tasks |-> Lowest]
  /\ rr = [t \in Slots |-> IF t = 0 THEN RRMax ELSE 0]
  /\ current = 0 /\ curPrio = Lowest /\ execCount = 0
  /\ yield = FALSE /\ pendSV = TRUE /\ systick = TRUE
  /\ step = [t \in Slots |-> IF t = 0 THEN "boot" ELSE "run"]
  /\ child = [t \in Slots |-> 0]
  /\ unready = {}
  /\ stale = Tasks

TaskStep(t) ==
  \/ SchedYield(t) \/ Sleep(t) \/ ElevatePriority(t) \/ ZombieProcess(t)
  \/ StopPid(t) \/ ContPid(t) \/ WaitChild(t)
  \/ \E id \in Tasks, q \in Lowest - 1..Highest + 1, f \in Policies :
        SetSchedParam(t, id, q, f)
  \/ \E s \in SUBSET Tasks : Cleanup(t, s) \/ \E p \in Pids : StopThreads(t, p, s)
  \/ \E z \in Tasks : ReapZombie(t, z)

CreateStep(c) ==
  \/ \E isThread \in BOOLEAN, p \in Pids : NewTask(c, isThread, p)
  \/ \E p \in Priorities, f \in Policies : ActivateThread(c, p, f)
  \/ ActivateProcess(c)

Next ==
  \/ PendSV \/ SysTick \/ SchedulerLoop
  \/ \E t \in Tasks : TaskStep(t) \/ SignalActivate(t)
  \/ \E s \in SUBSET Tasks : Wake(s)
  \/ \E c \in Slots : CreateStep(c)

Spec == Init /\ [][Next]_vars

\* PendSV is an exception that stays pending until taken; the SysTick counter
\* keeps running, so its interrupt comes again and again while it is enabled
\* (it can lose to PendSV each time: strong fairness); task 0 runs its loop.
Fairness == WF_vars(PendSV) /\ SF_vars(SysTick) /\ WF_vars(SchedulerLoop)

FairSpec == Spec /\ Fairness

-----------------------------------------------------------------------------
(* Properties                                                              *)

\* Types of the task table and of the scheduler's state (sos_task_table,
\* sos_sched_table, the statics of task.c).
TypeOK ==
  /\ used \subseteq Tasks /\ thread \subseteq Tasks /\ active \subseteq Tasks
  /\ stopped \subseteq Tasks /\ exec \subseteq Tasks /\ fifo \subseteq Tasks
  /\ pid \in [Slots -> Pids]
  /\ priority \in [Tasks -> Priorities]
  /\ base \in [Tasks -> Priorities]
  /\ rr \in [Slots -> 0..RRMax]
  /\ current \in Slots /\ curPrio \in Priorities /\ execCount \in 0..N
  /\ yield \in BOOLEAN /\ pendSV \in BOOLEAN /\ systick \in BOOLEAN
  /\ step \in [Slots -> Steps]
  /\ child \in [Slots -> Slots]
  /\ unready \subseteq Tasks /\ stale \subseteq Tasks

\* Whenever a task other than 0 has the processor and no context switch is
\* pending, it is used, active and not stopped, and no runnable task has a
\* higher priority (the rule stated above scheduler() in scheduler.c).
HighestPriorityRuns ==
  ~pendSV /\ current # 0 =>
    /\ current \in Runnable
    /\ \A t \in Runnable : priority[t] <= priority[current]

\* Task 0 calls the idle hook, which stops the processor until an interrupt,
\* only if no task is runnable ("Sleep when nothing else is going on").
IdleOnlyWhenNothingRunnable ==
  ~pendSV /\ current = 0 /\ execCount = 0 => Runnable = {}

\* Without FIFO tasks every task that stays in the set of executing tasks gets
\* the processor again and again, whatever the others do: the round robin of
\* switch_contexts with its refill by task 0.
RoundRobin ==
  \A t \in Tasks : []<>(t \notin exec \/ current = t)

\* A thread does not run before svcall_activate_thread has set it up ("Now
\* activate the thread", activate_thread).
NotRunBeforeActivated ==
  ~pendSV => current \notin unready

\* Between svcall_elevate_priority and svcall_cleanup, while the exiting thread
\* runs on a stack it has freed, no other task gets the processor.
NoSwitchBeforeCleanup ==
  [][current # 0 /\ step[current] = "elevated" /\ step'[current] = "elevated"
       => current' = current]_vars

=============================================================================

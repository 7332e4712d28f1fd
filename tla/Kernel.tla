------------------------------- MODULE Kernel -------------------------------
(***************************************************************************)
(* The blocking layer every service of the kernel is built on: a thread    *)
(* blocks on an object (scheduler_timing_root_timedblock), is activated    *)
(* with a reason (scheduler_root_assert_active) and the set of executing   *)
(* tasks follows (scheduler_root_update_on_wake, _on_stopped).             *)
(*                                                                         *)
(* Module Scheduler has the context switch in detail.  Here PendSV, which  *)
(* is taken before anything else runs, is part of the step that pends it,  *)
(* and the round robin is any order of the executing tasks: a thread takes *)
(* its next step whenever it is in exec.                                   *)
(***************************************************************************)
EXTENDS Integers, FiniteSets

CONSTANTS
  N,          \* the number of threads, slots 1..N of the task table
  Highest,    \* CONFIG_SCHED_HIGHEST_PRIORITY
  Scenarios,  \* the programs and base priorities of the threads a model looks at
  NULL        \* no object

Threads == 1..N
Priorities == 0..Highest

NoThread == 0   \* a pthread_t of -1

ASSUME KernelAssumption ==
  /\ N \in Nat \ {0}
  /\ Highest \in Nat
  /\ \A s \in Scenarios :
        /\ s = [program |-> s.program, base |-> s.base]
        /\ DOMAIN s.program = Threads /\ s.base \in [Threads -> Priorities]
        /\ \A t \in Threads : "pause" \in s.program[t] => "signal" \in s.program[t]

VARIABLES
  program,      \* the calls each thread makes, the objects it uses, and
                \* "signal" if signals are sent to it
  base,         \* attr.schedparam.sched_priority
  active,       \* TASK_FLAGS_ACTIVE
  exec,         \* TASK_FLAGS_EXEC
  priority,     \* sos_task_table[].priority
  curPrio,      \* m_task_current_priority
  blockObject,  \* sos_sched_table[].block_object
  unblockType,  \* the unblock type in sos_sched_table[].flags
  wake,         \* the threads whose wake time is not SCHEDULER_TIMEVAL_SEC_INVALID
  call          \* where a thread is: the call it is in after a service call of it

fixed == <<program, base>>
sched == <<exec, curPrio>>
block == <<active, blockObject, unblockType, wake>>
kernel == <<fixed, sched, block, priority>>

UnblockTypes == {"NONE", "MUTEX", "SEMAPHORE", "COND", "SLEEP", "SIGNAL", "TRANSFER", "AIO"}

Idle == [op |-> "none", on |-> NULL]
InCall(t, ops) == t \in exec /\ call[t].op \in ops
Calls(t, op) == t \in exec /\ call[t] = Idle /\ op \in program[t]
Enter(t, op, o) == call' = [call EXCEPT ![t] = [op |-> op, on |-> o]]
Return(t) == call' = [call EXCEPT ![t] = Idle]

\* f with the value v for the threads in ws.
Put(f, ws, v) == [t \in Threads |-> IF t \in ws THEN v ELSE f[t]]

-----------------------------------------------------------------------------
(* Scheduling                                                              *)

\* Set the current priority and let the context switcher collect the tasks
\* that execute at it.
Switch(p) ==
  /\ curPrio' = p
  /\ exec' = {t \in active' : priority'[t] = p}

\* scheduler_root_update_on_stopped
UpdateOnStopped ==
  \E p \in Priorities :
     /\ \A t \in active' : priority'[t] <= p
     /\ p = 0 \/ \E t \in active' : priority'[t] = p
     /\ Switch(p)

\* scheduler_root_update_on_wake(-, p)
UpdateOnWake(p) ==
  IF p < curPrio THEN UNCHANGED sched ELSE Switch(p)

\* The highest of the priorities f gives the threads ws, below all if none.
IsHighest(p, f, ws) ==
  \/ ws = {} /\ p = -1
  \/ \E t \in ws : f[t] = p /\ \A u \in ws : f[u] <= p

-----------------------------------------------------------------------------
(* Blocking and waking                                                     *)

\* scheduler_root_assert_active for the threads ws.
AssertActive(ws, type) ==
  /\ active' = active \cup ws
  /\ unblockType' = Put(unblockType, ws, type)
  /\ blockObject' = Put(blockObject, ws, NULL)
  /\ wake' = wake \ ws

\* scheduler_timing_root_timedblock by t, which has no time limit or one that
\* is still to come: the caller sleeps.  The unblock type is left alone.
Block(t, o, isTimed) ==
  /\ active' = active \ {t}
  /\ blockObject' = [blockObject EXCEPT ![t] = o]
  /\ wake' = IF isTimed THEN wake \cup {t} ELSE wake \ {t}
  /\ UNCHANGED unblockType
  /\ UpdateOnStopped

\* scheduler_timing_root_timedblock with a time limit that has passed: the
\* caller stays active.  The wake time is written if it is in the current
\* period of the microsecond counter.
BlockExpired(t, o) ==
  /\ blockObject' = [blockObject EXCEPT ![t] = o]
  /\ wake' \in {wake, wake \cup {t}}
  /\ UNCHANGED <<active, sched>>

\* The threads blocked on o, for a caller c.
BlockedOn(o, c) == {w \in Threads \ {c} : blockObject[w] = o /\ w \notin active}

\* The slots w comes after c when the table is scanned from c on.
Distance(c, w) == IF w > c THEN w - c ELSE w - c + N

\* Mutant: the scan starts at the first slot of the table.
HighestPriorityBlocked_FirstSlot(o, c) ==
  {w \in BlockedOn(o, c) :
     \A v \in BlockedOn(o, c) : base[v] < base[w] \/ (base[v] = base[w] /\ w <= v)}

\* scheduler_get_highest_priority_blocked(o): of the highest base priority,
\* the first after the caller in the table; empty if nobody is blocked.
HighestPriorityBlocked(o, c) ==
  {w \in BlockedOn(o, c) :
     \A v \in BlockedOn(o, c) :
        \/ base[v] < base[w]
        \/ base[v] = base[w] /\ Distance(c, w) <= Distance(c, v)}

\* root_handle_usecond_match_event: the threads whose time has come.
TimerMatch(ws) ==
  /\ ws # {} /\ ws \subseteq wake \ active
  /\ AssertActive(ws, "SLEEP")
  /\ \E p \in Priorities : IsHighest(p, priority, ws) /\ UNCHANGED priority /\ UpdateOnWake(p)
  /\ UNCHANGED fixed

\* signal_root_activate; the handler itself does nothing to this state.
Signal(t) ==
  /\ "signal" \in program[t]
  /\ AssertActive({t}, "SIGNAL")
  /\ UNCHANGED <<fixed, priority>>
  /\ UpdateOnWake(priority[t])

\* signal_svcall_wait without a time limit (pause, sigwait): the thread sleeps
\* and its block object stays what it was.
SignalWait(t) ==
  /\ Calls(t, "pause")
  /\ active' = active \ {t}
  /\ UNCHANGED <<blockObject, unblockType, wake, fixed, priority>>
  /\ UpdateOnStopped

\* The end of a round: task 0 yields and the executing tasks are collected anew.
RoundEnd ==
  /\ exec' = {t \in active : priority[t] = curPrio}
  /\ UNCHANGED <<fixed, curPrio, block, priority>>

\* The steps that belong to no service in particular.
KernelStep ==
  /\ \/ RoundEnd
     \/ \E ws \in SUBSET Threads : TimerMatch(ws)
     \/ \E t \in Threads : Signal(t) \/ SignalWait(t)
  /\ UNCHANGED call

\* Every thread has been activated and takes its turn.
KernelInit ==
  /\ \E s \in Scenarios : program = s.program /\ base = s.base
  /\ active = Threads
  /\ priority = base
  /\ curPrio \in Priorities /\ IsHighest(curPrio, base, Threads)
  /\ exec = {t \in Threads : base[t] = curPrio}
  /\ blockObject = [t \in Threads |-> NULL]
  /\ unblockType = [t \in Threads |-> "NONE"]
  /\ wake = {}
  /\ call = [t \in Threads |-> Idle]

\* Types of the task and scheduler tables, for the block objects os.
KernelTypeOK(os) ==
  /\ [program |-> program, base |-> base] \in Scenarios
  /\ active \subseteq Threads /\ exec \subseteq active /\ wake \subseteq Threads
  /\ priority \in [Threads -> Priorities] /\ curPrio \in Priorities
  /\ blockObject \in [Threads -> os \cup {NULL}]
  /\ unblockType \in [Threads -> UnblockTypes]
=============================================================================

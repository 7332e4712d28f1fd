---------------------------- MODULE PthreadCond ----------------------------
(***************************************************************************)
(* sys/pthread/pthread_cond.c.  Waiting gives the mutex up and blocks in    *)
(* one service call; pthread_cond_signal chooses the thread to wake in      *)
(* user code and wakes it in a service call, two steps.                    *)
(***************************************************************************)
EXTENDS PthreadMutex

CONSTANT Conds

ASSUME CondAssumption == Conds \cap (Mutexes \cup {NULL}) = {}

\* Mutant: the mutex is unlocked and the thread blocks in a call of its own.
SvcallCondWait_TwoCalls(t, c, m, isTimed) ==
  /\ RootUnlock(t, m, NULL)
  /\ holds' = [holds EXCEPT ![t] = @ \ {m}]
  /\ Enter(t, "relock", m)

\* Mutant: the interval is not made invalid for pthread_cond_wait.
SvcallCondWait_SomeTime(t, c, m, isTimed) ==
  LET ws == HighestPriorityBlocked(m, t) IN
  /\ HandOver(t, m, ws)
  /\ active' = (active \cup ws) \ {t}
  /\ unblockType' = Put(unblockType, ws, "MUTEX")
  /\ blockObject' = [Put(blockObject, ws, NULL) EXCEPT ![t] = c]
  /\ wake' = (wake \ ws) \cup {t}
  /\ UpdateOnStopped
  /\ UNCHANGED fixed
  /\ holds' = [holds EXCEPT ![t] = @ \ {m}]
  /\ Enter(t, "relock", m)

\* svcall_cond_wait: unlock, then block on the condition.  A time limit that has
\* passed leaves t active.
SvcallCondWait(t, c, m, isTimed) ==
  LET ws == HighestPriorityBlocked(m, t) IN
  /\ \/ /\ HandOver(t, m, ws)
        /\ active' = (active \cup ws) \ {t}
        /\ unblockType' = Put(unblockType, ws, "MUTEX")
        /\ blockObject' = [Put(blockObject, ws, NULL) EXCEPT ![t] = c]
        /\ wake' = IF isTimed THEN (wake \ ws) \cup {t} ELSE wake \ (ws \cup {t})
        /\ UpdateOnStopped
        /\ UNCHANGED fixed
     \/ isTimed /\ RootUnlock(t, m, c)
  /\ holds' = [holds EXCEPT ![t] = @ \ {m}]
  /\ Enter(t, "relock", m)

\* pthread_cond_timedwait up to its service call; a caller that does not own the
\* mutex gets EACCES.
CondWait(t, c, m, isTimed) ==
  /\ Calls(t, IF isTimed THEN "condtimedwait" ELSE "condwait")
  /\ owner[m] = t
  /\ SvcallCondWait(t, c, m, isTimed)

\* The rest of pthread_cond_timedwait: pthread_mutex_lock, whatever the reason
\* t was activated for.  From here on t is in a lock call like any other.
CondRelock(t) ==
  InCall(t, {"relock"}) /\ MutexTrylock(t, call[t].on, "lock")

\* pthread_cond_signal: the thread to wake, if any, from the user code's scan of
\* the table.
ChooseWaiter(t, c) ==
  /\ \E w \in HighestPriorityBlocked(c, t) : Enter(t, "condsignal", w)
  /\ UNCHANGED <<kernel, mutex, holds>>

\* A program with "locked" signals only with a mutex held.
CondSignal(t, c) ==
  /\ Calls(t, "condsignal")
  /\ "locked" \in program[t] => holds[t] # {}
  /\ ChooseWaiter(t, c)

\* svcall_cond_signal
SvcallCondSignal(t) ==
  LET w == call[t].on IN
  /\ InCall(t, {"condsignal"})
  /\ AssertActive({w}, "COND")
  /\ UNCHANGED <<fixed, priority>>
  /\ UpdateOnWake(priority[w])
  /\ Return(t)
  /\ UNCHANGED <<mutex, holds>>

\* svcall_cond_broadcast, scheduler_root_unblock_all: the priority to switch to
\* is the highest base priority of the threads woken.
CondBroadcast(t, c) ==
  LET ws == BlockedOn(c, t) IN
  /\ Calls(t, "condbroadcast") /\ ("locked" \in program[t] => holds[t] # {})
  /\ AssertActive(ws, "COND")
  /\ UNCHANGED <<fixed, priority>>
  /\ \E p \in {-1} \cup Priorities : IsHighest(p, base, ws) /\ UpdateOnWake(p)
  /\ UNCHANGED <<mutex, holds, call>>

CondStep(t) ==
  \/ \E c \in Conds \cap program[t] :
       \/ CondSignal(t, c) \/ CondBroadcast(t, c)
       \/ \E m \in Mutexes \cap program[t], isTimed \in BOOLEAN : CondWait(t, c, m, isTimed)
  \/ CondRelock(t) \/ SvcallCondSignal(t)

-----------------------------------------------------------------------------
\* The thread pthread_cond_signal has chosen still waits for the condition when
\* the service call wakes it.
SignalTargetWaits ==
  \A t \in Threads : call[t].op = "condsignal" =>
    LET w == call[t].on IN
    w \notin active /\ blockObject[w] \in Conds /\ call[w].op = "relock"

\* A thread leaves pthread_cond_wait only for a signal or a broadcast that came
\* after it gave the mutex up: no wake-up is lost between unlocking and blocking,
\* and none is spurious unless a signal interrupts the wait.
CondWakeIsSignalled ==
  \A t \in active :
    call[t].op = "relock" /\ program[t] \cap {"signal", "condtimedwait"} = {} =>
      unblockType[t] = "COND"
=============================================================================

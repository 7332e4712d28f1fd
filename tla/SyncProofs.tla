----------------------------- MODULE SyncProofs -----------------------------
(***************************************************************************)
(* Theorems about Sync: threads that use mutexes, condition variables,     *)
(* semaphores and asynchronous I/O together, for any number of threads,    *)
(* objects and priorities.                                                 *)
(***************************************************************************)
EXTENDS SyncSteps

\* Most leaves are first-order: Zenon is the default, and the leaves it does
\* not find say SMT.
USE Zenon

-----------------------------------------------------------------------------
(* Waiting for a condition                                                 *)

\* Without a time limit that has passed, the flag of aio_suspend is set only while the
\* thread sleeps there.
FlagInv(t) ==
  t \in suspended /\ "expired" \notin program[t] => t \notin active /\ call[t].op = "aiosuspend"

SignalledInv(t) ==
  unblockType[t] = "SIGNAL" => program[t] \cap {"signal", "sigevent"} # {}

\* A thread that sleeps in pthread_cond_wait is blocked on a condition; one that is blocked on
\* a condition sleeps there, unless it has left a time limit that had passed.
CondBlockInv(t) ==
  /\ call[t].op = "relock" /\ t \notin active =>
       blockObject[t] \in Conds /\ (t \in wake => "condtimedwait" \in program[t])
  /\ blockObject[t] \in Conds =>
       (t \notin active /\ call[t].op = "relock") \/ "condtimedwait" \in program[t]

WaitInv == \A t \in Threads : FlagInv(t) /\ SignalledInv(t) /\ CondBlockInv(t)

LEMMA PassiveWaitInv ==
  ASSUME SyncTypeOK, WaitInv, UNCHANGED fixed, NEW u \in Threads, Passive(u)
  PROVE  (FlagInv(u) /\ SignalledInv(u) /\ CondBlockInv(u))'
<1>1. program'[u] = program[u] /\ call'[u] = call[u] /\ Left(u)
  BY DEF fixed, Passive
<1>2. FlagInv(u)'
  BY <1>1 DEF WaitInv, FlagInv, Passive
<1>3. CASE Untouched(u)
  BY <1>1, <1>2, <1>3 DEF WaitInv, SignalledInv, CondBlockInv, Untouched
<1>4. ASSUME NEW type \in UnblockTypes, Woken(u, type), Reason(u, type)
      PROVE  (SignalledInv(u) /\ CondBlockInv(u))'
  <2>1. CondBlockInv(u)'
    BY <1>4, ObjectKinds DEF Woken, CondBlockInv
  <2>2. type = "SIGNAL" => program[u] \cap {"signal", "sigevent"} # {}
    BY <1>4 DEF Reason
  <2> QED BY <1>1, <1>4, <2>1, <2>2 DEF Woken, SignalledInv
<1> QED BY <1>1, <1>2, <1>3, <1>4 DEF Left

LEMMA ActingWaitInv ==
  ASSUME SyncTypeOK, WaitInv, NEW t \in Threads, Acts(t)
  PROVE  (FlagInv(t) /\ SignalledInv(t) /\ CondBlockInv(t))'
<1>1. program'[t] = program[t] /\ t \in active
  BY DEF Acts, Frame, fixed, SyncTypeOK, TableTypeOK, KernelTypeOK
<1>2. FlagInv(t)'
  BY <1>1 DEF Acts, Suspends, WaitInv, FlagInv
<1>3. FlagInv(t) /\ SignalledInv(t) /\ CondBlockInv(t)
  BY DEF WaitInv
<1>4. ASSUME NEW m \in Mutexes \cap program[t], NEW op \in LockCalls, Took(t, m) \/ Tried(t, m, op)
      PROVE  (SignalledInv(t) /\ CondBlockInv(t))'
  BY <1>1, <1>3, <1>4, ObjectKinds, SMT DEF Took, Tried, Untouched, Slept, SignalledInv,
     CondBlockInv, Idle, LockCalls

<1>5. ASSUME NEW m \in Mutexes \cap program[t], Unlocked(t, m)
      PROVE  (SignalledInv(t) /\ CondBlockInv(t))'
  BY <1>1, <1>3, <1>5, ObjectKinds DEF Unlocked, Untouched, SignalledInv, CondBlockInv, Idle
<1>6. ASSUME Looped(t) PROVE (SignalledInv(t) /\ CondBlockInv(t))'
  <2>1. call[t].on \in Mutexes
    BY <1>6 DEF Looped, SyncTypeOK, CallTypeOK, CallFits
  <2> QED BY <1>1, <1>3, <1>6, <2>1, ObjectKinds DEF Looped, Slept, SignalledInv,
             CondBlockInv, LockCalls
<1>7. ASSUME Returned(t) PROVE (SignalledInv(t) /\ CondBlockInv(t))'
  BY <1>1, <1>3, <1>7 DEF Returned, Untouched, SignalledInv, CondBlockInv, Idle
<1>8. ASSUME NEW c \in Conds, NEW w \in Threads, Chose(t, c, w)
      PROVE  (SignalledInv(t) /\ CondBlockInv(t))'
  BY <1>1, <1>3, <1>8 DEF Chose, Untouched, SignalledInv, CondBlockInv
<1>9. ASSUME NEW c \in Conds, NEW m \in Mutexes, NEW isTimed \in BOOLEAN, Waited(t, c, m, isTimed)
      PROVE  (SignalledInv(t) /\ CondBlockInv(t))'
  BY <1>1, <1>3, <1>9, SMT DEF Waited, Slept, SignalledInv, CondBlockInv
<1>10. ASSUME Other(t) PROVE (SignalledInv(t) /\ CondBlockInv(t))'
  BY <1>1, <1>3, <1>10, ObjectKinds DEF Other, Settled, SignalledInv, CondBlockInv
<1> QED BY <1>2, <1>4, <1>5, <1>6, <1>7, <1>8, <1>9, <1>10 DEF Acts, MutexActs

LEMMA NextWaitInv == SyncTypeOK /\ WaitInv /\ [SyncNext]_allVars => WaitInv'
<1> SUFFICES ASSUME SyncTypeOK, WaitInv, [SyncNext]_allVars, NEW u \in Threads
             PROVE  (FlagInv(u) /\ SignalledInv(u) /\ CondBlockInv(u))'
  BY DEF WaitInv
<1>1. UNCHANGED fixed
  BY SyncNextType
<1>2. Passive(u) \/ Acts(u)
  BY StepFrame DEF Quiet, Acts, Frame
<1> QED BY <1>1, <1>2, PassiveWaitInv, ActingWaitInv

LEMMA InitWaitInv == SyncInit => WaitInv
BY ObjectKinds
   DEF SyncInit, KernelInit, AioInit, Idle, WaitInv, FlagInv, SignalledInv, CondBlockInv

LEMMA WaitInvHolds == SyncSpec => [](SyncTypeOK /\ WaitInv)
BY SyncInitType, SyncNextType, InitWaitInv, NextWaitInv, PTL DEF SyncSpec

\* Threads that wait for conditions are not woken by what they did before: by a sem_post that
\* chose them in an earlier wait for a semaphore, a late callback of aio.c, or its signal.
WaitersApart ==
  \A t \in Threads : CondWaits(t) =>
    program[t] \cap {"semwait", "semtimedwait", "expired", "sigevent"} = {}

CondWakeInv(t) ==
  t \in active /\ call[t].op = "relock" /\ program[t] \cap {"signal", "condtimedwait"} = {} =>
    unblockType[t] = "COND"

LEMMA PassiveCondWake ==
  ASSUME SyncTypeOK, WaitInv, WaitersApart, UNCHANGED fixed, NEW u \in Threads, Passive(u),
         CondWakeInv(u)
  PROVE  CondWakeInv(u)'
<1>1. program'[u] = program[u] /\ call'[u] = call[u] /\ Left(u)
  BY DEF fixed, Passive
<1> SUFFICES ASSUME u \in active', call[u].op = "relock",
                    program[u] \cap {"signal", "condtimedwait"} = {}
             PROVE  unblockType'[u] = "COND"
  BY <1>1 DEF CondWakeInv
<1>2. CASE Untouched(u)
  BY <1>1, <1>2 DEF CondWakeInv, Untouched
<1>3. ASSUME NEW type \in UnblockTypes, Woken(u, type), Reason(u, type)
      PROVE  unblockType'[u] = "COND"
  <2>1. unblockType'[u] = type
    BY <1>3 DEF Woken
  <2>2. program[u] \cap {"semwait", "semtimedwait", "expired", "sigevent"} = {}
    BY DEF WaitersApart, SyncTypeOK, CallTypeOK, CallFits
  <2>3. CondBlockInv(u) /\ FlagInv(u)
    BY DEF WaitInv
  <2>4. type # "SLEEP"
    BY <1>3, <2>3 DEF Reason, CondBlockInv
  <2>5. type # "SIGNAL"
    BY <1>3, <2>2 DEF Reason
  <2>6. type # "MUTEX"
    BY <1>3, <2>3, ObjectKinds DEF Reason, CondBlockInv
  <2>7. type # "SEMAPHORE"
    <3>1. \A t \in Threads : call[t].op = "sempost" => SemWaits(call[t].on)
      BY DEF SyncTypeOK, CallTypeOK, CallFits
    <3>2. ~SemWaits(u)
      BY <2>2 DEF SemWaits
    <3> QED BY <1>3, <3>1, <3>2, SMT DEF Reason, WakesChosen
  <2>8. type # "AIO"
    BY <1>3, <2>2, <2>3 DEF Reason, FlagInv
  <2>9. type = "COND"
    BY <1>3, <2>4, <2>5, <2>6, <2>7, <2>8 DEF Reason
  <2> QED BY <2>1, <2>9
<1> QED BY <1>1, <1>2, <1>3 DEF Left

LEMMA ActingCondWake ==
  ASSUME SyncTypeOK, NEW t \in Threads, Acts(t)
  PROVE  CondWakeInv(t)'
<1>1. program'[t] = program[t]
  BY DEF Acts, Frame, fixed
<1>2. ASSUME NEW c \in Conds, NEW m \in Mutexes, NEW isTimed \in BOOLEAN, Waited(t, c, m, isTimed)
      PROVE  CondWakeInv(t)'
  BY <1>1, <1>2 DEF Waited, Slept, CondWakeInv
<1>3. CASE call'[t].op # "relock"
  BY <1>3 DEF CondWakeInv
<1>4. CASE MutexActs(t)
  <2>1. ASSUME NEW m \in Mutexes, NEW op \in LockCalls, Took(t, m) \/ Tried(t, m, op)
        PROVE  call'[t].op # "relock"
    BY <2>1, SMT DEF Took, Tried, Idle, LockCalls
  <2>2. ASSUME NEW m \in Mutexes, Unlocked(t, m) PROVE call'[t].op # "relock"
    BY <2>2, SMT DEF Unlocked, Idle
  <2>3. Looped(t) \/ Returned(t) => call'[t].op # "relock"
    BY SMT DEF Looped, Returned, Idle, LockCalls
  <2>4. ASSUME NEW c \in Conds, NEW w \in Threads, Chose(t, c, w) PROVE call'[t].op # "relock"
    BY <2>4, SMT DEF Chose
  <2> QED BY <1>2, <1>3, <1>4, <2>1, <2>2, <2>3, <2>4 DEF MutexActs
<1> QED BY <1>3, <1>4 DEF Acts, Other

\* A thread that waits for a condition without time limit, and is sent no signals, is woken by
\* pthread_cond_signal or pthread_cond_broadcast only, after it gave the mutex up: whatever
\* the timer, hand-overs, posts and drivers do to the others.
THEOREM CondWakeIsSignalledHolds == SyncSpec /\ WaitersApart => []CondWakeIsSignalled
<1> DEFINE Inv == WaitersApart /\ \A t \in Threads : CondWakeInv(t)
<1>1. SyncInit /\ WaitersApart => Inv
  BY SMT DEF SyncInit, KernelInit, Idle, CondWakeInv
<1>2. SyncTypeOK /\ WaitInv /\ Inv /\ [SyncNext]_allVars => Inv'
  <2> SUFFICES ASSUME SyncTypeOK, WaitInv, Inv, [SyncNext]_allVars PROVE Inv'
    OBVIOUS
  <2>1. UNCHANGED fixed
    BY SyncNextType
  <2>2. WaitersApart'
    BY <2>1 DEF WaitersApart, CondWaits, fixed
  <2>3. ASSUME NEW u \in Threads PROVE CondWakeInv(u)'
    <3>1. Passive(u) \/ Acts(u)
      BY StepFrame DEF Quiet, Acts, Frame
    <3> QED BY <2>1, <3>1, PassiveCondWake, ActingCondWake
  <2> QED BY <2>2, <2>3
<1>3. SyncTypeOK /\ Inv => CondWakeIsSignalled
  BY DEF CondWakeIsSignalled, CondWakeInv, SyncTypeOK, TableTypeOK, KernelTypeOK
<1> QED BY <1>1, <1>2, <1>3, WaitInvHolds, PTL DEF SyncSpec

-----------------------------------------------------------------------------
(* Lock counts and priority ceilings                                       *)

\* The lock count of every mutex is that of its owner, through recursive locks, hand-overs and
\* waits for conditions, whatever else the threads do.
THEOREM LockCountInSync == SyncSpec => []LockCount
<1>1. SyncInit => LockCount
  BY SMT DEF SyncInit, MutexInit, LockCount
<1>2. ASSUME SyncTypeOK, LockCount, [SyncNext]_allVars PROVE LockCount'
  <2>1. /\ owner \in [Mutexes -> Threads \cup {NoThread}] /\ lock \in [Mutexes -> 0..MaxLocks]
        /\ MaxLocks \in Nat
    BY <1>2, MutexAssumption DEF SyncTypeOK, MutexTypeOK
  <2>2. CASE UNCHANGED <<owner, lock, priority>>
    BY <1>2, <2>2 DEF LockCount
  <2>3. ASSUME NEW m \in Mutexes, Counts(m) PROVE LockCount'
    BY <1>2, <2>1, <2>3, SMT DEF Counts, LockCount
  <2>4. ASSUME NEW t \in Threads, NEW m \in Mutexes, TakeFree(t, m) PROVE LockCount'
    BY <1>2, <2>1, <2>4, ConstantFacts, SMT DEF TakeFree, LockCount
  <2>5. ASSUME NEW t \in Threads, NEW m \in Mutexes, HandOver(t, m, HighestPriorityBlocked(m, t))
        PROVE  LockCount'
    <3> DEFINE ws == HighestPriorityBlocked(m, t)
    <3>1. ws # {} => (CHOOSE w \in ws : TRUE) \in Threads
      BY DEF HighestPriorityBlocked, BlockedOn
    <3>2. (owner'[m] = NoThread /\ lock'[m] = 0) \/ (owner'[m] # NoThread /\ lock'[m] = 1)
      BY <2>1, <2>5, <3>1, ConstantFacts DEF HandOver
    <3>3. \A n \in Mutexes \ {m} : owner'[n] = owner[n] /\ lock'[n] = lock[n]
      BY <2>1, <2>5 DEF HandOver
    <3> QED BY <1>2, <2>1, <3>2, <3>3, SMT DEF LockCount
  <2> QED BY <1>2, <2>2, <2>3, <2>4, <2>5, MutexChange
<1> QED BY <1>1, <1>2, SyncTypeCorrect, PTL DEF SyncSpec

\* A thread that uses a mutex with a ceiling above its priority uses no other mutex: an
\* unlock takes the thread back to its base priority, whatever else it holds.
CeilingsApart ==
  \A t \in Threads : \A m, n \in Mutexes \cap program[t] : m = n \/ Ceiling[m] <= base[t]

\* What CeilingHeld rests on: no priority falls below the base priority.
CeilingInv ==
  /\ \A t \in Threads : priority[t] >= base[t]
  /\ CeilingHeld

LEMMA CeilingStep ==
  ASSUME SyncTypeOK, CeilingsApart, CeilingInv, [SyncNext]_allVars
  PROVE  CeilingInv'
<1>1. UNCHANGED fixed /\ SyncTypeOK'
  BY SyncNextType
<1>2. /\ priority \in [Threads -> Priorities] /\ base \in [Threads -> Priorities]
      /\ owner \in [Mutexes -> Threads \cup {NoThread}] /\ owner' \in [Mutexes -> Threads \cup {NoThread}]
      /\ Ceiling \in [Mutexes -> Priorities] /\ base' = base /\ NoThread \notin Threads
      /\ \A m \in Mutexes : owner'[m] # NoThread => m \in program[owner'[m]]
  BY <1>1, ScenarioFacts, ConstantFacts
     DEF SyncTypeOK, TableTypeOK, KernelTypeOK, MutexTypeOK, fixed, NoThread, Threads
<1>3. CASE UNCHANGED <<owner, priority>>
  BY <1>2, <1>3 DEF CeilingInv, CeilingHeld
<1>4. ASSUME NEW t \in Threads, NEW m \in Mutexes, TakeFree(t, m) PROVE CeilingInv'
  <2>1. \A n \in Mutexes : owner'[n] = IF n = m THEN t ELSE owner[n]
    BY <1>2, <1>4 DEF TakeFree
  <2>2. \A u \in Threads : priority'[u] = IF u = t /\ Ceiling[m] > priority[t] THEN Ceiling[m] ELSE priority[u]
    BY <1>2, <1>4 DEF TakeFree
  <2>3. \A u \in Threads : priority'[u] \in Int /\ priority'[u] >= priority[u]
    BY <1>2, <2>2, SMT DEF Priorities
  <2>4. priority'[t] >= Ceiling[m]
    BY <1>2, <2>2, SMT DEF Priorities
  <2>5. \A u \in Threads : priority'[u] >= base'[u]
    BY <1>2, <2>3, SMT DEF CeilingInv, Priorities
  <2>6. ASSUME NEW n \in Mutexes, owner'[n] # NoThread PROVE priority'[owner'[n]] >= Ceiling[n]
    BY <1>2, <2>1, <2>3, <2>4, <2>6, SMT DEF CeilingInv, CeilingHeld, Priorities
  <2> QED BY <2>5, <2>6 DEF CeilingInv, CeilingHeld
<1>5. ASSUME NEW t \in Threads, NEW m \in Mutexes, owner[m] = t,
             HandOver(t, m, HighestPriorityBlocked(m, t))
      PROVE  CeilingInv'
  <2> DEFINE ws == HighestPriorityBlocked(m, t)
  <2>1. \A u \in Threads : priority'[u] = IF u = t THEN base[t]
                             ELSE IF u \in ws /\ Ceiling[m] > priority[u] THEN Ceiling[m] ELSE priority[u]
    BY <1>5 DEF HandOver
  <2>2. \A n \in Mutexes \ {m} : owner'[n] = owner[n]
    BY <1>2, <1>5 DEF HandOver
  <2>3. owner'[m] # NoThread => owner'[m] \in ws
    BY <1>2, <1>5 DEF HandOver
  <2>4. t \notin ws
    BY DEF HighestPriorityBlocked, BlockedOn
  <2>5. \A u \in Threads : priority'[u] >= base'[u]
    BY <1>2, <2>1, SMT DEF CeilingInv, Priorities
  <2>6. owner'[m] # NoThread => priority'[owner'[m]] >= Ceiling[m]
    BY <1>2, <2>1, <2>3, <2>4, SMT DEF Priorities
  <2>7. ASSUME NEW n \in Mutexes \ {m}, owner'[n] # NoThread PROVE priority'[owner'[n]] >= Ceiling[n]
    <3>1. CASE owner[n] = t
      <4>1. n \in program[t] /\ m \in program[t]
        BY <1>5, <3>1, <1>2 DEF SyncTypeOK, MutexTypeOK
      <4>2. Ceiling[n] <= base[t]
        BY <4>1 DEF CeilingsApart
      <4> QED BY <1>2, <2>1, <2>2, <3>1, <4>2 DEF Priorities
    <3>2. CASE owner[n] # t
      BY <1>2, <2>1, <2>2, <2>7, <3>2, SMT DEF CeilingInv, CeilingHeld, Priorities
    <3> QED BY <3>1, <3>2
  <2> QED BY <2>5, <2>6, <2>7 DEF CeilingInv, CeilingHeld
<1> QED BY <1>3, <1>4, <1>5, MutexChange DEF Counts

\* Priority ceilings: whoever has a mutex, and however it got it (a free mutex, a hand-over at
\* an unlock or inside pthread_cond_wait), runs at its ceiling at least until it gives it up.
THEOREM CeilingHeldAlways == SyncSpec /\ CeilingsApart => []CeilingHeld
<1>1. SyncInit => CeilingInv
  <2> SUFFICES ASSUME SyncInit PROVE CeilingInv
    OBVIOUS
  <2>1. base \in [Threads -> Priorities]
    BY SyncInitType, ScenarioFacts DEF SyncTypeOK, TableTypeOK, KernelTypeOK
  <2> QED BY <2>1, SMT DEF SyncInit, KernelInit, MutexInit, CeilingInv, CeilingHeld, Priorities
<1>2. SyncTypeOK /\ CeilingsApart /\ CeilingInv /\ [SyncNext]_allVars => CeilingInv' /\ CeilingsApart'
  <2>1. SyncTypeOK /\ CeilingsApart /\ [SyncNext]_allVars => CeilingsApart'
    BY SyncNextType DEF CeilingsApart, fixed
  <2> QED BY <2>1, CeilingStep
<1>3. CeilingInv => CeilingHeld
  BY DEF CeilingInv
<1> QED BY <1>1, <1>2, <1>3, SyncTypeCorrect, PTL DEF SyncSpec

-----------------------------------------------------------------------------
(* Mutexes and conditions together                                         *)

\* Threads that use mutexes are not woken by what they did before (see WaitersApart).
LockersApart ==
  \A t \in Threads : program[t] \cap Mutexes # {} =>
    program[t] \cap {"semwait", "semtimedwait", "expired", "sigevent"} = {}

CondUsers == {t \in Threads : program[t] \cap Conds # {}}

\* pthread_cond_signal chooses in user code whom its service call wakes: if it is used, all
\* signallers hold one mutex, the one the waiters use, and no waiter leaves on its own.
CondGuarded ==
  (\E t \in Threads : "condsignal" \in program[t]) =>
    \A t \in CondUsers :
      /\ "locked" \in program[t]
      /\ CondWaits(t) => program[t] \cap {"signal", "condtimedwait"} = {}
      /\ \A u \in CondUsers : \A m \in Mutexes \cap program[t], n \in Mutexes \cap program[u] : m = n

\* In pthread_mutex_lock: a thread sleeps on the mutex without time limit, and is awake for a
\* signal or because it was handed the mutex.
InLockInv(t) ==
  call[t].op = "lock" =>
    /\ t \notin active => blockObject[t] = call[t].on /\ t \notin wake
    /\ t \in active /\ unblockType[t] # "SIGNAL" => owner[call[t].on] = t

\* Between the two steps of pthread_cond_signal the chosen thread waits on.
TargetInv(t) ==
  call[t].op = "condsignal" =>
    call[t].on \notin active /\ call[call[t].on].op = "relock" /\ holds[t] # {}

HeldInv(t) == \A m \in holds[t] : owner[m] = t

FreeInv(t) ==
  t \notin active /\ blockObject[t] \in Mutexes /\ owner[blockObject[t]] = NoThread =>
    "signal" \in program[t]

LockersInv == \A t \in Threads : InLockInv(t) /\ TargetInv(t) /\ HeldInv(t) /\ FreeInv(t)

\* A mutex is taken from its owner by the owner's own steps only, and is freed only if nobody
\* else is blocked on it.
LEMMA OwnerStep ==
  ASSUME SyncTypeOK, NEW t \in Threads, Acts(t), NEW m \in Mutexes
  PROVE  /\ owner[m] \in Threads \ {t} => owner'[m] = owner[m]
         /\ owner'[m] = NoThread => owner[m] = NoThread \/ BlockedOn(m, t) = {}
<1>1. ASSUME NEW n \in Mutexes, Took(t, n)
      PROVE  owner'[m] = owner[m] \/ (owner[m] = NoThread /\ owner'[m] = t)
  BY <1>1 DEF Took
<1>2. ASSUME NEW n \in Mutexes, owner[n] = t, Gave(t, n)
      PROVE  owner'[m] = owner[m] \/ (owner[m] = t /\ (owner'[m] = NoThread => BlockedOn(m, t) = {}))
  <2>1. owner'[n] \in BlockedOn(n, t) => owner'[n] # NoThread
    BY ConstantFacts DEF BlockedOn
  <2> QED BY <1>2, <2>1 DEF Gave
<1>3. CASE UNCHANGED owner
  BY <1>3
<1>4. CASE MutexActs(t)
  BY <1>1, <1>2, <1>3, <1>4, ConstantFacts
     DEF MutexActs, Tried, Unlocked, Looped, Returned, Chose, Waited
<1>5. CASE Other(t)
  BY <1>3, <1>5 DEF Other
<1> QED BY <1>4, <1>5 DEF Acts

\* The threads that a step does not belong to keep what they own.
Keeps(u) ==
  /\ \A m \in Mutexes : owner[m] = u => owner'[m] = u
  /\ u \notin active => \A m \in Mutexes :
       blockObject[u] = m /\ owner'[m] = NoThread => owner[m] = NoThread

LEMMA KeepsStep ==
  ASSUME SyncTypeOK, [SyncNext]_allVars
  PROVE  \/ \A u \in Threads : Passive(u) /\ Keeps(u)
         \/ \E t \in Threads : Acts(t) /\ \A u \in Threads \ {t} : Passive(u) /\ Keeps(u)
<1>1. CASE Quiet
  BY <1>1 DEF Quiet, Keeps
<1>2. ASSUME NEW t \in Threads, Acts(t) PROVE \A u \in Threads \ {t} : Passive(u) /\ Keeps(u)
  <2> SUFFICES ASSUME NEW u \in Threads \ {t} PROVE Keeps(u)
    BY <1>2 DEF Acts, Frame
  <2> QED BY <1>2, OwnerStep DEF Keeps, BlockedOn
<1> QED BY <1>1, <1>2, StepFrame

\* A thread in pthread_mutex_lock is woken by a signal or with the mutex.
LEMMA WokenInLock ==
  ASSUME SyncTypeOK, WaitInv, LockersInv, LockersApart, NEW u \in Threads, call[u].op = "lock",
         NEW type \in UnblockTypes, Reason(u, type)
  PROVE  type = "SIGNAL" \/ owner'[call[u].on] = u
<1>1. /\ call[u].on \in Mutexes \cap program[u]
      /\ \A t \in Threads : call[t].op = "sempost" => SemWaits(call[t].on)
  BY DEF SyncTypeOK, CallTypeOK, CallFits, LockCalls
<1>2. program[u] \cap {"semwait", "semtimedwait", "expired", "sigevent"} = {}
  BY <1>1 DEF LockersApart
<1>3. InLockInv(u) /\ FlagInv(u)
  BY DEF LockersInv, WaitInv
<1>4. type # "SLEEP"
  BY <1>3 DEF Reason, InLockInv
<1>5. type = "MUTEX" => owner'[call[u].on] = u
  BY <1>3 DEF Reason, InLockInv
<1>6. type # "COND"
  <2>1. u \notin active => blockObject[u] \notin Conds
    BY <1>1, <1>3, ObjectKinds DEF InLockInv
  <2>2. \A t \in Threads : ~WakesChosen(t, "condsignal", u)
    BY SMT DEF WakesChosen, LockersInv, TargetInv
  <2> QED BY <2>1, <2>2 DEF Reason
<1>7. type # "SEMAPHORE"
  <2>1. ~SemWaits(u)
    BY <1>2 DEF SemWaits
  <2> QED BY <1>1, <2>1, SMT DEF Reason, WakesChosen
<1>8. type # "AIO"
  BY <1>2, <1>3 DEF Reason, FlagInv
<1> QED BY <1>4, <1>5, <1>6, <1>7, <1>8 DEF Reason

\* Two threads that signal or broadcast hold one mutex, so they are one.
LEMMA OneSignaller ==
  ASSUME SyncTypeOK, LockersInv, CondGuarded, NEW t \in CondUsers, NEW u \in CondUsers,
         "condsignal" \in program[u], holds[t] # {}, holds[u] # {}
  PROVE  t = u
<1>1. PICK m \in holds[t] : TRUE
  OBVIOUS
<1>2. PICK n \in holds[u] : TRUE
  OBVIOUS
<1>3. t \in Threads /\ u \in Threads
  BY DEF CondUsers
<1>4. m \in Mutexes \cap program[t] /\ n \in Mutexes \cap program[u]
  BY <1>3 DEF SyncTypeOK, MutexTypeOK
<1>5. m = n
  BY <1>3, <1>4 DEF CondGuarded
<1>6. owner[m] = t /\ owner[n] = u
  BY <1>3 DEF LockersInv, HeldInv
<1> QED BY <1>5, <1>6

\* While u is between the steps of pthread_cond_signal no step but its own wakes its target.
LEMMA TargetSleeps ==
  ASSUME SyncTypeOK, WaitInv, LockersInv, LockersApart, CondGuarded,
         NEW u \in Threads, call[u].op = "condsignal", call'[u] = call[u],
         NEW type \in UnblockTypes, Reason(call[u].on, type)
  PROVE  FALSE
<1> DEFINE w == call[u].on
<1>1. /\ w \in Threads /\ "condsignal" \in program[u] /\ u \in CondUsers
      /\ \A t \in Threads : call[t].op = "sempost" => SemWaits(call[t].on)
      /\ \A t \in Threads : call[t].op = "condsignal" => t \in CondUsers
  BY DEF SyncTypeOK, CallTypeOK, CallFits, CondUsers
<1>2. w \notin active /\ call[w].op = "relock" /\ holds[u] # {}
  BY DEF LockersInv, TargetInv
<1>3. call[w].on \in Mutexes \cap program[w] /\ CondWaits(w)
  BY <1>1, <1>2 DEF SyncTypeOK, CallTypeOK, CallFits
<1>4. program[w] \cap {"semwait", "semtimedwait", "expired", "sigevent"} = {}
  BY <1>1, <1>3 DEF LockersApart
<1>5. blockObject[w] \in Conds /\ (w \in wake => "condtimedwait" \in program[w])
  BY <1>1, <1>2 DEF WaitInv, CondBlockInv
<1>6. blockObject[w] \in program[w]
  BY <1>1, <1>5, ObjectKinds DEF SyncTypeOK, TableTypeOK, BlockObjects
<1>7. program[w] \cap {"signal", "condtimedwait"} = {}
  BY <1>1, <1>3, <1>5, <1>6, SMTT(30) DEF CondGuarded, CondUsers
<1>8. type # "SLEEP" /\ type # "SIGNAL"
  BY <1>4, <1>5, <1>7 DEF Reason
<1>9. type # "MUTEX"
  BY <1>5, ObjectKinds DEF Reason
<1>10. type # "SEMAPHORE"
  <2>1. ~SemWaits(w)
    BY <1>4 DEF SemWaits
  <2> QED BY <1>1, <2>1, SMTT(30) DEF Reason, WakesChosen
<1>11. type # "AIO"
  BY <1>1, <1>2, <1>4 DEF Reason, WaitInv, FlagInv
<1>12. ASSUME NEW t \in Threads, Broadcasts(t, w) PROVE FALSE
  <2>1. t \in CondUsers
    BY <1>5, <1>12 DEF Broadcasts, CondUsers
  <2>2. holds[t] # {}
    BY <1>1, <1>12, <2>1 DEF Broadcasts, CondGuarded
  <2>3. t = u
    BY <1>1, <1>2, <2>1, <2>2, OneSignaller
  <2> QED BY <1>12, <2>3, SMT DEF Broadcasts, Idle
<1>13. ASSUME NEW t \in Threads, WakesChosen(t, "condsignal", w) PROVE FALSE
  <2>1. call[t].op = "condsignal" /\ call'[t] = Idle
    BY <1>13, SMT DEF WakesChosen
  <2>2. t \in CondUsers /\ holds[t] # {}
    BY <1>1, <2>1 DEF LockersInv, TargetInv
  <2>3. t = u
    BY <1>1, <1>2, <2>2, OneSignaller
  <2> QED BY <2>1, <2>3, SMT DEF Idle
<1>14. exec \subseteq Threads
  BY DEF SyncTypeOK, TableTypeOK, KernelTypeOK
<1> QED BY <1>8, <1>9, <1>10, <1>11, <1>12, <1>13, <1>14 DEF Reason

LEMMA PassiveLockers ==
  ASSUME SyncTypeOK, WaitInv, LockersInv, LockersApart, CondGuarded, UNCHANGED fixed,
         NEW u \in Threads, Passive(u), Keeps(u), \A v \in Threads \ active : Passive(v)
  PROVE  (InLockInv(u) /\ TargetInv(u) /\ HeldInv(u) /\ FreeInv(u))'
<1>1. program'[u] = program[u] /\ call'[u] = call[u] /\ holds'[u] = holds[u] /\ Left(u)
  BY DEF fixed, Passive
<1>2. InLockInv(u) /\ TargetInv(u) /\ HeldInv(u) /\ FreeInv(u)
  BY DEF LockersInv
<1>3. InLockInv(u)'
  <2> SUFFICES ASSUME call[u].op = "lock" PROVE InLockInv(u)'
    BY <1>1 DEF InLockInv
  <2>1. call[u].on \in Mutexes
    BY DEF SyncTypeOK, CallTypeOK, CallFits, LockCalls
  <2>2. CASE Untouched(u)
    BY <1>1, <1>2, <2>1, <2>2 DEF InLockInv, Untouched, Keeps
  <2>3. ASSUME NEW type \in UnblockTypes, Woken(u, type), Reason(u, type) PROVE InLockInv(u)'
    BY <1>1, <2>3, WokenInLock DEF InLockInv, Woken
  <2> QED BY <1>1, <2>2, <2>3 DEF Left
<1>4. TargetInv(u)'
  <2> SUFFICES ASSUME call[u].op = "condsignal" PROVE TargetInv(u)'
    BY <1>1 DEF TargetInv
  <2> DEFINE w == call[u].on
  <2>1. w \in Threads /\ w \notin active /\ call[w].op = "relock" /\ holds[u] # {}
    BY <1>2 DEF TargetInv, SyncTypeOK, CallTypeOK, CallFits
  <2>2. Passive(w)
    BY <2>1
  <2>3. call'[w] = call[w] /\ Untouched(w)
    BY <1>1, <2>2, TargetSleeps DEF Passive, Left
  <2>4. call'[u].on = w /\ w \notin active'
    BY <1>1, <2>1, <2>3 DEF Untouched
  <2> QED BY <1>1, <2>1, <2>3, <2>4 DEF TargetInv
<1>5. HeldInv(u)'
  BY <1>1, <1>2 DEF HeldInv, Keeps, SyncTypeOK, MutexTypeOK
<1>6. FreeInv(u)'
  BY <1>1, <1>2 DEF FreeInv, Left, Untouched, Woken, Keeps
<1> QED BY <1>3, <1>4, <1>5, <1>6

LEMMA ActingLockers ==
  ASSUME SyncTypeOK, WaitInv, LockersInv, LockersApart, CondGuarded, NEW t \in Threads, Acts(t)
  PROVE  (InLockInv(t) /\ TargetInv(t) /\ HeldInv(t) /\ FreeInv(t))'
<1> DEFINE Goal == (InLockInv(t) /\ TargetInv(t) /\ HeldInv(t) /\ FreeInv(t))'
<1>1. /\ program'[t] = program[t] /\ t \in active
      /\ holds[t] \subseteq Mutexes /\ \A n \in holds[t] : owner[n] = t
      /\ "pause" \in program[t] => "signal" \in program[t]
  BY ScenarioFacts
     DEF Acts, Frame, fixed, SyncTypeOK, TableTypeOK, KernelTypeOK, MutexTypeOK, LockersInv, HeldInv
<1>2. ASSUME NEW m \in Mutexes, Took(t, m) PROVE Goal
  BY <1>1, <1>2, SMT DEF Took, Untouched, Idle, InLockInv, TargetInv, HeldInv, FreeInv
<1>3. ASSUME NEW m \in Mutexes, NEW op \in LockCalls, Tried(t, m, op) PROVE Goal
  <2>1. call'[t].op = op /\ call'[t].on = m /\ op # "condsignal"
    BY <1>3, SMT DEF Tried, LockCalls
  <2>2. InLockInv(t)'
    BY <1>3, <2>1 DEF Tried, Slept, InLockInv
  <2>3. FreeInv(t)'
    BY <1>1, <1>3 DEF Tried, Slept, Untouched, FreeInv
  <2> QED BY <1>1, <1>3, <2>1, <2>2, <2>3 DEF Tried, TargetInv, HeldInv
<1>4. ASSUME Looped(t) PROVE Goal
  <2>1. call[t].on \in Mutexes \cap program[t] /\ call[t].op # "condsignal"
    BY <1>4 DEF Looped, SyncTypeOK, CallTypeOK, CallFits, LockCalls
  <2>2. "signal" \in program[t]
    BY <1>4, <2>1 DEF Looped, WaitInv, SignalledInv, LockersApart
  <2>3. InLockInv(t)'
    BY <1>4 DEF Looped, Slept, InLockInv
  <2> QED BY <1>1, <1>4, <2>1, <2>2, <2>3 DEF Looped, TargetInv, HeldInv, FreeInv
<1>5. ASSUME Returned(t) PROVE Goal
  <2>1. call[t].op = "lock" => owner[call[t].on] = t
    BY <1>1, <1>5 DEF Returned, LockersInv, InLockInv
  <2> QED BY <1>1, <1>5, <2>1, SMT DEF Returned, Untouched, Idle, InLockInv, TargetInv,
             HeldInv, FreeInv
<1>6. ASSUME NEW m \in Mutexes, Unlocked(t, m) PROVE Goal
  BY <1>1, <1>6, SMT DEF Unlocked, Gave, Untouched, Idle, InLockInv, TargetInv, HeldInv, FreeInv
<1>7. ASSUME NEW c \in Conds, NEW m \in Mutexes, NEW isTimed \in BOOLEAN, Waited(t, c, m, isTimed)
      PROVE  Goal
  <2>1. call'[t].op = "relock"
    BY <1>7, SMT DEF Waited
  <2> QED BY <1>1, <1>7, <2>1, ObjectKinds DEF Waited, Gave, Slept, InLockInv, TargetInv,
             HeldInv, FreeInv
<1>8. ASSUME NEW c \in Conds \cap program[t], NEW w \in Threads, Chose(t, c, w) PROVE Goal
  <2>1. call'[t].op = "condsignal" /\ call'[t].on = w
    BY <1>8, SMT DEF Chose
  <2>2. w # t /\ blockObject[w] = c /\ w \notin active /\ w \notin active'
    BY <1>8 DEF Chose, BlockedOn, Untouched
  <2>3. call'[w] = call[w]
    BY <2>2 DEF Acts, Frame, Passive
  <2>4. t \in CondUsers /\ "condsignal" \in program[t]
    BY <1>8 DEF CondUsers, Chose
  <2>5. CondWaits(w) /\ w \in CondUsers
    BY <2>2, ObjectKinds DEF SyncTypeOK, TableTypeOK, BlockObjects, CondUsers
  <2>6. "condtimedwait" \notin program[w] /\ holds'[t] # {}
    BY <1>8, <2>4, <2>5 DEF CondGuarded, Chose
  <2>7. call[w].op = "relock"
    BY <2>2, <2>6 DEF WaitInv, CondBlockInv
  <2>8. TargetInv(t)'
    BY <2>1, <2>2, <2>3, <2>6, <2>7 DEF TargetInv
  <2> QED BY <1>1, <1>8, <2>1, <2>8 DEF Chose, Untouched, InLockInv, HeldInv, FreeInv
<1>9. ASSUME Other(t) PROVE Goal
  <2>1. call'[t].op \notin {"lock", "condsignal"}
    BY <1>9 DEF Other, LockCalls
  <2> QED BY <1>1, <1>9, <2>1, ObjectKinds DEF Other, Settled, InLockInv, TargetInv, HeldInv,
             FreeInv
<1>10. CASE MutexActs(t)
  BY <1>2, <1>3, <1>4, <1>5, <1>6, <1>7, <1>8, <1>10 DEF MutexActs
<1> QED BY <1>9, <1>10 DEF Acts

\* Programs do not change, so what they obey they obey always.
LEMMA DisciplineStep ==
  ASSUME UNCHANGED fixed
  PROVE  /\ LockersApart => LockersApart'
         /\ CondGuarded => CondGuarded'
BY DEF fixed, LockersApart, CondGuarded, CondUsers, CondWaits

LEMMA NextLockers ==
  ASSUME SyncTypeOK, WaitInv, LockersInv, LockersApart, CondGuarded, [SyncNext]_allVars
  PROVE  LockersInv' /\ LockersApart' /\ CondGuarded'
<1>1. UNCHANGED fixed
  BY SyncNextType
<1>2. ASSUME \A u \in Threads : Passive(u) /\ Keeps(u) PROVE LockersInv'
  <2>1. \A v \in Threads \ active : Passive(v)
    BY <1>2
  <2>2. ASSUME NEW u \in Threads PROVE (InLockInv(u) /\ TargetInv(u) /\ HeldInv(u) /\ FreeInv(u))'
    BY <1>1, <1>2, <2>1, PassiveLockers
  <2> QED BY <2>2 DEF LockersInv
<1>3. ASSUME NEW t \in Threads, Acts(t), \A u \in Threads \ {t} : Passive(u) /\ Keeps(u)
      PROVE  LockersInv'
  <2>1. t \in active
    BY <1>3 DEF Acts, SyncTypeOK, TableTypeOK, KernelTypeOK
  <2>2. \A v \in Threads \ active : Passive(v)
    BY <1>3, <2>1
  <2>3. ASSUME NEW u \in Threads PROVE (InLockInv(u) /\ TargetInv(u) /\ HeldInv(u) /\ FreeInv(u))'
    BY <1>1, <1>3, <2>2, PassiveLockers, ActingLockers
  <2> QED BY <2>3 DEF LockersInv
<1> QED BY <1>1, <1>2, <1>3, KeepsStep, DisciplineStep

LEMMA InitLockers == SyncInit => LockersInv
BY SMT DEF SyncInit, KernelInit, MutexInit, Idle, LockersInv, InLockInv, TargetInv, HeldInv,
   FreeInv

LEMMA LockersInvHolds ==
  SyncSpec /\ LockersApart /\ CondGuarded => [](SyncTypeOK /\ WaitInv /\ LockersInv)
<1>1. SyncTypeOK /\ WaitInv /\ (LockersInv /\ LockersApart /\ CondGuarded) /\ [SyncNext]_allVars
        => (LockersInv /\ LockersApart /\ CondGuarded)'
  BY NextLockers
<1> QED BY <1>1, InitLockers, WaitInvHolds, PTL DEF SyncSpec

\* Mutual exclusion, also for mutexes that threads give up and get back in pthread_cond_wait,
\* with any number of conditions, semaphores and requests beside them.
THEOREM MutualExclusionInSync == SyncSpec /\ LockersApart /\ CondGuarded => []MutualExclusion
<1>1. LockersInv => MutualExclusion
  BY DEF LockersInv, HeldInv, MutualExclusion
<1> QED BY <1>1, LockersInvHolds, PTL

\* No lost hand-over: a thread that gets no signals never sleeps on a free mutex, whether the
\* mutex was freed by pthread_mutex_unlock or inside pthread_cond_wait.
THEOREM NoLostHandOverInSync == SyncSpec /\ LockersApart /\ CondGuarded => []FreeMutexNotWaitedFor
<1>1. LockersInv => FreeMutexNotWaitedFor
  BY DEF LockersInv, FreeInv, FreeMutexNotWaitedFor
<1> QED BY <1>1, LockersInvHolds, PTL

\* The thread that pthread_cond_signal has chosen in user code still waits for a condition
\* when the service call wakes it, if signallers hold the mutex of the waiters.
THEOREM SignalTargetWaitsHolds == SyncSpec /\ LockersApart /\ CondGuarded => []SignalTargetWaits
<1>1. SyncTypeOK /\ WaitInv /\ LockersInv => SignalTargetWaits
  <2> SUFFICES ASSUME SyncTypeOK, WaitInv, LockersInv, NEW t \in Threads, call[t].op = "condsignal"
               PROVE  call[t].on \notin active /\ blockObject[call[t].on] \in Conds
                        /\ call[call[t].on].op = "relock"
    BY DEF SignalTargetWaits
  <2>1. call[t].on \in Threads
    BY DEF SyncTypeOK, CallTypeOK, CallFits
  <2> QED BY <2>1 DEF LockersInv, TargetInv, WaitInv, CondBlockInv
<1> QED BY <1>1, LockersInvHolds, PTL

-----------------------------------------------------------------------------
(* Owners know that they are                                               *)

\* No thread is on the list of a mutex that it does not wait for: pthread_mutex_trylock blocks
\* if the last activation of the thread was a signal, and pause sleeps with the block object
\* that a pthread_mutex_timedlock whose limit had passed has left.
NoStrayWaiters ==
  \A t \in Threads : /\ "trylock" \in program[t] => "signal" \notin program[t]
                     /\ "timedlock" \in program[t] => "pause" \notin program[t]

MutexBlockInv(t) ==
  /\ call[t].op \in {"trylock", "timedlock"} => call[t].op \in program[t]
  /\ blockObject[t] \in Mutexes =>
       IF t \in active THEN "timedlock" \in program[t]
       ELSE call[t].op \in {"lock", "timedlock"} /\ call[t].on = blockObject[t]

\* t is in the lock call that will tell it that m is its own.
IsHanded(t, m) ==
  /\ call[t].on = m /\ call[t].op \in {"lock", "timedlock"}
  /\ t \in active /\ unblockType[t] \in {"MUTEX", "SIGNAL"}

OwnInv(t) == \A m \in Mutexes : owner[m] = t => m \in holds[t] \/ IsHanded(t, m)

KnowInv == \A t \in Threads : MutexBlockInv(t) /\ OwnInv(t)

\* A thread that was handed a mutex can only be woken by a signal.
LEMMA HandedStays ==
  ASSUME SyncTypeOK, WaitInv, LockersInv, LockersApart, NEW u \in Threads, NEW m \in Mutexes,
         IsHanded(u, m), NEW type \in UnblockTypes, Reason(u, type)
  PROVE  type = "SIGNAL"
<1>1. /\ u \in active /\ call[u].op \notin {"relock", "aiosuspend"}
      /\ call[u].on \in Mutexes \cap program[u]
      /\ \A t \in Threads : call[t].op = "sempost" => SemWaits(call[t].on)
  BY DEF IsHanded, SyncTypeOK, CallTypeOK, CallFits, LockCalls
<1>2. program[u] \cap {"semwait", "semtimedwait", "expired", "sigevent"} = {}
  BY <1>1 DEF LockersApart
<1>3. type \notin {"SLEEP", "MUTEX"}
  BY <1>1 DEF Reason
<1>4. type # "COND"
  <2>1. \A t \in Threads : ~WakesChosen(t, "condsignal", u)
    BY <1>1, SMT DEF WakesChosen, LockersInv, TargetInv
  <2> QED BY <1>1, <2>1 DEF Reason
<1>5. type # "SEMAPHORE"
  <2>1. ~SemWaits(u)
    BY <1>2 DEF SemWaits
  <2> QED BY <1>1, <2>1, SMT DEF Reason, WakesChosen
<1>6. type # "AIO"
  BY <1>1, <1>2 DEF Reason, WaitInv, FlagInv
<1> QED BY <1>3, <1>4, <1>5, <1>6 DEF Reason

\* A thread gets a mutex from another by a hand-over that wakes it.
Receives(u) ==
  \A m \in Mutexes : owner'[m] = u /\ owner[m] # u =>
    u \notin active /\ blockObject[u] = m /\ Woken(u, "MUTEX")

LEMMA ReceivesStep ==
  ASSUME SyncTypeOK, NEW t \in Threads, Acts(t), NEW u \in Threads \ {t}
  PROVE  Receives(u)
<1>1. ASSUME NEW n \in Mutexes, Took(t, n) PROVE Receives(u)
  BY <1>1 DEF Took, Receives
<1>2. ASSUME NEW n \in Mutexes, Gave(t, n) PROVE Receives(u)
  <2>1. u # NoThread
    BY ConstantFacts
  <2> QED BY <1>2, <2>1 DEF Gave, Receives, BlockedOn
<1>3. CASE UNCHANGED owner
  BY <1>3 DEF Receives
<1>4. CASE MutexActs(t)
  BY <1>1, <1>2, <1>3, <1>4 DEF MutexActs, Tried, Unlocked, Looped, Returned, Chose, Waited
<1>5. CASE Other(t)
  BY <1>3, <1>5 DEF Other
<1> QED BY <1>4, <1>5 DEF Acts

LEMMA PassiveKnow ==
  ASSUME SyncTypeOK, WaitInv, LockersInv, KnowInv, LockersApart, UNCHANGED fixed,
         NEW u \in Threads, Passive(u), Receives(u)
  PROVE  (MutexBlockInv(u) /\ OwnInv(u))'
<1>1. program'[u] = program[u] /\ call'[u] = call[u] /\ holds'[u] = holds[u] /\ Left(u)
  BY DEF fixed, Passive
<1>2. MutexBlockInv(u) /\ OwnInv(u)
  BY DEF KnowInv
<1>3. MutexBlockInv(u)'
  BY <1>1, <1>2, ObjectKinds DEF MutexBlockInv, Left, Untouched, Woken
<1>4. ASSUME NEW m \in Mutexes, owner'[m] = u PROVE m \in holds'[u] \/ IsHanded(u, m)'
  <2>1. CASE owner[m] # u
    <3>1. u \notin active /\ blockObject[u] = m /\ Woken(u, "MUTEX")
      BY <1>4, <2>1 DEF Receives
    <3> QED BY <1>1, <1>2, <3>1 DEF MutexBlockInv, IsHanded, Woken
  <2>2. CASE m \in holds[u]
    BY <1>1, <2>2
  <2>3. CASE IsHanded(u, m)
    <3>1. CASE Untouched(u)
      BY <1>1, <2>3, <3>1 DEF IsHanded, Untouched
    <3>2. ASSUME NEW type \in UnblockTypes, Woken(u, type), Reason(u, type) PROVE IsHanded(u, m)'
      BY <1>1, <2>3, <3>2, HandedStays DEF IsHanded, Woken
    <3> QED BY <1>1, <3>1, <3>2 DEF Left
  <2> QED BY <1>2, <2>1, <2>2, <2>3 DEF OwnInv
<1> QED BY <1>3, <1>4 DEF OwnInv

LEMMA ActingKnow ==
  ASSUME SyncTypeOK, WaitInv, KnowInv, LockersApart, NoStrayWaiters, NEW t \in Threads, Acts(t)
  PROVE  (MutexBlockInv(t) /\ OwnInv(t))'
<1> DEFINE Goal == (MutexBlockInv(t) /\ OwnInv(t))'
<1>1. program'[t] = program[t] /\ t \in active /\ MutexBlockInv(t) /\ OwnInv(t)
  BY DEF Acts, Frame, fixed, SyncTypeOK, TableTypeOK, KernelTypeOK, KnowInv
<1>2. ASSUME call[t].op \notin {"lock", "timedlock"} PROVE \A n \in Mutexes : owner[n] = t => n \in holds[t]
  BY <1>1, <1>2 DEF OwnInv, IsHanded
<1>3. ASSUME NEW m \in Mutexes, NEW op, Begins(t, m, op) PROVE call[t].op \notin {"lock", "timedlock"}
  BY <1>3, SMT DEF Begins, Idle
<1>4. ASSUME NEW m \in Mutexes, NEW op \in LockCalls, Begins(t, m, op), Took(t, m) PROVE Goal
  BY <1>1, <1>2, <1>3, <1>4, SMT DEF Took, Untouched, Idle, MutexBlockInv, OwnInv
<1>5. ASSUME NEW m \in Mutexes, NEW op \in LockCalls, Begins(t, m, op), Tried(t, m, op) PROVE Goal
  <2>1. call'[t].op = op /\ call'[t].on = m
    BY <1>5, SMT DEF Tried
  <2>2. op \in {"trylock", "timedlock"} => op \in program[t]
    BY <1>5 DEF Begins
  <2>3. OwnInv(t)'
    BY <1>2, <1>3, <1>5 DEF Tried, OwnInv
  <2>4. CASE op = "trylock"
    BY <1>1, <1>5, <2>1, <2>2, <2>3, <2>4 DEF Tried, Untouched, MutexBlockInv
  <2>5. CASE op \in {"lock", "timedlock"}
    BY <1>1, <1>5, <2>1, <2>2, <2>3, <2>5 DEF Tried, Slept, MutexBlockInv
  <2> QED BY <2>4, <2>5 DEF LockCalls
<1>6. ASSUME Looped(t) PROVE Goal
  <2>1. call[t].on \in Mutexes \cap program[t] /\ call[t].op \in LockCalls
    BY <1>6 DEF Looped, SyncTypeOK, CallTypeOK, CallFits
  <2>2. "signal" \in program[t]
    BY <1>6, <2>1 DEF Looped, WaitInv, SignalledInv, LockersApart
  <2>3. call[t].op \in {"lock", "timedlock"}
    BY <1>1, <2>1, <2>2 DEF MutexBlockInv, NoStrayWaiters, LockCalls
  <2>4. MutexBlockInv(t)'
    BY <1>1, <1>6, <2>3 DEF Looped, Slept, MutexBlockInv
  <2>5. OwnInv(t)'
    BY <1>1, <1>6, <2>3 DEF Looped, OwnInv, IsHanded
  <2> QED BY <2>4, <2>5
<1>7. ASSUME Returned(t) PROVE Goal
  <2>1. MutexBlockInv(t)'
    BY <1>1, <1>7, SMT DEF Returned, Untouched, Idle, MutexBlockInv
  <2>2. OwnInv(t)'
    BY <1>1, <1>7 DEF Returned, OwnInv, IsHanded
  <2> QED BY <2>1, <2>2
<1>8. ASSUME NEW m \in Mutexes, Gave(t, m), call[t] = Idle PROVE OwnInv(t)'
  <2>1. call[t].op \notin {"lock", "timedlock"}
    BY <1>8, SMT DEF Idle
  <2>2. owner'[m] # t
    BY <1>8, ConstantFacts DEF Gave, BlockedOn
  <2> QED BY <1>2, <1>8, <2>1, <2>2 DEF Gave, OwnInv
<1>9. ASSUME NEW m \in Mutexes, Unlocked(t, m) PROVE Goal
  <2>1. call[t].op = "none" /\ call'[t].op = "none"
    BY <1>9, SMT DEF Unlocked, Idle
  <2>2. MutexBlockInv(t)'
    BY <1>1, <1>9, <2>1, ObjectKinds DEF Unlocked, Untouched, MutexBlockInv
  <2>3. OwnInv(t)'
    BY <1>2, <1>8, <1>9, <2>1 DEF Unlocked, OwnInv
  <2> QED BY <2>2, <2>3
<1>10. ASSUME NEW c \in Conds, NEW m \in Mutexes, NEW isTimed \in BOOLEAN, Waited(t, c, m, isTimed)
       PROVE  Goal
  <2>1. call'[t].op = "relock" /\ OwnInv(t)'
    BY <1>8, <1>10, SMT DEF Waited
  <2> QED BY <1>10, <2>1, ObjectKinds DEF Waited, Slept, MutexBlockInv
<1>11. ASSUME NEW c \in Conds, NEW w \in Threads, Chose(t, c, w) PROVE Goal
  <2>1. call[t].op = "none" /\ call'[t].op = "condsignal"
    BY <1>11, SMT DEF Chose, Idle
  <2> QED BY <1>1, <1>2, <1>11, <2>1 DEF Chose, Untouched, MutexBlockInv, OwnInv
<1>12. ASSUME Other(t) PROVE Goal
  <2>1. call[t].op \notin LockCalls /\ call'[t].op \notin LockCalls
    BY <1>12 DEF Other
  <2>2. MutexBlockInv(t)'
    BY <1>1, <1>12, <2>1, ObjectKinds DEF Other, Settled, MutexBlockInv, NoStrayWaiters,
       LockCalls
  <2> QED BY <1>2, <1>12, <2>1, <2>2 DEF Other, OwnInv, LockCalls
<1>13. CASE MutexActs(t)
  BY <1>4, <1>5, <1>6, <1>7, <1>9, <1>10, <1>11, <1>13 DEF MutexActs
<1> QED BY <1>12, <1>13 DEF Acts

LEMMA NextKnow ==
  ASSUME SyncTypeOK, WaitInv, LockersInv, KnowInv, LockersApart, NoStrayWaiters, [SyncNext]_allVars
  PROVE  KnowInv'
<1>1. UNCHANGED fixed
  BY SyncNextType
<1>2. CASE Quiet
  <2>1. ASSUME NEW u \in Threads PROVE (MutexBlockInv(u) /\ OwnInv(u))'
    <3>1. Receives(u) /\ Passive(u)
      BY <1>2 DEF Quiet, Receives
    <3> QED BY <1>1, <3>1, PassiveKnow
  <2> QED BY <2>1 DEF KnowInv
<1>3. ASSUME NEW t \in Threads, Acts(t) PROVE KnowInv'
  <2>1. ASSUME NEW u \in Threads \ {t} PROVE (MutexBlockInv(u) /\ OwnInv(u))'
    <3>1. Receives(u) /\ Passive(u)
      BY <1>3, ReceivesStep DEF Acts, Frame
    <3> QED BY <1>1, <3>1, PassiveKnow
  <2>2. (MutexBlockInv(t) /\ OwnInv(t))'
    BY <1>3, ActingKnow
  <2> QED BY <2>1, <2>2 DEF KnowInv
<1> QED BY <1>2, <1>3, StepFrame

\* The owner of a mutex knows it, or is awake in the lock call that will tell it: no hand-over,
\* time out, signal or wait for a condition leaves a mutex with a thread that never unlocks it.
THEOREM OwnerKnowsHolds ==
  SyncSpec /\ LockersApart /\ CondGuarded /\ NoStrayWaiters => []OwnerKnows
<1> DEFINE Inv == LockersInv /\ KnowInv /\ LockersApart /\ CondGuarded /\ NoStrayWaiters
<1>1. SyncInit => KnowInv
  BY ConstantFacts, ObjectKinds, SMT DEF SyncInit, KernelInit, MutexInit, Idle, KnowInv,
     MutexBlockInv, OwnInv

<1>2. SyncTypeOK /\ WaitInv /\ Inv /\ [SyncNext]_allVars => Inv'
  <2>1. SyncTypeOK /\ NoStrayWaiters /\ [SyncNext]_allVars => NoStrayWaiters'
    BY SyncNextType DEF NoStrayWaiters, fixed
  <2> QED BY <2>1, NextLockers, NextKnow
<1>3. SyncTypeOK /\ KnowInv => OwnerKnows
  BY SMT DEF KnowInv, OwnInv, IsHanded, OwnerKnows, SyncTypeOK, MutexTypeOK
<1> QED BY <1>1, <1>2, <1>3, InitLockers, WaitInvHolds, PTL DEF SyncSpec

-----------------------------------------------------------------------------
(* The mutexes as the program sees them                                    *)

\* A step tells at most one thread that it has a mutex, which is free or was handed over to it.
LEMMA TellsStep ==
  ASSUME SyncTypeOK, LockersInv, [SyncNext]_allVars
  PROVE  TellsOne
<1>1. CASE Quiet
  BY <1>1 DEF Quiet, Passive, TellsOne
<1>2. ASSUME NEW t \in Threads, Acts(t) PROVE TellsOne
  <2>1. \A u \in Threads \ {t} : holds'[u] = holds[u]
    BY <1>2 DEF Acts, Frame, Passive
  <2>2. ASSUME holds'[t] = holds[t] PROVE TellsOne
    BY <2>1, <2>2 DEF TellsOne
  <2>3. ASSUME NEW m \in Mutexes, IsTold(t, m) \/ GivesUp(t, m) PROVE TellsOne
    BY <2>1, <2>3 DEF TellsOne
  <2>4. ASSUME NEW m \in Mutexes, Took(t, m) PROVE IsTold(t, m)
    BY <2>4 DEF Took, IsTold
  <2>5. ASSUME NEW m \in Mutexes, owner[m] = t, Gave(t, m) PROVE GivesUp(t, m)
    BY <2>5 DEF Gave, GivesUp
  <2>6. CASE Returned(t)
    <3>1. call[t].on \in Mutexes /\ t \in active
      BY <1>2, <2>6
         DEF Acts, Returned, SyncTypeOK, CallTypeOK, CallFits, TableTypeOK, KernelTypeOK
    <3>2. call[t].op = "lock" => owner[call[t].on] = t
      BY <2>6, <3>1 DEF Returned, LockersInv, InLockInv
    <3> QED BY <2>2, <2>3, <2>6, <3>1, <3>2 DEF Returned, IsTold
  <2>7. CASE MutexActs(t)
    BY <2>2, <2>3, <2>4, <2>5, <2>6, <2>7 DEF MutexActs, Tried, Looped, Unlocked, Chose, Waited
  <2>8. CASE Other(t)
    BY <2>2, <2>8 DEF Other
  <2> QED BY <1>2, <2>7, <2>8 DEF Acts
<1> QED BY <1>1, <1>2, StepFrame

\* To the program the mutexes are atomic locks, also where pthread_cond_wait gives one up and
\* takes it back: the calls of pthread_mutex.c and pthread_cond.c implement AbstractLock.
THEOREM MutexesAreLocksInSync == SyncSpec /\ LockersApart /\ CondGuarded => ImplementsLock
<1>1. SyncInit => Promise!Init
  BY DEF SyncInit, MutexInit, Promise!Init, Holder
<1>2. SyncTypeOK /\ LockersInv /\ LockersInv' /\ [SyncNext]_allVars
        => [Promise!Next]_([m \in Mutexes |-> Holder(m)])
  <2>1. LockersInv => MutualExclusion
    BY DEF LockersInv, HeldInv, MutualExclusion
  <2>2. LockersInv' => MutualExclusion'
    BY <2>1, PTL
  <2> QED BY <2>1, <2>2, TellsStep, PromiseStep
<1> QED BY <1>1, <1>2, LockersInvHolds, PTL DEF SyncSpec, ImplementsLock, Promise!Spec

-----------------------------------------------------------------------------
(* Waiting for asynchronous I/O                                            *)

\* Threads that wait for requests have requests of their own, give no time limits that have
\* passed, and are not woken by a sem_post or a pthread_cond_signal that chose them in an
\* earlier wait.
AioApart ==
  \A t \in Threads : program[t] \cap {"listio", "aiosuspend"} # {} =>
    /\ program[t] \cap {"semwait", "semtimedwait", "condwait", "condtimedwait", "expired"} = {}
    /\ \A u \in Threads \ {t} : program[t] \cap program[u] \cap Requests = {}

AioInv(t) ==
  call[t].op = "aiosuspend" =>
    /\ t \notin active => t \in suspended /\ blockObject[t] = Args(t) /\ ~Finished(t, driver)
    /\ t \in active /\ unblockType[t] \notin {"SLEEP", "SIGNAL"} => Finished(t, driver)

\* Who waits for requests is woken by the timer, a signal or their end.
LEMMA AioReason ==
  ASSUME SyncTypeOK, WaitInv, AioApart, NEW u \in Threads, AioInv(u), call[u].op = "aiosuspend",
         NEW type \in UnblockTypes, Reason(u, type)
  PROVE  type \in {"SLEEP", "SIGNAL"} \/ (type = "AIO" /\ Finished(u, driver)')
<1>1. program[u] \cap {"listio", "aiosuspend"} # {}
  BY DEF SyncTypeOK, CallTypeOK, CallFits
<1>2. program[u] \cap {"semwait", "semtimedwait", "condwait", "condtimedwait", "expired"} = {}
  BY <1>1 DEF AioApart
<1>3. ~CondWaits(u) /\ ~SemWaits(u)
  BY <1>2 DEF CondWaits, SemWaits
<1>4. \A t \in Threads : /\ call[t].op = "sempost" => SemWaits(call[t].on)
                         /\ call[t].op = "condsignal" => CondWaits(call[t].on)
  BY DEF SyncTypeOK, CallTypeOK, CallFits
<1>5. type # "MUTEX"
  BY ObjectKinds DEF Reason, AioInv
<1>6. type # "COND"
  BY <1>3, <1>4, ObjectKinds, SMTT(30) DEF Reason, WakesChosen, AioInv
<1>7. type # "SEMAPHORE"
  BY <1>3, <1>4, SMT DEF Reason, WakesChosen
<1> QED BY <1>5, <1>6, <1>7 DEF Reason

LEMMA PassiveAio ==
  ASSUME SyncTypeOK, WaitInv, AioApart, UNCHANGED fixed, NEW u \in Threads, Passive(u), AioInv(u)
  PROVE  AioInv(u)'
<1>1. /\ call'[u] = call[u] /\ list'[u] = list[u] /\ (u \in onAll' <=> u \in onAll)
      /\ (u \in suspended \ active' => u \in suspended') /\ Left(u) /\ Served(u)
  BY DEF Passive
<1> SUFFICES ASSUME call[u].op = "aiosuspend"
             PROVE  /\ u \notin active' => u \in suspended' /\ blockObject'[u] = Args(u) /\ ~Finished(u, driver)'
                    /\ u \in active' /\ unblockType'[u] \notin {"SLEEP", "SIGNAL"} => Finished(u, driver)'
  BY <1>1 DEF AioInv
<1>2. program[u] \cap {"listio", "aiosuspend"} # {}
  BY DEF SyncTypeOK, CallTypeOK, CallFits
<1>3. \A v \in Threads \ {u} : program[u] \cap program[v] \cap Requests = {}
  BY <1>2 DEF AioApart
<1>4. /\ list[u] \cap driver' \subseteq driver
      /\ u \in suspended \ active' /\ ~Finished(u, driver) => ~Finished(u, driver)'
  BY <1>1, <1>3 DEF Served
<1>5. Finished(u, driver) => Finished(u, driver)'
  BY <1>1, <1>4 DEF Finished
<1>6. CASE Untouched(u)
  BY <1>1, <1>4, <1>5, <1>6 DEF AioInv, Untouched
<1>7. ASSUME NEW type \in UnblockTypes, Woken(u, type), Reason(u, type)
      PROVE  u \in active' /\ (unblockType'[u] \notin {"SLEEP", "SIGNAL"} => Finished(u, driver)')
  BY <1>7, AioReason DEF Woken
<1> QED BY <1>1, <1>6, <1>7 DEF Left

LEMMA ActingAio ==
  ASSUME SyncTypeOK, AioApart, NEW t \in Threads, Acts(t)
  PROVE  AioInv(t)'
<1>1. CASE call'[t].op # "aiosuspend"
  BY <1>1 DEF AioInv
<1>2. CASE MutexActs(t)
  <2>1. ASSUME NEW m \in Mutexes, NEW op \in LockCalls, Took(t, m) \/ Tried(t, m, op)
        PROVE  call'[t].op # "aiosuspend"
    BY <2>1, SMT DEF Took, Tried, Idle, LockCalls
  <2>2. ASSUME NEW m \in Mutexes, Unlocked(t, m) PROVE call'[t].op # "aiosuspend"
    BY <2>2, SMTT(30) DEF Unlocked, Idle
  <2>3. Looped(t) \/ Returned(t) => call'[t].op # "aiosuspend"
    BY SMTT(30) DEF Looped, Returned, Idle, LockCalls
  <2>4. ASSUME NEW c \in Conds, NEW w \in Threads, Chose(t, c, w) PROVE call'[t].op # "aiosuspend"
    BY <2>4, SMT DEF Chose
  <2>5. ASSUME NEW c \in Conds, NEW m \in Mutexes, NEW isTimed \in BOOLEAN, Waited(t, c, m, isTimed)
        PROVE  call'[t].op # "aiosuspend"
    BY <2>5, SMT DEF Waited
  <2> QED BY <1>1, <1>2, <2>1, <2>2, <2>3, <2>4, <2>5 DEF MutexActs
<1>3. ASSUME Other(t), call'[t].op = "aiosuspend" PROVE AioInv(t)'
  <2>1. Suspended(t) /\ program' = program
    BY <1>3 DEF Other, Acts, Frame, fixed
  <2>2. program'[t] \cap {"listio", "aiosuspend"} # {}
    BY <1>3 DEF Acts, Frame, SyncTypeOK, CallTypeOK, CallFits
  <2>3. "expired" \notin program[t]
    BY <2>1, <2>2 DEF AioApart
  <2> QED BY <2>1, <2>3 DEF Suspended, AioInv
<1> QED BY <1>1, <1>2, <1>3 DEF Acts

\* A thread sleeps in aio_suspend or lio_listio only while what it waits for is not there, and
\* when the call is about to return 0 it is: a request that ends before, while or after the
\* thread falls asleep is not missed, and no other service wakes it.
THEOREM AioSuspendedHolds == SyncSpec /\ AioApart => []AioSuspended
<1> DEFINE Inv == AioApart /\ \A t \in Threads : AioInv(t)
<1>1. SyncInit /\ AioApart => Inv
  BY SMT DEF SyncInit, KernelInit, Idle, AioInv
<1>2. SyncTypeOK /\ WaitInv /\ Inv /\ [SyncNext]_allVars => Inv'
  <2> SUFFICES ASSUME SyncTypeOK, WaitInv, Inv, [SyncNext]_allVars PROVE Inv'
    OBVIOUS
  <2>1. UNCHANGED fixed
    BY SyncNextType
  <2>2. AioApart'
    BY <2>1 DEF AioApart, fixed
  <2>3. ASSUME NEW u \in Threads PROVE AioInv(u)'
    <3>1. Passive(u) \/ Acts(u)
      BY StepFrame DEF Quiet, Acts, Frame
    <3> QED BY <2>1, <3>1, PassiveAio, ActingAio
  <2> QED BY <2>2, <2>3
<1>3. Inv => AioSuspended
  BY DEF AioInv, AioSuspended
<1> QED BY <1>1, <1>2, <1>3, WaitInvHolds, PTL DEF SyncSpec

=============================================================================

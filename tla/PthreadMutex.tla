---------------------------- MODULE PthreadMutex ----------------------------
(***************************************************************************)
(* sys/pthread/pthread_mutex.c.  A call is made of user code around a       *)
(* service call; the user code only looks at what the caller alone can     *)
(* change (does it own the mutex, the count of a recursive lock), so it is *)
(* one step with the service call.  What follows a service call that       *)
(* blocked is a step of its own: call says which call the thread is in.    *)
(***************************************************************************)
EXTENDS Kernel

CONSTANTS
  Mutexes,
  Recursive,  \* the mutexes with PTHREAD_MUTEX_FLAGS_RECURSIVE
  Ceiling,    \* prio_ceiling of each mutex
  MaxLocks    \* CONFIG_PTHREAD_MAX_LOCKS

ASSUME MutexAssumption ==
  /\ Recursive \subseteq Mutexes
  /\ Ceiling \in [Mutexes -> Priorities]
  /\ MaxLocks \in Nat \ {0}
  /\ NULL \notin Mutexes

VARIABLES
  owner,   \* mutex->pthread
  lock,    \* mutex->lock
  holds    \* the mutexes a thread was told it has locked and not unlocked since

mutex == <<owner, lock>>
vars == <<kernel, call, mutex, holds>>

LockCalls == {"lock", "trylock", "timedlock"}

-----------------------------------------------------------------------------
\* The caller has the mutex already: count a recursive lock, up to MaxLocks;
\* otherwise the call returns (EDEADLK, or 0 from trylock) and changes nothing.
LockAgain(t, m) ==
  /\ owner[m] = t
  /\ m \in Recursive /\ lock[m] < MaxLocks
  /\ lock' = [lock EXCEPT ![m] = @ + 1]
  /\ UNCHANGED <<kernel, owner, call, holds>>

\* svcall_mutex_trylock on a free mutex.  The current priority is raised with
\* the owner's; no context switch is pended.
TakeFree(t, m) ==
  /\ owner[m] = NoThread
  /\ owner' = [owner EXCEPT ![m] = t]
  /\ lock' = [lock EXCEPT ![m] = 1]
  /\ IF Ceiling[m] > priority[t]
     THEN priority' = [priority EXCEPT ![t] = Ceiling[m]] /\ curPrio' = Ceiling[m]
     ELSE UNCHANGED <<priority, curPrio>>
  /\ UNCHANGED <<fixed, block, exec>>

\* root_mutex_block: wait for a mutex another thread has.
MutexBlock(t, m, isTimed) ==
  /\ UNCHANGED <<fixed, priority, mutex>>
  /\ \/ Block(t, m, isTimed)
     \/ isTimed /\ BlockExpired(t, m) /\ UNCHANGED unblockType

\* mutex_trylock up to the return of its service call, for a mutex the caller
\* does not own; a call that got the mutex returns.
MutexTrylock(t, m, op) ==
  /\ owner[m] # t
  /\ \/ /\ TakeFree(t, m)
        /\ holds' = [holds EXCEPT ![t] = @ \cup {m}]
        /\ Return(t)
     \/ /\ owner[m] # NoThread
        /\ IF op = "trylock" THEN UNCHANGED <<kernel, mutex>>
                             ELSE MutexBlock(t, m, op = "timedlock")
        /\ Enter(t, op, m)
        /\ UNCHANGED holds

\* pthread_mutex_lock, _trylock and _timedlock
Lock(t, m, op) == Calls(t, op) /\ MutexTrylock(t, m, op)

\* Mutant: the call ends as if the mutex had been handed over.
MutexUnblocked_NoRetry(t, m, isTimed) ==
  /\ unblockType' = [unblockType EXCEPT ![t] = "MUTEX"]
  /\ UNCHANGED <<fixed, sched, active, blockObject, wake, priority, mutex>>

\* svcall_mutex_unblocked: after a signal, leave the loop if the mutex was
\* handed over, else block again; a time limit that has passed is a time out.
MutexUnblocked(t, m, isTimed) ==
  IF owner[m] = t
  THEN /\ unblockType' = [unblockType EXCEPT ![t] = "MUTEX"]
       /\ UNCHANGED <<fixed, sched, active, blockObject, wake, priority, mutex>>
  ELSE /\ UNCHANGED <<fixed, priority, mutex>>
       /\ \/ Block(t, m, isTimed)
          \/ /\ isTimed /\ BlockExpired(t, m)
             /\ unblockType' = [unblockType EXCEPT ![t] = "SLEEP"]

\* One round of the loop of mutex_trylock after a result of -2.
LockLoop(t) ==
  /\ InCall(t, LockCalls)
  /\ unblockType[t] = "SIGNAL"
  /\ MutexUnblocked(t, call[t].on, call[t].op = "timedlock")
  /\ UNCHANGED <<call, holds>>

\* Mutant: pthread_mutex_timedlock always reports a time out.
LockReturn_NoOwnerCheck(t) ==
  /\ InCall(t, LockCalls) /\ unblockType[t] # "SIGNAL"
  /\ holds' = IF call[t].op = "lock"
              THEN [holds EXCEPT ![t] = @ \cup {call[t].on}] ELSE holds
  /\ Return(t)
  /\ UNCHANGED <<kernel, mutex>>

\* The end of a lock call that was not served at once: pthread_mutex_lock
\* returns 0, pthread_mutex_trylock EBUSY, pthread_mutex_timedlock looks at
\* the owner.
LockReturn(t) ==
  LET m == call[t].on IN
  /\ InCall(t, LockCalls)
  /\ unblockType[t] # "SIGNAL"
  /\ holds' = IF \/ call[t].op = "lock"
                 \/ call[t].op = "timedlock" /\ owner[m] = t
              THEN [holds EXCEPT ![t] = @ \cup {m}] ELSE holds
  /\ Return(t)
  /\ UNCHANGED <<kernel, mutex>>

-----------------------------------------------------------------------------
\* Mutant: the mutex is freed even if a thread waits for it.
HandOver_Free(t, m, ws) ==
  /\ owner' = [owner EXCEPT ![m] = NoThread]
  /\ lock' = [lock EXCEPT ![m] = 0]
  /\ priority' = [priority EXCEPT ![t] = base[t]]

\* Mutant: the lock count stays what the last owner left.
HandOver_KeepsCount(t, m, ws) ==
  /\ owner' = [owner EXCEPT ![m] = IF ws = {} THEN NoThread ELSE CHOOSE w \in ws : TRUE]
  /\ priority' = [priority EXCEPT ![t] = base[t]]
  /\ UNCHANGED lock

\* The first half of pthread_mutex_root_unlock: t falls back to its base
\* priority and the mutex goes to the thread in ws, or is free if there is none.
HandOver(t, m, ws) ==
  /\ owner' = [owner EXCEPT ![m] = IF ws = {} THEN NoThread ELSE CHOOSE w \in ws : TRUE]
  /\ lock' = [lock EXCEPT ![m] = IF ws = {} THEN 0 ELSE 1]
  /\ priority' = [u \in Threads |->
                    IF u = t THEN base[t]
                    ELSE IF u \in ws /\ Ceiling[m] > priority[u] THEN Ceiling[m]
                    ELSE priority[u]]

\* pthread_mutex_root_unlock, with the block object o its caller leaves to t.
RootUnlock(t, m, o) ==
  LET ws == HighestPriorityBlocked(m, t) IN
  /\ HandOver(t, m, ws)
  /\ active' = active \cup ws
  /\ unblockType' = Put(unblockType, ws, "MUTEX")
  /\ blockObject' = [Put(blockObject, ws, NULL) EXCEPT ![t] = o]
  /\ wake' = wake \ ws
  /\ IF ws # {} THEN \E w \in ws : UpdateOnWake(priority'[w])
     ELSE IF base[t] < curPrio THEN UpdateOnStopped ELSE UNCHANGED sched
  /\ UNCHANGED fixed

\* pthread_mutex_unlock; a thread that is not the owner gets EACCES.
Unlock(t, m) ==
  /\ Calls(t, "unlock")
  /\ owner[m] = t
  /\ IF m \in Recursive /\ lock[m] > 1
     THEN lock' = [lock EXCEPT ![m] = @ - 1] /\ UNCHANGED <<kernel, owner, holds>>
     ELSE RootUnlock(t, m, NULL) /\ holds' = [holds EXCEPT ![t] = @ \ {m}]
  /\ UNCHANGED call

-----------------------------------------------------------------------------
MutexInit ==
  /\ owner = [m \in Mutexes |-> NoThread]
  /\ lock = [m \in Mutexes |-> 0]
  /\ holds = [t \in Threads |-> {}]

MutexStep(t) ==
  \/ \E m \in Mutexes \cap program[t] :
       \/ Unlock(t, m)
       \/ \E op \in LockCalls : Lock(t, m, op)
       \/ (\E op \in LockCalls : Calls(t, op)) /\ LockAgain(t, m)
  \/ LockLoop(t) \/ LockReturn(t)

Init == KernelInit /\ MutexInit
Next == (KernelStep /\ UNCHANGED <<mutex, holds>>) \/ \E t \in Threads : MutexStep(t)
Spec == Init /\ [][Next]_vars

-----------------------------------------------------------------------------
\* Types of the mutexes and of the calls in progress.
TypeOK ==
  /\ KernelTypeOK(Mutexes)
  /\ owner \in [Mutexes -> Threads \cup {NoThread}]
  /\ lock \in [Mutexes -> 0..MaxLocks]
  /\ call \in [Threads -> [op : LockCalls \cup {"none"}, on : Mutexes \cup {NULL}]]
  /\ holds \in [Threads -> SUBSET Mutexes]

\* A thread that was told it has the mutex is the one the mutex names as its
\* owner, so no two threads have it: whatever time outs, signals and hand-overs
\* came in between (pthread_mutex_lock, _timedlock, _trylock).
MutualExclusion ==
  \A t \in Threads : \A m \in holds[t] : owner[m] = t

\* The thread a mutex belongs to by what the lock and unlock calls have told the threads.
Holder(m) ==
  IF \E t \in Threads : m \in holds[t] THEN CHOOSE t \in Threads : m \in holds[t] ELSE NoThread

Promise == INSTANCE AbstractLock WITH has <- [m \in Mutexes |-> Holder(m)]

\* To the program the mutexes are atomic locks, whatever the hand-overs, signals, time outs
\* and retries inside the calls: pthread_mutex_lock, _trylock and _timedlock return 0 only
\* for a mutex that nobody has, and nobody but its holder ends that.
ImplementsLock == Promise!Spec

\* The owner of a mutex knows it: it was told, or it is still in the lock call
\* that will tell it.  Otherwise nobody would ever unlock the mutex.
OwnerKnows ==
  \A m \in Mutexes : owner[m] # NoThread =>
    LET t == owner[m] IN
    \/ m \in holds[t]
    \/ call[t].on = m /\ call[t].op \in {"lock", "timedlock"}
         /\ t \in active /\ unblockType[t] \in {"MUTEX", "SIGNAL"}

\* A thread that gets no signals never sleeps on a free mutex, whatever happens
\* to the others: an unlock hands the mutex to a waiter
\* (pthread_mutex_root_unlock) and a lock of a free mutex does not block.
FreeMutexNotWaitedFor ==
  \A m \in Mutexes, t \in Threads \ active :
    owner[m] = NoThread /\ blockObject[t] = m => "signal" \in program[t]

\* The same for every thread: "the thread is blocked until mutex is available"
\* (pthread_mutex_lock), so none is blocked while it is available.
BlockedOnlyWhileTaken ==
  \A m \in Mutexes, t \in Threads \ active :
    owner[m] = NoThread => blockObject[t] # m

\* The lock count is that of the owner: 0 exactly for a free mutex, above 1 only
\* for a recursive one.
LockCount ==
  \A m \in Mutexes :
    /\ (lock[m] = 0) <=> (owner[m] = NoThread)
    /\ lock[m] > 1 => m \in Recursive

\* While a thread holds a mutex its priority is at least the ceiling.
CeilingHeld ==
  \A m \in Mutexes : owner[m] # NoThread => priority[owner[m]] >= Ceiling[m]
=============================================================================

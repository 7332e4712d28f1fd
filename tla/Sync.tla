-------------------------------- MODULE Sync --------------------------------
(***************************************************************************)
(* Threads that use mutexes, condition variables, semaphores and           *)
(* asynchronous I/O together, over the one task table of Kernel.           *)
(***************************************************************************)
EXTENDS PthreadCond, Semaphore, Aio

\* Objects of different kinds have different addresses.
ASSUME SyncAssumption ==
  /\ Sems \cap (Mutexes \cup Conds) = {}
  /\ \A t \in Threads : Args(t) \notin Mutexes \cup Conds \cup Sems \cup {NULL}

objects == <<mutex, holds, sem>>
allVars == <<kernel, call, objects, aio>>

SyncInit == KernelInit /\ MutexInit /\ SemInit /\ AioInit

\* A step of the other services clears the flags of the threads it wakes.
ObjectStep(A) == A /\ Deassert(active' \ active)

ThreadStep(t) ==
  \/ ObjectStep((MutexStep(t) \/ CondStep(t)) /\ UNCHANGED sem)
  \/ ObjectStep(SemStep(t) /\ UNCHANGED <<mutex, holds>>)
  \/ AioStep(t) /\ UNCHANGED objects

SystemStep ==
  /\ \/ RoundEnd /\ Deassert({})
     \/ \E ws \in SUBSET Threads : TimerMatch(ws) /\ Deassert(ws)
     \/ \E t \in Threads : Signal(t) /\ Deassert({t})
     \/ \E t \in Threads : SignalWait(t) /\ Deassert({})
     \/ \E a \in Requests : Complete(a)
  /\ UNCHANGED <<call, objects>>

SyncNext == SystemStep \/ \E t \in Threads : ThreadStep(t)

SyncSpec == SyncInit /\ [][SyncNext]_allVars

\* Each thread goes on with the call it is in, since the round robin gives every
\* executing task its turn (RoundRobin of module Scheduler), and a program that
\* has locked a mutex unlocks it some time.
SyncFairness ==
  \A t \in Threads :
    /\ WF_allVars(ObjectStep((LockReturn(t) \/ LockLoop(t) \/ CondRelock(t)
                               \/ SvcallCondSignal(t)) /\ UNCHANGED sem))
    /\ SF_allVars(ObjectStep((\E m \in Mutexes : Unlock(t, m)) /\ UNCHANGED sem))

FairSyncSpec == SyncSpec /\ SyncFairness

\* A thread that waits in pthread_mutex_lock gets the mutex, if all threads have
\* one base priority, use this mutex only and get no signals: the hand-over
\* scans the table from the unlocking thread on (issue #139).
LockServed ==
  \A t \in Threads :
    (/\ \A u \in Threads : /\ base[u] = base[t] /\ "signal" \notin program[u]
                          /\ program[u] \cap Mutexes = {call[t].on}
     /\ call[t].op = "lock")
      ~> holds[t] # {}
=============================================================================

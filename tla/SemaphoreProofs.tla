-------------------------- MODULE SemaphoreProofs --------------------------
(***************************************************************************)
(* Theorems about the semaphores of Sync.  sem_post increments the value   *)
(* and looks for a thread to wake in user code, so they hold for programs  *)
(* in which a semaphore is posted by the most urgent of its users: nobody  *)
(* else touches it between the steps of a post.                            *)
(***************************************************************************)
EXTENDS SyncSteps, FiniteSetTheorems

\* Most leaves are first-order: Zenon is the default, and the leaves it does
\* not find say SMT.
USE Zenon

-----------------------------------------------------------------------------
(* Who executes                                                            *)

Posts(p, s) == "sempost" \in program[p] /\ s \in program[p]
Below(p) == {u \in Threads : base[u] < base[p]}

\* A semaphore is posted by one thread, all of its other users have lower priorities, and so
\* have the mutexes of the threads below the one that posts.
PostersOutrank ==
  \A p \in Threads, s \in Sems : Posts(p, s) =>
    /\ \A u \in Threads \ {p} : s \in program[u] => u \in Below(p)
    /\ \A u \in Below(p) : \A m \in Mutexes \cap program[u] : Ceiling[m] < base[p]

\* A priority is the base priority or, above it, the ceiling of a mutex of the program.
PriorityInv ==
  \A u \in Threads :
    /\ priority[u] >= base[u]
    /\ priority[u] = base[u] \/ \E m \in Mutexes \cap program[u] : priority[u] = Ceiling[m]

\* A thread below p executes only while p is not active.
RunInv(p) ==
  /\ p \in active => curPrio >= base[p]
  /\ exec \cap Below(p) # {} => curPrio < base[p] /\ exec \subseteq Below(p)

LEMMA PriorityStep ==
  ASSUME SyncTypeOK, PriorityInv, [SyncNext]_allVars
  PROVE  PriorityInv'
<1>1. UNCHANGED fixed /\ SyncTypeOK'
  BY SyncNextType
<1>2. /\ priority \in [Threads -> Priorities] /\ base \in [Threads -> Priorities]
      /\ Ceiling \in [Mutexes -> Priorities] /\ base' = base /\ program' = program
      /\ owner \in [Mutexes -> Threads \cup {NoThread}] /\ NoThread \notin Threads
      /\ \A m \in Mutexes : owner'[m] # NoThread => m \in program[owner'[m]]
  BY <1>1, ScenarioFacts, ConstantFacts
     DEF SyncTypeOK, TableTypeOK, KernelTypeOK, MutexTypeOK, fixed, NoThread, Threads
<1>3. CASE UNCHANGED priority
  BY <1>2, <1>3 DEF PriorityInv
<1>4. ASSUME NEW t \in Threads, NEW m \in Mutexes, TakeFree(t, m) PROVE PriorityInv'
  <2>1. m \in program[t]
    BY <1>2, <1>4 DEF TakeFree
  <2>2. \A u \in Threads : priority'[u] = IF u = t /\ Ceiling[m] > priority[t] THEN Ceiling[m] ELSE priority[u]
    BY <1>2, <1>4 DEF TakeFree
  <2>3. \A u \in Threads : priority'[u] >= base'[u]
    BY <1>2, <2>2, SMT DEF PriorityInv, Priorities
  <2> QED BY <1>2, <2>1, <2>2, <2>3 DEF PriorityInv
<1>5. ASSUME NEW t \in Threads, NEW m \in Mutexes, HandOver(t, m, HighestPriorityBlocked(m, t))
      PROVE  PriorityInv'
  <2> DEFINE ws == HighestPriorityBlocked(m, t)
  <2>1. \A u \in ws : m \in program[u]
    BY ObjectKinds DEF HighestPriorityBlocked, BlockedOn, SyncTypeOK, TableTypeOK, BlockObjects
  <2>2. \A u \in Threads : priority'[u] = IF u = t THEN base[t]
                             ELSE IF u \in ws /\ Ceiling[m] > priority[u] THEN Ceiling[m] ELSE priority[u]
    BY <1>5 DEF HandOver
  <2>3. \A u \in Threads : priority'[u] >= base'[u]
    BY <1>2, <2>2, SMT DEF PriorityInv, Priorities
  <2>4. ASSUME NEW u \in Threads
        PROVE  priority'[u] = base[u] \/ \E n \in Mutexes \cap program[u] : priority'[u] = Ceiling[n]
    BY <2>1, <2>2 DEF PriorityInv
  <2> QED BY <1>2, <2>3, <2>4 DEF PriorityInv
<1> QED BY <1>3, <1>4, <1>5, MutexChange DEF Counts

\* How a step chooses the threads that execute.
SchedChange ==
  \/ UNCHANGED sched /\ active' \subseteq active
  \/ UpdateOnStopped
  \/ \E q \in Priorities \cup {-1} :
       UpdateOnWake(q) /\ \A u \in active' \ active : base[u] <= q \/ priority'[u] <= q
  \/ RoundEnd
  \/ \E t \in exec : \E m \in Mutexes \cap program[t] : TakeFree(t, m)

LEMMA SchedStep ==
  ASSUME SyncTypeOK, [SyncNext]_allVars
  PROVE  SchedChange
<1>1. /\ priority \in [Threads -> Priorities] /\ base \in [Threads -> Priorities]
      /\ active \subseteq Threads
  BY ScenarioFacts DEF SyncTypeOK, TableTypeOK, KernelTypeOK
<1>2. ASSUME UNCHANGED kernel PROVE SchedChange
  BY <1>2 DEF kernel, block, SchedChange
<1>3. ASSUME NEW w \in Threads, NEW type, AssertActive({w}, type), UNCHANGED priority,
             UpdateOnWake(priority[w])
      PROVE  SchedChange
  <2>1. priority[w] \in Priorities \cup {-1} /\ active' \ active \subseteq {w} /\ priority'[w] <= priority[w]
    BY <1>1, <1>3, SMT DEF AssertActive, Priorities
  <2> QED BY <1>3, <2>1 DEF SchedChange
<1>4. ASSUME NEW t \in Threads, NEW a, NEW ps, NEW caller, Callback(t, a, ps, caller) PROVE SchedChange
  <2>1. PICK ws \in {{t}, {}} :
          /\ active' = active \cup ws /\ UNCHANGED priority
          /\ IF ws = {} THEN UNCHANGED sched ELSE UpdateOnWake(priority[t])
    BY <1>4 DEF Callback
  <2>2. CASE ws = {}
    BY <2>1, <2>2 DEF SchedChange
  <2>3. CASE ws = {t}
    <3>1. priority[t] \in Priorities \cup {-1} /\ active' \ active \subseteq {t} /\ priority'[t] <= priority[t]
      BY <1>1, <2>1, <2>3, SMT DEF Priorities
    <3> QED BY <2>1, <2>3, <3>1 DEF SchedChange
  <2> QED BY <2>2, <2>3
<1>5. ASSUME NEW a \in Requests, Complete(a) PROVE SchedChange
  <2>1. tid[a] \in Threads
    BY <1>5 DEF Complete, SyncTypeOK, AioTypeOK
  <2> QED BY <1>4, <1>5, <2>1 DEF Complete
<1>6. ASSUME NEW ws \in SUBSET Threads, TimerMatch(ws) PROVE SchedChange
  <2>1. PICK p \in Priorities : IsHighest(p, priority, ws) /\ UNCHANGED priority /\ UpdateOnWake(p)
    BY <1>6 DEF TimerMatch
  <2>2. \A u \in active' \ active : priority'[u] <= p
    BY <1>6, <2>1 DEF TimerMatch, AssertActive, IsHighest
  <2> QED BY <2>1, <2>2 DEF SchedChange
<1>7. CASE SystemStep
  <2>1. ASSUME NEW t \in Threads, Signal(t) PROVE SchedChange
    BY <1>3, <2>1 DEF Signal
  <2>2. ASSUME NEW t \in Threads, SignalWait(t) PROVE SchedChange
    BY <2>2 DEF SignalWait, SchedChange
  <2>3. RoundEnd => SchedChange
    BY DEF SchedChange
  <2> QED BY <1>5, <1>6, <1>7, <2>1, <2>2, <2>3 DEF SystemStep
<1>8. ASSUME NEW t, NEW o, NEW isTimed, Block(t, o, isTimed) \/ BlockExpired(t, o) PROVE SchedChange
  BY <1>8 DEF Block, BlockExpired, SchedChange
<1>9. ASSUME NEW t \in exec, NEW m \in Mutexes \cap program[t], NEW op, MutexTrylock(t, m, op) PROVE SchedChange
  <2>1. CASE TakeFree(t, m)
    BY <2>1 DEF SchedChange
  <2>2. CASE UNCHANGED <<kernel, mutex>>
    BY <1>2, <2>2
  <2>3. CASE MutexBlock(t, m, op = "timedlock")
    BY <1>8, <2>3 DEF MutexBlock
  <2> QED BY <1>9, <2>1, <2>2, <2>3 DEF MutexTrylock
<1>10. ASSUME NEW t \in Threads, NEW m \in Mutexes, NEW o, RootUnlock(t, m, o) PROVE SchedChange
  <2> DEFINE ws == HighestPriorityBlocked(m, t)
  <2>1. active' = active \cup ws /\ ws \subseteq Threads
    BY <1>10 DEF RootUnlock, HighestPriorityBlocked, BlockedOn
  <2>2. CASE ws = {}
    BY <1>10, <2>1, <2>2 DEF RootUnlock, SchedChange
  <2>3. CASE ws # {}
    <3>1. PICK w \in ws : UpdateOnWake(priority'[w])
      BY <1>10, <2>3 DEF RootUnlock
    <3>2. \A u \in ws : u = w
      BY <1>1, OneIsChosen
    <3>3. priority'[w] \in Priorities
      BY <1>1, <1>10, <2>1, ConstantFacts DEF RootUnlock, HandOver
    <3>4. \A u \in active' \ active : priority'[u] <= priority'[w]
      BY <2>1, <3>2, <3>3, SMT DEF Priorities
    <3> QED BY <3>1, <3>3, <3>4 DEF SchedChange
  <2> QED BY <2>2, <2>3
<1>11. ASSUME NEW t \in Threads, MutexStep(t) PROVE SchedChange
  <2>1. ASSUME NEW m \in Mutexes, Unlock(t, m) PROVE SchedChange
    BY <1>2, <1>10, <2>1 DEF Unlock
  <2>2. ASSUME NEW m \in Mutexes, LockAgain(t, m) PROVE SchedChange
    BY <1>2, <2>2 DEF LockAgain
  <2>3. ASSUME LockLoop(t) PROVE SchedChange
    <3>1. CASE UNCHANGED <<fixed, sched, active, blockObject, wake, priority, mutex>>
      BY <3>1 DEF SchedChange
    <3> QED BY <1>8, <2>3, <3>1 DEF LockLoop, MutexUnblocked
  <2>4. ASSUME LockReturn(t) PROVE SchedChange
    BY <1>2, <2>4 DEF LockReturn
  <2>5. ASSUME NEW m \in Mutexes \cap program[t], NEW op, Lock(t, m, op) PROVE SchedChange
    BY <1>9, <2>5 DEF Lock, Calls
  <2> QED BY <1>11, <2>1, <2>2, <2>3, <2>4, <2>5 DEF MutexStep
<1>12. ASSUME NEW t \in Threads, CondStep(t) PROVE SchedChange
  <2>1. ASSUME NEW c, NEW m \in Mutexes, NEW isTimed, CondWait(t, c, m, isTimed) PROVE SchedChange
    <3>1. UpdateOnStopped => SchedChange
      BY DEF SchedChange
    <3> QED BY <1>10, <2>1, <3>1 DEF CondWait, SvcallCondWait
  <2>2. ASSUME CondRelock(t) PROVE SchedChange
    <3>1. t \in exec /\ call[t].on \in Mutexes \cap program[t]
      BY <2>2 DEF CondRelock, InCall, SyncTypeOK, CallTypeOK, CallFits
    <3> QED BY <1>9, <2>2, <3>1 DEF CondRelock
  <2>3. ASSUME NEW c, CondSignal(t, c) PROVE SchedChange
    BY <1>2, <2>3 DEF CondSignal, ChooseWaiter
  <2>4. ASSUME NEW c, CondBroadcast(t, c) PROVE SchedChange
    <3>1. PICK p \in {-1} \cup Priorities : IsHighest(p, base, BlockedOn(c, t)) /\ UpdateOnWake(p)
      BY <2>4 DEF CondBroadcast
    <3>2. \A u \in active' \ active : base[u] <= p
      BY <2>4, <3>1 DEF CondBroadcast, AssertActive, IsHighest
    <3> QED BY <3>1, <3>2 DEF SchedChange
  <2>5. ASSUME SvcallCondSignal(t) PROVE SchedChange
    <3>1. call[t].on \in Threads
      BY <2>5 DEF SvcallCondSignal, InCall, SyncTypeOK, CallTypeOK, CallFits
    <3> QED BY <1>3, <2>5, <3>1 DEF SvcallCondSignal
  <2> QED BY <1>12, <2>1, <2>2, <2>3, <2>4, <2>5 DEF CondStep
<1>13. ASSUME NEW t \in Threads, SemStep(t) PROVE SchedChange
  <2>1. ASSUME NEW s, SvcallSemWait(t, s) PROVE SchedChange
    BY <2>1 DEF SvcallSemWait, SchedChange
  <2>2. ASSUME NEW s, SemTimedwait(t, s) PROVE SchedChange
    BY <1>2, <1>8, <2>2 DEF SemTimedwait
  <2>3. ASSUME SvcallSemPost(t) PROVE SchedChange
    <3>1. call[t].on \in Threads
      BY <2>3 DEF SvcallSemPost, InCall, SyncTypeOK, CallTypeOK, CallFits
    <3> QED BY <1>3, <2>3, <3>1 DEF SvcallSemPost
  <2> QED BY <1>2, <1>13, <2>1, <2>2, <2>3
          DEF SemStep, SemWait, SemWaitAgain, SemTrywait, SemTimedwaitReturn, SemPostLoad,
              SemPostStore, SemPostSelect
<1>14. ASSUME NEW t \in Threads, AioStep(t) PROVE SchedChange
  <2>1. ASSUME NEW a, data_transfer(t, a) PROVE SchedChange
    <3>1. CASE UNCHANGED <<fixed, sched, active, unblockType, wake, priority, waiting>>
      BY <3>1 DEF SchedChange
    <3> QED BY <1>4, <2>1, <3>1 DEF data_transfer
  <2>2. ASSUME NEW isTimed, svcall_suspend(t, isTimed) PROVE SchedChange
    BY <1>2, <1>8, <2>2 DEF svcall_suspend
  <2>3. ASSUME NEW a \in Requests, aio_read(t, a) \/ aio_cancel(t, a) PROVE SchedChange
    BY <1>5, <2>1, <2>3 DEF aio_read, aio_cancel
  <2>4. ASSUME NEW as, lio_listio(t, as) \/ aio_suspend(t, as) PROVE SchedChange
    BY <1>2, <2>2, <2>4 DEF lio_listio, aio_suspend
  <2> QED BY <1>2, <1>14, <2>1, <2>2, <2>3, <2>4 DEF AioStep, ListNext, ListSuspend,
             SuspendReturn
<1>15. UNCHANGED allVars => SchedChange
  BY <1>2 DEF allVars
<1> QED BY <1>7, <1>11, <1>12, <1>13, <1>14, <1>15 DEF SyncNext, ThreadStep, ObjectStep

\* Whatever is woken, stopped, locked or unlocked, the threads below p stay out while p is
\* active.
LEMMA RunStep ==
  ASSUME SyncTypeOK, PostersOutrank, PriorityInv, [SyncNext]_allVars,
         NEW p \in Threads, NEW s \in Sems, Posts(p, s), RunInv(p)
  PROVE  RunInv(p)'
<1>1. UNCHANGED fixed /\ SyncTypeOK' /\ PriorityInv'
  BY SyncNextType, PriorityStep
<1>2. /\ base \in [Threads -> Priorities] /\ base' = base /\ program' = program
      /\ priority \in [Threads -> Priorities] /\ priority' \in [Threads -> Priorities]
      /\ active \subseteq Threads /\ active' \subseteq Threads /\ exec \subseteq active
      /\ curPrio \in Priorities /\ curPrio' \in Priorities /\ Below(p)' = Below(p)
      /\ Ceiling \in [Mutexes -> Priorities]
  BY <1>1, ScenarioFacts, ConstantFacts DEF SyncTypeOK, TableTypeOK, KernelTypeOK, fixed, Below
<1>3. \A u \in Below(p) : \A m \in Mutexes \cap program[u] : Ceiling[m] < base[p]
  BY DEF PostersOutrank
<1>4. /\ \A u \in Below(p) : priority[u] < base[p] /\ priority'[u] < base[p]
      /\ \A u \in Threads \ Below(p) : priority[u] >= base[p] /\ priority'[u] >= base[p]
  <2>1. ASSUME NEW u \in Below(p) PROVE priority[u] < base[p] /\ priority'[u] < base[p]
    <3>1. u \in Threads /\ base[u] < base[p]
      BY DEF Below
    <3>2. /\ priority[u] = base[u] \/ \E m \in Mutexes \cap program[u] : priority[u] = Ceiling[m]
          /\ priority'[u] = base[u] \/ \E m \in Mutexes \cap program[u] : priority'[u] = Ceiling[m]
      BY <1>1, <1>2, <3>1 DEF PriorityInv
    <3> QED BY <1>3, <3>1, <3>2
  <2>2. ASSUME NEW u \in Threads \ Below(p) PROVE priority[u] >= base[p] /\ priority'[u] >= base[p]
    <3>1. base[u] >= base[p]
      BY <1>2, SMT DEF Below, Priorities
    <3>2. priority[u] >= base[u] /\ priority'[u] >= base[u]
      BY <1>1, <1>2 DEF PriorityInv
    <3> QED BY <1>2, <3>1, <3>2, SMT DEF Priorities
  <2> QED BY <2>1, <2>2
<1>5. ASSUME NEW q \in Priorities, curPrio' = q, exec' = {t \in active' : priority'[t] = q},
             p \in active' => q >= base[p]
      PROVE  RunInv(p)'
  <2>1. p \in active' => curPrio' >= base[p]
    BY <1>5
  <2>2. ASSUME NEW u \in exec' \cap Below(p) PROVE curPrio' < base[p] /\ exec' \subseteq Below(p)
    <3>1. q < base[p]
      BY <1>4, <1>5, <2>2
    <3>2. ASSUME NEW v \in exec' PROVE v \in Below(p)
      BY <1>2, <1>4, <1>5, <3>1, <3>2, SMT DEF Priorities
    <3> QED BY <1>5, <3>1, <3>2
  <2> QED BY <1>2, <2>1, <2>2 DEF RunInv
<1>6. CASE UNCHANGED sched /\ active' \subseteq active
  BY <1>2, <1>6 DEF sched, RunInv
<1>7. CASE UpdateOnStopped
  <2>1. PICK q \in Priorities : (\A t \in active' : priority'[t] <= q) /\ Switch(q)
    BY <1>7 DEF UpdateOnStopped
  <2>2. p \in active' => q >= base[p]
    <3>1. p \notin Below(p)
      BY <1>2, SMT DEF Below, Priorities
    <3> QED BY <1>2, <1>4, <2>1, <3>1, SMT DEF Priorities
  <2> QED BY <1>5, <2>1, <2>2 DEF Switch
<1>8. ASSUME NEW q \in Priorities \cup {-1}, UpdateOnWake(q),
             \A u \in active' \ active : base[u] <= q \/ priority'[u] <= q
      PROVE  RunInv(p)'
  <2>1. p \in active' \ active => q >= base[p]
    BY <1>1, <1>2, <1>8, SMT DEF PriorityInv, Priorities
  <2>2. CASE q < curPrio
    <3>1. UNCHANGED sched
      BY <1>8, <2>2 DEF UpdateOnWake
    <3>2. p \in active' => curPrio >= base[p]
      BY <1>2, <2>1, <2>2, SMT DEF RunInv, Priorities
    <3> QED BY <1>2, <3>1, <3>2 DEF sched, RunInv
  <2>3. CASE ~(q < curPrio)
    <3>1. Switch(q) /\ q \in Priorities
      BY <1>2, <1>8, <2>3, SMT DEF UpdateOnWake, Priorities
    <3>2. p \in active' => q >= base[p]
      BY <1>2, <2>1, <2>3, <3>1, SMT DEF RunInv, Priorities
    <3> QED BY <1>5, <3>1, <3>2 DEF Switch
  <2> QED BY <2>2, <2>3
<1>9. CASE RoundEnd
  <2>1. curPrio' = curPrio /\ exec' = {t \in active' : priority'[t] = curPrio} /\ active' = active
    BY <1>9 DEF RoundEnd, block
  <2> QED BY <1>2, <1>5, <2>1 DEF RunInv
<1>10. ASSUME NEW t \in exec, NEW m \in Mutexes \cap program[t], TakeFree(t, m) PROVE RunInv(p)'
  <2>1. active' = active /\ exec' = exec /\ t \in Threads
        /\ (curPrio' = curPrio \/ (curPrio' = Ceiling[m] /\ Ceiling[m] > priority[t]))
    BY <1>2, <1>10 DEF TakeFree, block
  <2>2. CASE t \in Below(p)
    <3>1. curPrio < base[p] /\ exec \subseteq Below(p) /\ p \notin active
      BY <1>2, <2>2, SMT DEF RunInv, Priorities
    <3>2. curPrio' < base[p]
      BY <1>3, <2>1, <2>2, <3>1
    <3> QED BY <1>2, <2>1, <3>1, <3>2 DEF RunInv
  <2>3. CASE t \notin Below(p)
    <3>1. exec \cap Below(p) = {}
      BY <2>3 DEF RunInv
    <3>2. priority[t] >= base[p]
      BY <1>4, <2>1, <2>3
    <3>3. p \in active => curPrio' >= base[p]
      BY <1>2, <2>1, <3>2, SMT DEF RunInv, Priorities
    <3> QED BY <1>2, <2>1, <3>1, <3>3 DEF RunInv
  <2> QED BY <2>2, <2>3
<1> QED BY <1>6, <1>7, <1>8, <1>9, <1>10, SchedStep DEF SchedChange

\* What is known of the threads that post, and of the others while they do.
PostersInv ==
  PriorityInv /\ \A p \in Threads, s \in Sems : Posts(p, s) => RunInv(p)

LEMMA InitPosters == SyncInit => PostersInv
<1> SUFFICES ASSUME SyncInit PROVE PostersInv
  OBVIOUS
<1>1. base \in [Threads -> Priorities]
  BY SyncInitType, ScenarioFacts DEF SyncTypeOK, TableTypeOK, KernelTypeOK
<1>2. /\ priority = base /\ active = Threads /\ exec = {t \in Threads : base[t] = curPrio}
      /\ curPrio \in Priorities /\ IsHighest(curPrio, base, Threads)
  BY DEF SyncInit, KernelInit
<1>3. PriorityInv
  BY <1>1, <1>2, SMT DEF PriorityInv, Priorities
<1>4. ASSUME NEW p \in Threads PROVE RunInv(p)
  <2>1. curPrio >= base[p]
    BY <1>1, <1>2 DEF IsHighest, Priorities
  <2>2. exec \cap Below(p) = {}
    BY <1>1, <1>2, <2>1, SMT DEF Below, Priorities
  <2> QED BY <2>1, <2>2 DEF RunInv
<1> QED BY <1>3, <1>4 DEF PostersInv

LEMMA NextPosters ==
  SyncTypeOK /\ PostersOutrank /\ PostersInv /\ [SyncNext]_allVars => PostersOutrank' /\ PostersInv'
<1> SUFFICES ASSUME SyncTypeOK, PostersOutrank, PostersInv, [SyncNext]_allVars
             PROVE  PostersOutrank' /\ PostersInv'
  OBVIOUS
<1>1. program' = program /\ base' = base
  BY SyncNextType DEF fixed
<1>2. PostersOutrank'
  BY <1>1 DEF PostersOutrank, Posts, Below
<1> QED BY <1>1, <1>2, PriorityStep, RunStep DEF PostersInv, Posts

\* While p posts, nobody else who uses its semaphore takes a step.
LEMMA OthersWait ==
  ASSUME SyncTypeOK, PostersOutrank, PostersInv, NEW p \in Threads, NEW s \in Sems, Posts(p, s),
         p \in active, NEW u \in Threads \ {p}, s \in program[u]
  PROVE  u \notin exec
<1>1. u \in Below(p) /\ RunInv(p)
  BY DEF PostersOutrank, PostersInv
<1>2. base[p] \in Priorities /\ curPrio \in Priorities
  BY ScenarioFacts DEF SyncTypeOK, TableTypeOK, KernelTypeOK
<1> QED BY <1>1, <1>2, SMT DEF RunInv, Priorities

-----------------------------------------------------------------------------
(* What a step does to the semaphores                                      *)

WaitCalls == {"semwait", "semtimedwait"}
PostCalls == {"semload", "semstore", "sempost"}

\* sem_wait, sem_trywait or sem_timedwait that is served.
Takes(t, s) ==
  /\ call[t] = Idle \/ (call[t].op \in WaitCalls /\ call[t].on = s)
  /\ value[s] > 0 /\ Take(s) /\ call'[t] = Idle

\* ... or has to wait.
Waits(t, s) ==
  /\ call[t] = Idle \/ (call[t].op = "semwait" /\ call[t].on = s)
  /\ value[s] <= 0 /\ UNCHANGED sem
  /\ \E op \in WaitCalls : call'[t] = [op |-> op, on |-> s]

\* The end of a sem_timedwait that is not served.
TimesOut(t, s) ==
  /\ call[t].op = "semtimedwait" /\ call[t].on = s /\ call'[t] = Idle
  /\ unblockType[t] = "SLEEP" \/ value[s] <= 0
  /\ UNCHANGED sem

\* The four steps of sem_post.
Loads(t, s) ==
  /\ call[t] = Idle /\ call'[t] = [op |-> "semload", on |-> s]
  /\ UNCHANGED <<value, tokens>> /\ register'[t] = value[s] /\ t \in active'

Stores(t, s) ==
  /\ call[t].op = "semload" /\ call[t].on = s /\ call'[t] = [op |-> "semstore", on |-> s]
  /\ value' = [value EXCEPT ![s] = register[t] + 1]
  /\ tokens' = [tokens EXCEPT ![s] = tokens[s] + 1]
  /\ t \in active'

Selects(t, s) ==
  /\ call[t].op = "semstore" /\ call[t].on = s /\ UNCHANGED sem /\ t \in active'
  /\ \/ BlockedOn(s, t) = {} /\ call'[t] = Idle
     \/ \E w \in BlockedOn(s, t) : call'[t] = [op |-> "sempost", on |-> w] /\ w \notin active'

Rouses(t, w) ==
  /\ call[t].op = "sempost" /\ call[t].on = w /\ UNCHANGED sem /\ call'[t] = Idle
  /\ Woken(w, "SEMAPHORE")

SemActs(t) ==
  \/ \E s \in Sems \cap program[t] :
       \/ Takes(t, s) \/ Waits(t, s) \/ TimesOut(t, s)
       \/ Posts(t, s) /\ (Loads(t, s) \/ Stores(t, s) \/ Selects(t, s))
  \/ \E w \in Threads \ {t} : Rouses(t, w)

\* A step of t, if it takes one, that has nothing to do with semaphores.
Calm(t) ==
  /\ UNCHANGED sem
  /\ \/ Passive(t)
     \/ /\ Acts(t) /\ call[t].op \notin WaitCalls \cup PostCalls
        /\ call'[t].op \notin WaitCalls \cup PostCalls

LEMMA SemClasses ==
  ASSUME SyncTypeOK, NEW t \in Threads, SemStep(t)
  PROVE  SemActs(t)
<1>1. /\ t \in DOMAIN call /\ (t \in exec => t \in active)
      /\ CallFits(t, call[t].op, call[t].on) /\ unblockType \in [Threads -> UnblockTypes]
      /\ value \in [Sems -> Int] /\ register \in [Threads -> Int]
  BY DEF SyncTypeOK, TableTypeOK, KernelTypeOK, CallTypeOK, SemTypeOK
<1>2. Return(t) => call'[t] = Idle
  BY <1>1 DEF Return
<1>3. \A op, o : Enter(t, op, o) => call'[t] = [op |-> op, on |-> o]
  BY <1>1 DEF Enter
<1>4. ASSUME NEW s \in Sems \cap program[t], SvcallSemWait(t, s),
             call[t] = Idle \/ (call[t].op = "semwait" /\ call[t].on = s)
      PROVE  SemActs(t)
  <2>1. CASE value[s] <= 0
    BY <1>3, <1>4, <2>1 DEF SvcallSemWait, SemActs, Waits, WaitCalls
  <2>2. CASE ~(value[s] <= 0)
    <3>1. value[s] > 0
      BY <1>1, <2>2, SMT
    <3> QED BY <1>2, <1>4, <2>2, <3>1 DEF SvcallSemWait, SemActs, Takes, WaitCalls
  <2> QED BY <2>1, <2>2
<1>5. ASSUME NEW s \in Sems \cap program[t], SemTimedwait(t, s) PROVE SemActs(t)
  <2>1. CASE value[s] <= 0
    BY <1>3, <1>5, <2>1 DEF SemTimedwait, Calls, SemActs, Waits, WaitCalls
  <2>2. CASE ~(value[s] <= 0)
    <3>1. value[s] > 0
      BY <1>1, <2>2, SMT
    <3> QED BY <1>5, <2>2, <3>1 DEF SemTimedwait, Calls, SemActs, Takes
  <2> QED BY <2>1, <2>2
<1>6. ASSUME NEW s \in Sems \cap program[t], SemTrywait(t, s) PROVE SemActs(t)
  BY <1>6 DEF SemTrywait, Calls, SemActs, Takes
<1>7. ASSUME NEW s \in Sems \cap program[t], SemPostLoad(t, s) PROVE SemActs(t)
  <2>1. Loads(t, s)
    BY <1>1, <1>3, <1>7 DEF SemPostLoad, Calls, Loads, kernel, block
  <2>2. Posts(t, s)
    BY <1>7 DEF SemPostLoad, Calls, Posts
  <2> QED BY <2>1, <2>2 DEF SemActs
<1>8. ASSUME SemTimedwaitReturn(t) PROVE SemActs(t)
  <2> DEFINE s == call[t].on
  <2>1. s \in Sems \cap program[t] /\ call[t].op = "semtimedwait" /\ call'[t] = Idle
    BY <1>1, <1>2, <1>8 DEF SemTimedwaitReturn, InCall, CallFits
  <2>2. CASE unblockType[t] # "SLEEP" /\ value[s] > 0
    <3>1. Takes(t, s)
      BY <1>8, <2>1, <2>2 DEF SemTimedwaitReturn, Takes, WaitCalls
    <3> QED BY <2>1, <3>1 DEF SemActs
  <2>3. CASE ~(unblockType[t] # "SLEEP" /\ value[s] > 0)
    <3>1. UNCHANGED sem /\ (unblockType[t] = "SLEEP" \/ value[s] <= 0)
      BY <1>1, <1>8, <2>1, <2>3, SMT DEF SemTimedwaitReturn
    <3>2. TimesOut(t, s)
      BY <2>1, <3>1 DEF TimesOut
    <3> QED BY <2>1, <3>2 DEF SemActs
  <2> QED BY <2>2, <2>3
<1>9. ASSUME SemPostStore(t) PROVE SemActs(t)
  <2> DEFINE s == call[t].on
  <2>1. s \in Sems \cap program[t] /\ Posts(t, s) /\ t \in exec /\ call[t].op = "semload"
    BY <1>1, <1>9 DEF SemPostStore, InCall, CallFits, Posts
  <2>2. Stores(t, s)
    BY <1>1, <1>3, <1>9, <2>1 DEF SemPostStore, Stores, kernel, block
  <2> QED BY <2>1, <2>2 DEF SemActs
<1>10. ASSUME SemPostSelect(t) PROVE SemActs(t)
  <2> DEFINE s == call[t].on
  <2>1. s \in Sems \cap program[t] /\ Posts(t, s) /\ t \in exec /\ call[t].op = "semstore"
    BY <1>1, <1>10 DEF SemPostSelect, InCall, CallFits, Posts
  <2>2. active' = active /\ UNCHANGED sem
    BY <1>10 DEF SemPostSelect, kernel, block
  <2>3. CASE HighestPriorityBlocked(s, t) = {}
    <3>1. BlockedOn(s, t) = {}
      <4>1. base \in [Threads -> Priorities]
        BY ScenarioFacts DEF SyncTypeOK, TableTypeOK, KernelTypeOK
      <4> QED BY <2>3, <4>1, SomeoneIsChosen
    <3>2. Selects(t, s)
      BY <1>1, <1>2, <1>10, <2>1, <2>2, <2>3, <3>1 DEF SemPostSelect, Selects
    <3> QED BY <2>1, <3>2 DEF SemActs
  <2>4. ASSUME NEW w \in HighestPriorityBlocked(s, t), Enter(t, "sempost", w) PROVE SemActs(t)
    <3>1. w \in BlockedOn(s, t) /\ w \notin active
      BY DEF HighestPriorityBlocked, BlockedOn
    <3>2. Selects(t, s)
      BY <1>1, <1>3, <2>1, <2>2, <2>4, <3>1 DEF Selects
    <3> QED BY <2>1, <3>2 DEF SemActs
  <2> QED BY <1>10, <2>3, <2>4 DEF SemPostSelect
<1>11. ASSUME SvcallSemPost(t) PROVE SemActs(t)
  <2> DEFINE w == call[t].on
  <2>1. w \in Threads \ {t} /\ call[t].op = "sempost"
    BY <1>1, <1>11 DEF SvcallSemPost, InCall, CallFits
  <2>2. Woken(w, "SEMAPHORE")
    BY <1>11, <2>1 DEF SvcallSemPost, AssertActive, Put, Woken
  <2>3. Rouses(t, w)
    BY <1>2, <1>11, <2>1, <2>2 DEF SvcallSemPost, Rouses
  <2> QED BY <2>1, <2>3 DEF SemActs
<1>12. ASSUME NEW s \in Sems \cap program[t], SemWait(t, s) PROVE SemActs(t)
  BY <1>4, <1>12 DEF SemWait, Calls
<1>13. ASSUME SemWaitAgain(t) PROVE SemActs(t)
  BY <1>1, <1>4, <1>13 DEF SemWaitAgain, InCall, CallFits
<1> QED BY <1>5, <1>6, <1>7, <1>8, <1>9, <1>10, <1>11, <1>12, <1>13 DEF SemStep

LEMMA SemCases ==
  ASSUME SyncTypeOK, [SyncNext]_allVars
  PROVE  \E t \in Threads : /\ \A u \in Threads \ {t} : Passive(u)
                            /\ Calm(t) \/ (Acts(t) /\ SemActs(t))
<1> DEFINE Others(t) == \A u \in Threads \ {t} : Passive(u)
           Ops == {"none", "relock", "condsignal", "listio", "aiosuspend"} \cup LockCalls
<1>1. 1 \in Threads
  BY KernelAssumption, SMT DEF Threads
<1>2. ASSUME Quiet, UNCHANGED sem PROVE Others(1) /\ Calm(1)
  BY <1>1, <1>2 DEF Quiet, Calm
<1>3. ASSUME NEW t \in Threads, Acts(t) PROVE Others(t)
  BY <1>3 DEF Acts, Frame
<1>4. ASSUME NEW t \in Threads, Acts(t), UNCHANGED sem, call[t].op \in Ops, call'[t].op \in Ops
      PROVE  Calm(t)
  BY <1>4 DEF Calm, WaitCalls, PostCalls, LockCalls
<1>5. Idle.op = "none" /\ \A t \in Threads : t \in DOMAIN call
  BY DEF Idle, SyncTypeOK, CallTypeOK
<1>6. ASSUME NEW t \in Threads, Return(t) PROVE call'[t].op \in Ops
  <2>1. call'[t] = Idle
    BY <1>5, <1>6 DEF Return
  <2> QED BY <1>5, <2>1
<1>7. ASSUME NEW t \in Threads, NEW op \in Ops, NEW o, Enter(t, op, o) PROVE call'[t].op \in Ops
  <2>1. call'[t] = [op |-> op, on |-> o]
    BY <1>5, <1>7 DEF Enter
  <2> QED BY <2>1, SMT
<1>8. ASSUME NEW t \in Threads, NEW op, Calls(t, op) PROVE call[t].op \in Ops
  BY <1>5, <1>8 DEF Calls
<1>9. ASSUME NEW t \in Threads, MutexStep(t) PROVE call[t].op \in Ops /\ call'[t].op \in Ops
  <2>1. ASSUME NEW m, NEW op \in LockCalls, MutexTrylock(t, m, op) PROVE call'[t].op \in Ops
    BY <1>6, <1>7, <2>1 DEF MutexTrylock
  <2>2. ASSUME NEW m, Unlock(t, m) PROVE call[t].op \in Ops /\ UNCHANGED call
    BY <1>8, <2>2 DEF Unlock
  <2>3. ASSUME NEW m, NEW op \in LockCalls, Lock(t, m, op) PROVE call[t].op \in Ops /\ call'[t].op \in Ops
    BY <1>8, <2>1, <2>3 DEF Lock
  <2>4. LockLoop(t) => call[t].op \in Ops /\ UNCHANGED call
    BY DEF LockLoop, InCall
  <2>5. LockReturn(t) => call[t].op \in Ops /\ call'[t].op \in Ops
    BY <1>6 DEF LockReturn, InCall
  <2>6. ASSUME NEW m, NEW op, Calls(t, op), LockAgain(t, m) PROVE call[t].op \in Ops /\ UNCHANGED call
    BY <1>8, <2>6 DEF LockAgain
  <2> QED BY <1>9, <2>2, <2>3, <2>4, <2>5, <2>6 DEF MutexStep
<1>10. ASSUME NEW t \in Threads, CondStep(t) PROVE call[t].op \in Ops /\ call'[t].op \in Ops
  <2>1. ASSUME NEW c, CondSignal(t, c) PROVE call[t].op \in Ops /\ call'[t].op \in Ops
    BY <1>7, <1>8, <2>1 DEF CondSignal, ChooseWaiter
  <2>2. ASSUME NEW c, CondBroadcast(t, c) PROVE call[t].op \in Ops /\ UNCHANGED call
    BY <1>8, <2>2 DEF CondBroadcast
  <2>3. ASSUME NEW c, NEW m, NEW isTimed, CondWait(t, c, m, isTimed)
        PROVE  call[t].op \in Ops /\ call'[t].op \in Ops
    BY <1>7, <1>8, <2>3 DEF CondWait, SvcallCondWait
  <2>4. CondRelock(t) => call[t].op \in Ops /\ call'[t].op \in Ops
    BY <1>6, <1>7 DEF CondRelock, InCall, MutexTrylock, LockCalls
  <2>5. SvcallCondSignal(t) => call[t].op \in Ops /\ call'[t].op \in Ops
    BY <1>6 DEF SvcallCondSignal, InCall
  <2> QED BY <1>10, <2>1, <2>2, <2>3, <2>4, <2>5 DEF CondStep
<1>11. ASSUME NEW t \in Threads, AioStep(t), UNCHANGED objects
       PROVE  Quiet \/ (call[t].op \in Ops /\ call'[t].op \in Ops)
  <2>1. ASSUME NEW a \in Requests, aio_cancel(t, a) PROVE Quiet
    BY <1>11, <2>1, CompleteFrame DEF aio_cancel
  <2>2. ASSUME NEW a, aio_read(t, a) PROVE call[t].op \in Ops /\ UNCHANGED call
    BY <1>8, <2>2 DEF aio_read
  <2>3. ASSUME NEW as, lio_listio(t, as) PROVE call[t].op \in Ops /\ call'[t].op \in Ops
    BY <1>7, <1>8, <2>3 DEF lio_listio
  <2>4. ASSUME NEW isTimed, svcall_suspend(t, isTimed) PROVE call'[t].op \in Ops
    BY <1>6, <1>7, <2>4 DEF svcall_suspend
  <2>5. ASSUME NEW as, aio_suspend(t, as) PROVE call[t].op \in Ops /\ call'[t].op \in Ops
    BY <1>8, <2>4, <2>5 DEF aio_suspend
  <2>6. ListNext(t) => call[t].op \in Ops /\ call'[t].op \in Ops
    BY <1>7 DEF ListNext, InCall
  <2>7. ListSuspend(t) \/ SuspendReturn(t) => call[t].op \in Ops /\ call'[t].op \in Ops
    BY <1>6, <2>4 DEF ListSuspend, SuspendReturn, InCall
  <2> QED BY <1>11, <2>1, <2>2, <2>3, <2>5, <2>6, <2>7 DEF AioStep
<1> HIDE DEF Others, Ops
<1>12. ASSUME NEW t \in Threads, ThreadStep(t)
       PROVE  \E u \in Threads : Others(u) /\ (Calm(u) \/ (Acts(u) /\ SemActs(u)))
  <2>1. CASE ObjectStep((MutexStep(t) \/ CondStep(t)) /\ UNCHANGED sem)
    <3>1. Acts(t) /\ UNCHANGED sem /\ call[t].op \in Ops /\ call'[t].op \in Ops
      BY <1>9, <1>10, <2>1, MutexStepFrame, CondStepFrame DEF ObjectStep
    <3> QED BY <1>3, <1>4, <3>1
  <2>2. CASE ObjectStep(SemStep(t) /\ UNCHANGED <<mutex, holds>>)
    BY <1>3, <2>2, SemStepFrame, SemClasses DEF ObjectStep
  <2>3. CASE AioStep(t) /\ UNCHANGED objects
    <3>1. UNCHANGED sem
      BY <2>3 DEF objects
    <3> QED BY <1>1, <1>2, <1>3, <1>4, <1>11, <2>3, <3>1, AioStepFrame
  <2> QED BY <1>12, <2>1, <2>2, <2>3 DEF ThreadStep
<1>13. ASSUME SystemStep
       PROVE  \E u \in Threads : Others(u) /\ (Calm(u) \/ (Acts(u) /\ SemActs(u)))
  <2>1. UNCHANGED sem /\ UNCHANGED call
    BY <1>13 DEF SystemStep, objects
  <2>2. ASSUME NEW t \in Threads, SignalWait(t) PROVE call[t].op \in Ops
    BY <1>8, <2>2 DEF SignalWait
  <2> QED BY <1>1, <1>2, <1>3, <1>4, <1>13, <2>1, <2>2, SystemStepFrame
<1>14. ASSUME UNCHANGED allVars PROVE Quiet /\ UNCHANGED sem
  BY <1>14, StutterFrame DEF allVars, objects
<1>15. \E u \in Threads : Others(u) /\ (Calm(u) \/ (Acts(u) /\ SemActs(u)))
  BY <1>1, <1>2, <1>12, <1>13, <1>14 DEF SyncNext
<1> QED BY <1>15 DEF Others

-----------------------------------------------------------------------------
(* Counting                                                                *)

\* A thread does not sleep inside sem_post, and what it has loaded is the value still.
PostInv(t) ==
  call[t].op \in PostCalls =>
    t \in active /\ (call[t].op = "semload" => register[t] = value[call[t].on])

CountInv == SemCount /\ \A t \in Threads : PostInv(t)

LEMMA NextCount ==
  ASSUME SyncTypeOK, PostersOutrank, PostersInv, CountInv, [SyncNext]_allVars
  PROVE  CountInv'
<1>1. PICK t \in Threads : /\ \A u \in Threads \ {t} : Passive(u)
                           /\ Calm(t) \/ (Acts(t) /\ SemActs(t))
  BY SemCases
<1>2. /\ value \in [Sems -> Int] /\ tokens \in [Sems -> Int]
      /\ \A u \in Threads : CallFits(u, call[u].op, call[u].on)
  BY DEF SyncTypeOK, SemTypeOK, CallTypeOK
<1>3. ASSUME NEW u \in Threads, Passive(u), call[u].op = "semload" => value'[call[u].on] = value[call[u].on]
      PROVE  PostInv(u)'
  <2>1. call'[u] = call[u] /\ register'[u] = register[u] /\ (u \in active => u \in active')
    BY <1>3 DEF Passive, Left, Untouched, Woken
  <2> QED BY <1>3, <2>1 DEF PostInv, CountInv
<1>4. CASE Calm(t)
  <2>1. UNCHANGED <<value, tokens>>
    BY <1>4 DEF Calm, sem
  <2>2. PostInv(t)'
    BY <1>3, <1>4, <2>1 DEF Calm, PostInv
  <2> QED BY <1>1, <1>3, <2>1, <2>2 DEF CountInv, SemCount
<1>5. ASSUME Acts(t), NEW s \in Sems \cap program[t],
             \A r \in Sems \ {s} : value'[r] = value[r] /\ tokens'[r] = tokens[r],
             value'[s] = tokens'[s], value'[s] >= 0, PostInv(t)'
      PROVE  CountInv'
  <2>1. ASSUME NEW u \in Threads \ {t} PROVE PostInv(u)'
    <3>1. CASE call[u].op = "semload" /\ call[u].on = s
      <4>1. Posts(u, s) /\ u \in active
        BY <1>2, <3>1 DEF CallFits, Posts, CountInv, PostInv, PostCalls
      <4>2. t \notin exec
        BY <4>1, OthersWait
      <4> QED BY <1>5, <4>2 DEF Acts
    <3>2. CASE ~(call[u].op = "semload" /\ call[u].on = s)
      <4>1. call[u].op = "semload" => call[u].on \in Sems \ {s}
        BY <1>2, <3>2 DEF CallFits
      <4> QED BY <1>1, <1>3, <1>5, <4>1
    <3> QED BY <3>1, <3>2
  <2>2. SemCount'
    BY <1>5 DEF CountInv, SemCount
  <2> QED BY <1>5, <2>1, <2>2 DEF CountInv
<1>6. ASSUME UNCHANGED sem, PostInv(t)' PROVE CountInv'
  <2>1. UNCHANGED <<value, tokens>>
    BY <1>6 DEF sem
  <2> QED BY <1>1, <1>3, <1>6, <2>1 DEF CountInv, SemCount
<1>7. ASSUME NEW s \in Sems \cap program[t], Acts(t), Takes(t, s) PROVE CountInv'
  <2>1. PostInv(t)'
    BY <1>7, SMT DEF Takes, PostInv, Idle, PostCalls
  <2>2. /\ \A r \in Sems \ {s} : value'[r] = value[r] /\ tokens'[r] = tokens[r]
        /\ value'[s] = value[s] - 1 /\ tokens'[s] = tokens[s] - 1
    BY <1>2, <1>7 DEF Takes, Take
  <2>3. value[s] > 0 /\ value[s] = tokens[s]
    BY <1>7 DEF Takes, CountInv, SemCount
  <2> QED BY <1>2, <1>5, <1>7, <2>1, <2>2, <2>3, SMT
<1>8. ASSUME NEW s \in Sems \cap program[t], Waits(t, s) \/ TimesOut(t, s) PROVE CountInv'
  <2>1. UNCHANGED sem /\ call'[t].op \notin PostCalls
    BY <1>8, SMT DEF Waits, TimesOut, WaitCalls, PostCalls, Idle
  <2> QED BY <1>6, <2>1 DEF PostInv
<1>9. ASSUME NEW s \in Sems \cap program[t], Loads(t, s) PROVE CountInv'
  <2>1. UNCHANGED <<value, tokens>> /\ PostInv(t)'
    BY <1>9, SMT DEF Loads, PostInv
  <2> QED BY <1>1, <1>3, <2>1 DEF CountInv, SemCount
<1>10. ASSUME NEW s \in Sems \cap program[t], Acts(t), Stores(t, s) PROVE CountInv'
  <2>1. PostInv(t)'
    BY <1>10, SMT DEF Stores, PostInv
  <2>2. /\ \A r \in Sems \ {s} : value'[r] = value[r] /\ tokens'[r] = tokens[r]
        /\ value'[s] = register[t] + 1 /\ tokens'[s] = tokens[s] + 1
    BY <1>2, <1>10 DEF Stores
  <2>3. register[t] = value[s] /\ value[s] = tokens[s] /\ value[s] >= 0
    BY <1>10 DEF Stores, CountInv, SemCount, PostInv, PostCalls
  <2> QED BY <1>2, <1>5, <1>10, <2>1, <2>2, <2>3, SMT
<1>11. ASSUME NEW s \in Sems \cap program[t], Selects(t, s) PROVE CountInv'
  <2>1. UNCHANGED sem /\ t \in active'
    BY <1>11 DEF Selects
  <2>2. call'[t] = Idle \/ \E w : call'[t] = [op |-> "sempost", on |-> w]
    BY <1>11 DEF Selects
  <2>3. call'[t] = Idle => call'[t].op # "semload"
    BY SMT DEF Idle
  <2>4. ASSUME NEW w, call'[t] = [op |-> "sempost", on |-> w] PROVE call'[t].op # "semload"
    BY <2>4, SMT
  <2> QED BY <1>6, <2>1, <2>2, <2>3, <2>4 DEF PostInv
<1>12. ASSUME NEW w \in Threads, Rouses(t, w) PROVE CountInv'
  <2>1. UNCHANGED sem /\ PostInv(t)'
    BY <1>12, SMT DEF Rouses, PostInv, Idle, PostCalls
  <2> QED BY <1>6, <2>1
<1> QED BY <1>1, <1>4, <1>7, <1>8, <1>9, <1>10, <1>11, <1>12 DEF SemActs

LEMMA InitCount == SyncInit => CountInv
BY SMT DEF SyncInit, SemInit, KernelInit, Idle, CountInv, SemCount, PostInv, PostCalls

LEMMA CountInvHolds ==
  SyncSpec /\ PostersOutrank => [](SyncTypeOK /\ PostersOutrank /\ PostersInv /\ CountInv)
BY SyncTypeCorrect, InitPosters, NextPosters, InitCount, NextCount, PTL DEF SyncSpec

\* No post and no wait is lost or counted twice, although sem_post increments the value with a
\* load and a store of its own and can be preempted in between, by signals, interrupts and
\* threads that use other semaphores.
THEOREM SemCountHolds == SyncSpec /\ PostersOutrank => []SemCount
BY CountInvHolds, PTL DEF CountInv

-----------------------------------------------------------------------------
(* Waking                                                                  *)

\* A thread that pauses sleeps with the block object that its last wait left: a post would take
\* it for a waiter.
WaitersNeverPause == \A t \in Threads : SemWaits(t) => "pause" \notin program[t]

\* The threads asleep that a post of s can find are those in a wait for s.
SemBlockInv(u) ==
  u \notin active =>
    \A s \in Sems : blockObject[u] = s <=> call[u].op \in WaitCalls /\ call[u].on = s

\* The thread that a post has chosen waits for a semaphore of the poster, until it is woken.
RouseInv(t) ==
  call[t].op = "sempost" => call[call[t].on].op \in WaitCalls /\ call[call[t].on].on \in program[t]

\* A post of s by p that has still to wake somebody.
Pends(p, s) ==
  \/ call[p].op = "semstore" /\ call[p].on = s
  \/ call[p].op = "sempost" /\ call[call[p].on].on = s /\ call[p].on \notin Retrying(s)

Pending(s) == \E p \in Threads : Pends(p, s)

\* PostWakesWaiter, with at most one post under way to s.
TokenInv(s) ==
  Sleepers(s) # {} => value[s] <= (IF Pending(s) THEN 1 ELSE 0) + Cardinality(Retrying(s))

WakeInv ==
  /\ \A t \in Threads : SemBlockInv(t) /\ RouseInv(t)
  /\ \A s \in Sems : TokenInv(s)

LEMMA ThreadCards ==
  ASSUME NEW R \in SUBSET Threads, NEW Q \in SUBSET Threads
  PROVE  /\ Cardinality(R) \in Nat /\ Cardinality(Q) \in Nat
         /\ R \subseteq Q => Cardinality(R) <= Cardinality(Q)
         /\ \A w \in Q \ R : R \subseteq Q => Cardinality(R) + 1 <= Cardinality(Q)
         /\ \A w : R \ {w} \subseteq Q => Cardinality(R) <= Cardinality(Q) + 1
<1>1. IsFiniteSet(Threads)
  <2>1. 1 \in Int /\ N \in Int
    BY KernelAssumption, SMT
  <2>2. IsFiniteSet(1..N)
    BY <2>1, FS_Interval
  <2> QED BY <2>2 DEF Threads
<1>2. IsFiniteSet(R) /\ IsFiniteSet(Q)
  BY <1>1, FS_Subset
<1>3. Cardinality(R) \in Nat /\ Cardinality(Q) \in Nat
  BY <1>2, FS_CardinalityType
<1>4. R \subseteq Q => Cardinality(R) <= Cardinality(Q)
  BY <1>2, FS_Subset
<1>5. ASSUME NEW w \in Q \ R, R \subseteq Q PROVE Cardinality(R) + 1 <= Cardinality(Q)
  <2>1. Cardinality(R \cup {w}) = Cardinality(R) + 1
    BY <1>2, <1>5, FS_AddElement
  <2>2. R \cup {w} \subseteq Q
    BY <1>5
  <2>3. Cardinality(R \cup {w}) <= Cardinality(Q)
    BY <1>2, <2>2, FS_Subset
  <2> QED BY <2>1, <2>3
<1>6. ASSUME NEW w, R \ {w} \subseteq Q PROVE Cardinality(R) <= Cardinality(Q) + 1
  <2>1. Cardinality(R \ {w}) = IF w \in R THEN Cardinality(R) - 1 ELSE Cardinality(R)
    BY <1>2, FS_RemoveElement
  <2>2. Cardinality(R \ {w}) <= Cardinality(Q)
    BY <1>2, <1>6, FS_Subset
  <2> QED BY <1>3, <2>1, <2>2, SMT
<1> QED BY <1>3, <1>4, <1>5, <1>6

\* What keeps a token's waker on the way, when the value of s does not grow.
LEMMA TokenStep ==
  ASSUME SyncTypeOK, SyncTypeOK', NEW s \in Sems, TokenInv(s),
         Sleepers(s)' # {} => Sleepers(s) # {},
         Retrying(s) \subseteq Retrying(s)',
         Pending(s) => Pending(s)' \/ \E w \in Threads : w \in Retrying(s)' /\ w \notin Retrying(s),
         value'[s] <= value[s]
  PROVE  TokenInv(s)'
<1> DEFINE R == Retrying(s)
           Q == Retrying(s)'
<1>1. R \in SUBSET Threads /\ Q \in SUBSET Threads
  BY DEF SyncTypeOK, TableTypeOK, KernelTypeOK, Retrying
<1>2. value[s] \in Int /\ value'[s] \in Int
  BY DEF SyncTypeOK, SemTypeOK
<1>3. Sleepers(s)' # {} => value[s] <= (IF Pending(s) THEN 1 ELSE 0) + Cardinality(R)
  BY DEF TokenInv
<1>4. (Pending(s) => Pending(s)' \/ \E w \in Q : w \notin R) /\ R \subseteq Q
  OBVIOUS
<1>5. Sleepers(s)' # {} => value'[s] <= (IF Pending(s)' THEN 1 ELSE 0) + Cardinality(Q)
  <2> HIDE DEF R, Q
  <2>1. /\ Cardinality(R) \in Nat /\ Cardinality(Q) \in Nat
        /\ Cardinality(R) <= Cardinality(Q)
        /\ \A w \in Q \ R : Cardinality(R) + 1 <= Cardinality(Q)
    BY <1>1, <1>4, ThreadCards
  <2>2. (IF Pending(s) THEN 1 ELSE 0) + Cardinality(R) <= (IF Pending(s)' THEN 1 ELSE 0) + Cardinality(Q)
    BY <1>4, <2>1, SMT
  <2> QED BY <1>2, <1>3, <2>1, <2>2, SMT
<1> QED BY <1>5 DEF TokenInv

\* ... and when t takes a token.
LEMMA TokenTaken ==
  ASSUME SyncTypeOK, SyncTypeOK', NEW s \in Sems, NEW t \in Threads, TokenInv(s),
         Sleepers(s)' # {} => Sleepers(s) # {},
         Retrying(s) \ {t} \subseteq Retrying(s)',
         Pending(s) => Pending(s)' \/ \E w \in Threads : w \in Retrying(s)' /\ w \notin Retrying(s),
         value'[s] = value[s] - 1
  PROVE  TokenInv(s)'
<1> DEFINE R == Retrying(s)
           S == Retrying(s) \ {t}
           Q == Retrying(s)'
<1>1. R \in SUBSET Threads /\ S \in SUBSET Threads /\ Q \in SUBSET Threads
  BY DEF SyncTypeOK, TableTypeOK, KernelTypeOK, Retrying
<1>2. value[s] \in Int
  BY DEF SyncTypeOK, SemTypeOK
<1>3. Sleepers(s)' # {} => value[s] <= (IF Pending(s) THEN 1 ELSE 0) + Cardinality(R)
  BY DEF TokenInv
<1>4. (Pending(s) => Pending(s)' \/ \E w \in Q : w \notin S) /\ S \subseteq Q /\ R \ {t} \subseteq S
  OBVIOUS
<1>5. Sleepers(s)' # {} => value'[s] <= (IF Pending(s)' THEN 1 ELSE 0) + Cardinality(Q)
  <2> HIDE DEF R, S, Q
  <2>1. /\ Cardinality(S) \in Nat /\ Cardinality(Q) \in Nat
        /\ Cardinality(S) <= Cardinality(Q)
        /\ \A w \in Q \ S : Cardinality(S) + 1 <= Cardinality(Q)
    BY <1>1, <1>4, ThreadCards
  <2>2. Cardinality(R) \in Nat /\ Cardinality(R) <= Cardinality(S) + 1
    BY <1>1, <1>4, ThreadCards
  <2>3. (IF Pending(s) THEN 1 ELSE 0) + Cardinality(S) <= (IF Pending(s)' THEN 1 ELSE 0) + Cardinality(Q)
    BY <1>4, <2>1, SMT
  <2> QED BY <1>2, <1>3, <2>1, <2>2, <2>3, SMT
<1> QED BY <1>5 DEF TokenInv

LEMMA PassiveWait ==
  ASSUME SyncTypeOK, NEW u \in Threads, Passive(u), NEW s \in Sems
  PROVE  /\ u \in Sleepers(s)' => u \in Sleepers(s)
         /\ u \in Retrying(s) => u \in Retrying(s)'
<1>1. call'[u] = call[u] /\ Left(u)
  BY DEF Passive
<1>2. CASE Untouched(u)
  BY <1>1, <1>2 DEF Untouched, Sleepers, Retrying
<1>3. ASSUME NEW type \in UnblockTypes, Woken(u, type), Reason(u, type)
      PROVE  u \in active' /\ (u \in Retrying(s) => u \in Retrying(s)')
  <2>1. u \in active' /\ unblockType'[u] = type
    BY <1>3 DEF Woken
  <2>2. u \in active => type # "SLEEP"
    BY <1>3 DEF Reason
  <2> QED BY <1>1, <2>1, <2>2 DEF Retrying
<1> QED BY <1>1, <1>2, <1>3 DEF Left, Sleepers

LEMMA PassiveBlock ==
  ASSUME NEW u \in Threads, SemBlockInv(u), Passive(u)
  PROVE  SemBlockInv(u)'
<1>1. call'[u] = call[u] /\ (u \notin active' => u \notin active /\ blockObject'[u] = blockObject[u])
  BY DEF Passive, Left, Untouched, Woken
<1> QED BY <1>1 DEF SemBlockInv

LEMMA ActingBlock ==
  ASSUME SyncTypeOK, WaitersNeverPause, NEW t \in Threads, Acts(t)
  PROVE  SemBlockInv(t)'
<1> SUFFICES ASSUME t \notin active'
             PROVE  \A s \in Sems : blockObject'[t] = s <=> call'[t].op \in WaitCalls /\ call'[t].on = s
  BY DEF SemBlockInv
<1>1. t \in active /\ ~Untouched(t) /\ CallFits(t, call[t].op, call[t].on)
  BY DEF Acts, SyncTypeOK, TableTypeOK, KernelTypeOK, CallTypeOK, Untouched
<1>2. ASSUME blockObject'[t] \notin Sems, call'[t].op \notin WaitCalls
      PROVE  \A s \in Sems : blockObject'[t] = s <=> call'[t].op \in WaitCalls /\ call'[t].on = s
  BY <1>2
<1>3. CASE MutexActs(t)
  <2> DEFINE Elsewhere == blockObject'[t] \notin Sems /\ call'[t].op \notin WaitCalls
  <2>1. ASSUME NEW m \in Mutexes, NEW op \in LockCalls, Took(t, m) \/ Tried(t, m, op)
        PROVE  Elsewhere
    BY <1>1, <2>1, ObjectKinds, SMT DEF Took, Tried, Slept, LockCalls, WaitCalls
  <2>2. ASSUME NEW m \in Mutexes, Unlocked(t, m) PROVE Elsewhere
    BY <1>1, <2>2 DEF Unlocked
  <2>3. Looped(t) \/ Returned(t) => Elsewhere
    BY <1>1, ObjectKinds DEF Looped, Returned, Slept, CallFits, LockCalls, WaitCalls
  <2>4. ASSUME NEW c \in Conds, NEW w \in Threads, Chose(t, c, w) PROVE Elsewhere
    BY <1>1, <2>4 DEF Chose
  <2>5. ASSUME NEW c \in Conds, NEW m \in Mutexes, NEW isTimed \in BOOLEAN, Waited(t, c, m, isTimed)
        PROVE  Elsewhere
    BY <2>5, ObjectKinds, SMT DEF Waited, Slept, WaitCalls
  <2> QED BY <1>2, <1>3, <2>1, <2>2, <2>3, <2>4, <2>5 DEF MutexActs
<1>4. CASE Other(t)
  <2>1. blockObject[t] \in Sems => "pause" \notin program[t]
    BY ObjectKinds DEF SyncTypeOK, TableTypeOK, BlockObjects, WaitersNeverPause
  <2> QED BY <1>2, <1>4, <2>1, ObjectKinds, SMT DEF Other, Settled, WaitCalls, Idle
<1> QED BY <1>3, <1>4 DEF Acts

LEMMA NextWake ==
  ASSUME SyncTypeOK, PostersOutrank, WaitersNeverPause, PostersInv, CountInv, WakeInv,
         [SyncNext]_allVars
  PROVE  WakeInv'
<1>1. PICK t \in Threads : /\ \A u \in Threads \ {t} : Passive(u)
                           /\ Calm(t) \/ (Acts(t) /\ SemActs(t))
  BY SemCases
<1>2. SyncTypeOK' /\ program' = program
  BY SyncNextType DEF fixed
<1>3. /\ value \in [Sems -> Int]
      /\ \A u \in Threads : CallFits(u, call[u].op, call[u].on)
      /\ \A u \in Threads : SemBlockInv(u) /\ RouseInv(u) /\ PostInv(u)
      /\ \A s \in Sems : TokenInv(s)
  BY DEF SyncTypeOK, SemTypeOK, CallTypeOK, WakeInv, CountInv
<1>4. ASSUME NEW u \in Threads PROVE Passive(u) \/ (u = t /\ Acts(t))
  BY <1>1 DEF Calm
<1>5. ASSUME NEW u \in Threads PROVE SemBlockInv(u)'
  BY <1>3, <1>4, PassiveBlock, ActingBlock
<1>6. ASSUME NEW p \in Threads, call[p].op = "sempost"
      PROVE  call[p].on \in Threads \ {p} /\ call'[call[p].on] = call[call[p].on]
  <2> DEFINE w == call[p].on
             s == call[w].on
  <2>1. w \in Threads \ {p} /\ s \in Sems \cap program[w] /\ s \in program[p] /\ p \in active
    BY <1>3, <1>6 DEF CallFits, RouseInv, PostInv, WaitCalls, PostCalls
  <2>2. Posts(p, s)
    BY <1>3, <1>6, <2>1 DEF Posts, CallFits
  <2>3. w \notin exec
    BY <2>1, <2>2, OthersWait
  <2>4. Passive(w)
    BY <1>4, <2>1, <2>3 DEF Acts
  <2> QED BY <2>1, <2>4 DEF Passive
<1>7. ASSUME NEW p \in Threads, call'[p] = call[p] PROVE RouseInv(p)'
  BY <1>2, <1>3, <1>6, <1>7 DEF RouseInv
<1>8. ASSUME NEW p \in Threads, call'[p].op # "sempost" PROVE RouseInv(p)'
  BY <1>8 DEF RouseInv
<1>9. ASSUME NEW u \in Threads \ {t} PROVE RouseInv(u)'
  BY <1>1, <1>7 DEF Passive
<1>10. ASSUME NEW s \in Sems,
              t \in Sleepers(s)' => t \in Sleepers(s),
              t \in Retrying(s) => t \in Retrying(s)'
       PROVE  (Sleepers(s)' # {} => Sleepers(s) # {}) /\ Retrying(s) \subseteq Retrying(s)'
  <2>1. \A u \in Threads : /\ u \in Sleepers(s)' => u \in Sleepers(s)
                           /\ u \in Retrying(s) => u \in Retrying(s)'
    BY <1>1, <1>10, PassiveWait
  <2>2. Sleepers(s)' \subseteq Threads /\ Retrying(s) \subseteq Threads
    BY DEF Sleepers, Retrying, SyncTypeOK, TableTypeOK, KernelTypeOK
  <2> QED BY <2>1, <2>2
<1>11. ASSUME NEW s \in Sems, NEW p \in Threads, Pends(p, s), call'[p] = call[p]
       PROVE  Pending(s)' \/ \E w \in Threads : w \in Retrying(s)' /\ w \notin Retrying(s)
  <2>1. CASE call[p].op = "semstore"
    BY <1>11, <2>1 DEF Pends, Pending
  <2>2. CASE call[p].op = "sempost"
    BY <1>6, <1>11, <2>2 DEF Pends, Pending
  <2> QED BY <1>11, <2>1, <2>2 DEF Pends
<1>12. ASSUME NEW s \in Sems, Pends(t, s) => call'[t] = call[t]
       PROVE  Pending(s) =>
                Pending(s)' \/ \E w \in Threads : w \in Retrying(s)' /\ w \notin Retrying(s)
  BY <1>1, <1>11, <1>12 DEF Pending, Passive
\* A step of t that is not about the semaphore s.
<1>13. ASSUME NEW s \in Sems, value'[s] <= value[s], Pends(t, s) => call'[t] = call[t],
              t \in Sleepers(s)' => t \in Sleepers(s),
              t \in Retrying(s) => t \in Retrying(s)'
       PROVE  TokenInv(s)'
  BY <1>2, <1>3, <1>10, <1>12, <1>13, TokenStep
<1>14. ASSUME UNCHANGED sem PROVE \A s \in Sems : value'[s] <= value[s]
  BY <1>3, <1>14, SMT DEF sem
<1>15. CASE Calm(t)
  <2>1. ASSUME Passive(t) PROVE RouseInv(t)' /\ \A s \in Sems : TokenInv(s)'
    BY <1>7, <1>13, <1>14, <1>15, <2>1, PassiveWait DEF Calm, Passive
  <2>2. ASSUME call[t].op \notin WaitCalls \cup PostCalls, call'[t].op \notin WaitCalls \cup PostCalls
        PROVE  RouseInv(t)' /\ \A s \in Sems : TokenInv(s)'
    <3>1. ASSUME NEW s \in Sems
          PROVE  t \notin Sleepers(s)' /\ t \notin Retrying(s) /\ ~Pends(t, s)
      BY <2>2, SMT DEF Sleepers, Retrying, Pends, WaitCalls, PostCalls
    <3>2. call'[t].op # "sempost"
      BY <2>2 DEF PostCalls
    <3> QED BY <1>8, <1>13, <1>14, <1>15, <3>1, <3>2 DEF Calm
  <2>3. RouseInv(t)' /\ \A s \in Sems : TokenInv(s)'
    BY <1>15, <2>1, <2>2 DEF Calm
  <2> QED BY <1>5, <1>9, <2>3 DEF WakeInv
<1>16. ASSUME RouseInv(t)', \A s \in Sems : TokenInv(s)' PROVE WakeInv'
  BY <1>5, <1>9, <1>16 DEF WakeInv
\* A call that is about s matters to no other semaphore.
<1>17. ASSUME NEW s \in Sems, \A r \in Sems \ {s} : value'[r] = value[r],
              call[t].op \in WaitCalls \cup {"semload", "semstore"} => call[t].on = s,
              call[t].op # "sempost", call'[t].op \in WaitCalls => call'[t].on = s
       PROVE  \A r \in Sems \ {s} : TokenInv(r)'
  <2>1. ASSUME NEW r \in Sems \ {s} PROVE t \notin Sleepers(r)' /\ t \notin Retrying(r) /\ ~Pends(t, r)
    BY <1>17, SMTT(30) DEF Sleepers, Retrying, Pends, WaitCalls
  <2>2. ASSUME NEW r \in Sems \ {s} PROVE value'[r] <= value[r]
    BY <1>3, <1>17, SMT
  <2> QED BY <1>13, <2>1, <2>2
<1>18. ASSUME NEW s \in Sems, value'[s] <= 0 PROVE TokenInv(s)'
  <2>1. Retrying(s)' \in SUBSET Threads
    BY <1>2 DEF SyncTypeOK, TableTypeOK, KernelTypeOK, Retrying
  <2>2. Cardinality(Retrying(s)') \in Nat /\ value'[s] \in Int
    BY <1>2, <2>1, ThreadCards DEF SyncTypeOK, SemTypeOK
  <2> QED BY <1>18, <2>2, SMT DEF TokenInv
<1>19. ASSUME NEW s \in Sems \cap program[t], Takes(t, s) PROVE WakeInv'
  <2>1. /\ \A r \in Sems \ {s} : value'[r] = value[r]
        /\ value'[s] = value[s] - 1 /\ call'[t].op = "none"
    BY <1>3, <1>19, SMT DEF Takes, Take, Idle
  <2>2. /\ call[t].op \in WaitCalls \cup {"semload", "semstore"} => call[t].on = s
        /\ call[t].op \notin PostCalls
    BY <1>19, SMT DEF Takes, Idle, WaitCalls, PostCalls
  <2>3. \A r \in Sems \ {s} : TokenInv(r)'
    BY <1>17, <2>1, <2>2 DEF WaitCalls, PostCalls
  <2>4. t \notin Sleepers(s)' /\ ~Pends(t, s)
    BY <2>1, <2>2, SMT DEF Sleepers, Pends, PostCalls
  <2>5. Sleepers(s)' # {} => Sleepers(s) # {}
    BY <1>1, <2>4, PassiveWait, SMT DEF Sleepers
  <2>6. Retrying(s) \ {t} \subseteq Retrying(s)'
    BY <1>1, PassiveWait DEF Retrying, SyncTypeOK, TableTypeOK, KernelTypeOK
  <2>7. TokenInv(s)'
    BY <1>2, <1>3, <1>12, <2>1, <2>4, <2>5, <2>6, TokenTaken
  <2> QED BY <1>8, <1>16, <2>1, <2>3, <2>7
<1>20. ASSUME NEW s \in Sems \cap program[t], Waits(t, s) \/ TimesOut(t, s) PROVE WakeInv'
  <2>1. \A r \in Sems : value'[r] = value[r]
    BY <1>20 DEF Waits, TimesOut, sem
  <2>2. /\ call[t].op \in WaitCalls \cup {"semload", "semstore"} => call[t].on = s
        /\ call[t].op \notin PostCalls
    BY <1>20, SMT DEF Waits, TimesOut, Idle, WaitCalls, PostCalls
  <2>3. call'[t].op # "sempost" /\ (call'[t].op \in WaitCalls => call'[t].on = s)
    <3>1. ASSUME NEW op \in WaitCalls, call'[t] = [op |-> op, on |-> s]
          PROVE  call'[t].op # "sempost" /\ call'[t].on = s
      BY <3>1, SMT DEF WaitCalls
    <3>2. call'[t] = Idle => call'[t].op \notin WaitCalls \cup {"sempost"}
      BY SMT DEF Idle, WaitCalls
    <3> QED BY <1>20, <3>1, <3>2 DEF Waits, TimesOut
  <2>4. \A r \in Sems \ {s} : TokenInv(r)'
    BY <1>17, <2>1, <2>2, <2>3 DEF WaitCalls, PostCalls
  <2>5. CASE value[s] <= 0
    BY <1>8, <1>16, <1>18, <2>1, <2>3, <2>4, <2>5
  <2>6. CASE ~(value[s] <= 0)
    <3>1. call'[t] = Idle /\ call[t].op = "semtimedwait" /\ unblockType[t] = "SLEEP"
      BY <1>20, <2>6 DEF Waits, TimesOut
    <3>2. t \notin Sleepers(s)' /\ t \notin Retrying(s) /\ ~Pends(t, s)
      BY <3>1, SMT DEF Idle, Sleepers, Retrying, Pends
    <3>3. value'[s] <= value[s]
      BY <1>3, <2>1, SMT
    <3> QED BY <1>8, <1>13, <1>16, <2>3, <2>4, <3>2, <3>3
  <2> QED BY <2>5, <2>6
<1>21. ASSUME NEW s \in Sems \cap program[t], Loads(t, s) PROVE WakeInv'
  <2>1. UNCHANGED value /\ call[t].op = "none" /\ call'[t].op = "semload"
    BY <1>21, SMT DEF Loads, Idle
  <2>2. ASSUME NEW r \in Sems PROVE t \notin Sleepers(r)' /\ t \notin Retrying(r) /\ ~Pends(t, r)
    BY <2>1, SMT DEF Sleepers, Retrying, Pends
  <2>3. ASSUME NEW r \in Sems PROVE value'[r] <= value[r]
    BY <1>3, <2>1, SMT
  <2> QED BY <1>8, <1>13, <1>16, <2>1, <2>2, <2>3
<1>22. ASSUME NEW s \in Sems \cap program[t], Posts(t, s), Acts(t), Stores(t, s) PROVE WakeInv'
  <2>1. /\ call[t].op = "semload" /\ call[t].on = s
        /\ call'[t].op = "semstore" /\ call'[t].on = s
    BY <1>22, SMT DEF Stores
  <2>2. register[t] = value[s]
    BY <1>3, <2>1 DEF PostInv, PostCalls
  <2>3. value'[s] = value[s] + 1 /\ \A r \in Sems \ {s} : value'[r] = value[r]
    BY <1>3, <1>22, <2>2 DEF Stores
  <2>4. \A r \in Sems \ {s} : TokenInv(r)'
    BY <1>17, <2>1, <2>3 DEF WaitCalls
  <2>5. ASSUME NEW p \in Threads, Pends(p, s) PROVE FALSE
    <3>1. p # t /\ call[p].op \in PostCalls
      BY <2>1, <2>5 DEF Pends, PostCalls
    <3>2. Posts(p, s) /\ p \in active
      BY <1>3, <2>5, <3>1 DEF Pends, Posts, CallFits, RouseInv, PostInv, PostCalls
    <3> QED BY <1>22, <3>1, <3>2, OthersWait DEF Acts
  <2>6. ~Pending(s) /\ Pending(s)'
    BY <2>1, <2>5 DEF Pending, Pends
  <2>7. t \notin Sleepers(s)' /\ t \notin Retrying(s)
    BY <2>1, SMT DEF Sleepers, Retrying
  <2>8. (Sleepers(s)' # {} => Sleepers(s) # {}) /\ Retrying(s) \subseteq Retrying(s)'
    BY <1>10, <2>7
  <2>9. Retrying(s) \in SUBSET Threads /\ Retrying(s)' \in SUBSET Threads
    BY <1>2 DEF SyncTypeOK, TableTypeOK, KernelTypeOK, Retrying
  <2>10. /\ Cardinality(Retrying(s)) \in Nat /\ Cardinality(Retrying(s)') \in Nat
         /\ Cardinality(Retrying(s)) <= Cardinality(Retrying(s)')
    BY <2>8, <2>9, ThreadCards
  <2>11. Sleepers(s)' # {} => value[s] <= Cardinality(Retrying(s))
    BY <1>3, <2>6, <2>8, <2>10, SMT DEF TokenInv
  <2>12. Sleepers(s)' # {} => value'[s] <= 1 + Cardinality(Retrying(s)')
    BY <1>3, <2>3, <2>10, <2>11, SMT
  <2>13. TokenInv(s)'
    BY <2>6, <2>12 DEF TokenInv
  <2> QED BY <1>8, <1>16, <2>1, <2>4, <2>13
<1>23. ASSUME NEW s \in Sems \cap program[t], Selects(t, s) PROVE WakeInv'
  <2>1. /\ call[t].op = "semstore" /\ call[t].on = s
        /\ \A r \in Sems : value'[r] = value[r]
    BY <1>23 DEF Selects, sem
  <2>2. ASSUME BlockedOn(s, t) = {}, call'[t] = Idle PROVE WakeInv'
    <3>1. call'[t].op = "none"
      BY <2>2, SMT DEF Idle
    <3>2. \A r \in Sems \ {s} : TokenInv(r)'
      BY <1>17, <2>1, <3>1 DEF WaitCalls
    <3>3. Sleepers(s) = {}
      BY <1>3, <2>1, <2>2, SMT DEF Sleepers, BlockedOn, SemBlockInv, WaitCalls
    <3>4. t \notin Sleepers(s)' /\ t \notin Retrying(s)
      BY <2>1, <3>1, SMTT(30) DEF Sleepers, Retrying
    <3>5. Sleepers(s)' = {}
      BY <1>10, <3>3, <3>4
    <3> QED BY <1>8, <1>16, <3>1, <3>2, <3>5 DEF TokenInv
  <2>3. ASSUME NEW w \in BlockedOn(s, t), call'[t] = [op |-> "sempost", on |-> w], w \notin active'
        PROVE  WakeInv'
    <3>1. call'[t].op = "sempost" /\ call'[t].on = w
      BY <2>3, SMT
    <3>2. /\ w \in Threads \ {t} /\ call[w].op \in WaitCalls /\ call[w].on = s
          /\ call'[w] = call[w]
      BY <1>1, <1>3, <2>3 DEF BlockedOn, SemBlockInv, Passive
    <3>3. RouseInv(t)'
      BY <1>2, <1>23, <3>1, <3>2 DEF RouseInv
    <3>4. \A r \in Sems \ {s} : TokenInv(r)'
      BY <1>17, <2>1, <3>1 DEF WaitCalls
    <3>5. Pending(s)'
      BY <2>3, <3>1, <3>2 DEF Pending, Pends, Retrying
    <3>6. t \notin Sleepers(s)' /\ t \notin Retrying(s)
      BY <2>1, <3>1, SMT DEF Sleepers, Retrying
    <3>7. (Sleepers(s)' # {} => Sleepers(s) # {}) /\ Retrying(s) \subseteq Retrying(s)'
      BY <1>10, <3>6
    <3>8. TokenInv(s)'
      BY <1>2, <1>3, <2>1, <3>5, <3>7, TokenStep, SMTT(30)
    <3> QED BY <1>16, <3>3, <3>4, <3>8
  <2> QED BY <1>23, <2>2, <2>3 DEF Selects
<1>24. ASSUME NEW w \in Threads \ {t}, Rouses(t, w) PROVE WakeInv'
  <2>1. /\ call[t].op = "sempost" /\ call[t].on = w /\ call'[t].op = "none"
        /\ UNCHANGED sem /\ w \in active' /\ unblockType'[w] = "SEMAPHORE"
    BY <1>24, SMT DEF Rouses, Woken, Idle
  <2>2. call[w].op \in WaitCalls /\ call'[w] = call[w]
    BY <1>3, <1>6, <2>1 DEF RouseInv
  <2>3. ASSUME NEW s \in Sems PROVE TokenInv(s)'
    <3>1. t \notin Sleepers(s)' /\ t \notin Retrying(s)
      BY <2>1, SMT DEF Sleepers, Retrying
    <3>2. (Sleepers(s)' # {} => Sleepers(s) # {}) /\ Retrying(s) \subseteq Retrying(s)'
      BY <1>10, <3>1
    <3>3. Pends(t, s) => w \in Retrying(s)' /\ w \notin Retrying(s)
      BY <2>1, <2>2 DEF Pends, Retrying, WaitCalls
    <3>4. Pending(s) => Pending(s)' \/ \E v \in Threads : v \in Retrying(s)' /\ v \notin Retrying(s)
      BY <1>1, <1>11, <3>3 DEF Pending, Passive
    <3> QED BY <1>2, <1>3, <1>14, <2>1, <3>2, <3>4, TokenStep
  <2> QED BY <1>8, <1>16, <2>1, <2>3
<1> QED BY <1>1, <1>15, <1>19, <1>20, <1>21, <1>22, <1>23, <1>24 DEF SemActs

LEMMA InitWake == SyncInit => WakeInv
<1> SUFFICES ASSUME SyncInit PROVE WakeInv
  OBVIOUS
<1>1. \A t \in Threads : call[t] = Idle /\ call[t].op = "none" /\ blockObject[t] = NULL
  BY DEF SyncInit, KernelInit, Idle
<1> QED BY <1>1, ObjectKinds, SMT DEF WakeInv, SemBlockInv, RouseInv, TokenInv, Sleepers,
           WaitCalls

\* While a thread sleeps in sem_wait, every token of its semaphore has a post or a woken thread
\* on the way to it: a post that finds the waiter asleep wakes it although the scan of the table
\* and the service call that wakes are two steps, and neither a signal nor a time limit that
\* ends the chosen thread's sleep in between makes the token one that nobody is told of.
THEOREM PostWakesWaiterHolds == SyncSpec /\ PostersOutrank /\ WaitersNeverPause => []PostWakesWaiter
<1> DEFINE Inv == WaitersNeverPause /\ WakeInv
<1>1. SyncInit /\ WaitersNeverPause => Inv
  BY InitWake
<1>2. SyncTypeOK /\ PostersOutrank /\ PostersInv /\ CountInv /\ Inv /\ [SyncNext]_allVars => Inv'
  <2> SUFFICES ASSUME SyncTypeOK, PostersOutrank, PostersInv, CountInv, Inv, [SyncNext]_allVars
               PROVE  Inv'
    OBVIOUS
  <2>1. UNCHANGED fixed
    BY SyncNextType
  <2>2. WaitersNeverPause'
    BY <2>1 DEF WaitersNeverPause, SemWaits, fixed
  <2> QED BY <2>2, NextWake
<1>3. SyncTypeOK /\ Inv => PostWakesWaiter
  <2> SUFFICES ASSUME SyncTypeOK, Inv, NEW s \in Sems, Sleepers(s) # {}
               PROVE  value[s] <= Cardinality(Posting) + Cardinality(Retrying(s))
    BY DEF PostWakesWaiter
  <2>1. value[s] <= (IF Pending(s) THEN 1 ELSE 0) + Cardinality(Retrying(s)) /\ value[s] \in Int
    BY DEF WakeInv, TokenInv, SyncTypeOK, SemTypeOK
  <2>2. Retrying(s) \in SUBSET Threads /\ Posting \in SUBSET Threads /\ {} \in SUBSET Threads
    BY DEF SyncTypeOK, TableTypeOK, KernelTypeOK, Retrying, Posting
  <2>3. Cardinality(Retrying(s)) \in Nat /\ Cardinality(Posting) \in Nat
    BY <2>2, ThreadCards
  <2>4. Pending(s) => \E p \in Posting : p \notin {}
    BY DEF Pending, Pends, Posting
  <2>5. Cardinality({}) = 0
    BY FS_EmptySet
  <2>6. Pending(s) => 1 <= Cardinality(Posting)
    BY <2>2, <2>4, <2>5, ThreadCards, SMT
  <2> QED BY <2>1, <2>3, <2>6, SMT
<1> QED BY <1>1, <1>2, <1>3, CountInvHolds, PTL DEF SyncSpec

=============================================================================

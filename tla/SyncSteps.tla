----------------------------- MODULE SyncSteps ------------------------------
(***************************************************************************)
(* Theorems about PthreadMutex by itself, and what a step of Sync does, for *)
(* any number of threads, objects and priorities: the types it keeps, what *)
(* it leaves of the threads that do not take it, and what it does to the   *)
(* one that does.  The invariants of SyncProofs are proved from these      *)
(* summaries (StepFrame).                                                  *)
(***************************************************************************)
EXTENDS Sync, WellFoundedInduction, TLAPS

\* Most leaves are first-order: Zenon is the default, and the leaves it does
\* not find say SMT.
USE Zenon

-----------------------------------------------------------------------------
(* The mutexes by themselves                                               *)

\* A thread in pthread_mutex_lock sleeps on the mutex without a time limit, and
\* if it is awake for anything but a signal the mutex is its own.
LockInv ==
  \A t \in Threads : call[t].op = "lock" =>
    /\ t \notin active => blockObject[t] = call[t].on /\ t \notin wake
    /\ t \in active /\ unblockType[t] # "SIGNAL" => owner[call[t].on] = t

\* A thread in a call has named a mutex.
CallInv == \A t \in Threads : call[t] = Idle \/ call[t].on \in Mutexes

\* Only a thread that is sent signals was woken by one.
SignalInv == \A t \in Threads : unblockType[t] = "SIGNAL" => "signal" \in program[t]

-----------------------------------------------------------------------------
(* Helpers                                                                 *)

LEMMA ConstantFacts ==
  /\ NoThread \notin Threads /\ Priorities \subseteq Int
  /\ 0 \in Priorities /\ 0 \in 0..MaxLocks /\ 1 \in 0..MaxLocks
  /\ Ceiling \in [Mutexes -> Priorities] /\ NULL \notin Mutexes
BY KernelAssumption, MutexAssumption, SMT DEF NoThread, Threads, Priorities

\* The programs and base priorities are those of a scenario.
LEMMA ScenarioFacts ==
  ASSUME [program |-> program, base |-> base] \in Scenarios
  PROVE  /\ base \in [Threads -> Priorities]
         /\ \A t \in Threads : "pause" \in program[t] => "signal" \in program[t]
<1> DEFINE s == [program |-> program, base |-> base]
<1>1. s.program = program /\ s.base = base
  OBVIOUS
<1> QED BY <1>1, KernelAssumption

\* A non-empty set of natural numbers has a least element.
LEMMA NatMin ==
  ASSUME NEW T \in SUBSET Nat, T # {}
  PROVE  \E x \in T : \A y \in T : x <= y
<1>1. PICK x \in T : \A y \in T : ~(<<y, x>> \in OpToRel(<, Nat))
  BY NatLessThanWellFounded, WFMin
<1>2. \A y \in T : ~(y < x)
  BY <1>1 DEF OpToRel
<1> QED BY <1>2, SMT

\* scheduler_get_highest_priority_blocked finds a thread if one is blocked.
LEMMA SomeoneIsChosen ==
  ASSUME NEW o, NEW c \in Threads, base \in [Threads -> Priorities], BlockedOn(o, c) # {}
  PROVE  HighestPriorityBlocked(o, c) # {}
<1> DEFINE B == BlockedOn(o, c)
<1>1. B \subseteq Threads
  BY DEF BlockedOn
<1>2. \A w \in B : Highest - base[w] \in Nat
  BY <1>1, KernelAssumption, SMT DEF Priorities
<1>3. PICK h \in B : \A w \in B : base[w] <= base[h]
  <2> DEFINE R == {Highest - base[w] : w \in B}
  <2>1. R \in SUBSET Nat /\ R # {}
    BY <1>2
  <2>2. PICK x \in R : \A y \in R : x <= y
    BY <2>1, NatMin
  <2>3. PICK h \in B : x = Highest - base[h]
    BY <2>2
  <2>4. \A w \in B : Highest - base[h] <= Highest - base[w]
    BY <2>2, <2>3
  <2>5. \A w \in B : base[w] \in Int /\ base[h] \in Int
    BY <1>1, ConstantFacts
  <2>6. \A w \in B : base[w] <= base[h]
    BY <2>4, <2>5, KernelAssumption, SMT
  <2> QED BY <2>6
<1> DEFINE T == {w \in B : base[w] = base[h]}
<1>4. \A w \in B : Distance(c, w) \in Nat
  BY <1>1, KernelAssumption, SMT DEF Distance, Threads
<1>5. PICK w \in T : \A v \in T : Distance(c, w) <= Distance(c, v)
  <2> DEFINE D == {Distance(c, v) : v \in T}
  <2>1. D \in SUBSET Nat /\ D # {}
    BY <1>3, <1>4
  <2>2. PICK x \in D : \A y \in D : x <= y
    BY <2>1, NatMin
  <2> QED BY <2>2
<1>6. \A v \in B : base[v] < base[w] \/ (base[v] = base[w] /\ Distance(c, w) <= Distance(c, v))
  <2>1. \A v \in B : base[v] \in Int /\ base[h] \in Int /\ base[w] = base[h]
    BY <1>1, <1>5, ConstantFacts
  <2>2. \A v \in B : base[v] < base[w] \/ v \in T
    BY <1>3, <2>1, SMT
  <2> QED BY <1>5, <2>1, <2>2
<1> QED BY <1>5, <1>6 DEF HighestPriorityBlocked

\* It finds one at most: two threads of one priority are at different distances.
LEMMA OneIsChosen ==
  ASSUME NEW o, NEW c \in Threads, base \in [Threads -> Priorities],
         NEW v \in HighestPriorityBlocked(o, c), NEW w \in HighestPriorityBlocked(o, c)
  PROVE  v = w
<1>1. v \in BlockedOn(o, c) /\ w \in BlockedOn(o, c)
  BY DEF HighestPriorityBlocked
<1>2. v \in Threads \ {c} /\ w \in Threads \ {c}
  BY <1>1 DEF BlockedOn
<1>3. base[v] \in Int /\ base[w] \in Int
  BY <1>2, ConstantFacts
<1>4. Distance(c, v) \in Int /\ Distance(c, w) \in Int
  BY <1>2, KernelAssumption, SMT DEF Distance, Threads
<1>5. Distance(c, w) <= Distance(c, v) /\ Distance(c, v) <= Distance(c, w)
  BY <1>1, <1>3, SMT DEF HighestPriorityBlocked
<1>6. Distance(c, w) = Distance(c, v)
  BY <1>4, <1>5, SMT
<1> QED BY <1>2, <1>6, KernelAssumption, SMT DEF Distance, Threads

\* What the scheduling functions leave behind, given the tables they read.
LEMMA StoppedType ==
  ASSUME active' \subseteq Threads, priority' \in [Threads -> Priorities], UpdateOnStopped
  PROVE  exec' \subseteq active' /\ curPrio' \in Priorities
BY DEF UpdateOnStopped, Switch

LEMMA WakeType ==
  ASSUME exec \subseteq active, active \subseteq active', curPrio \in Priorities,
         NEW p \in Priorities, UpdateOnWake(p)
  PROVE  exec' \subseteq active' /\ curPrio' \in Priorities
BY DEF UpdateOnWake, Switch, sched

-----------------------------------------------------------------------------
(* The inductive invariant, and the kinds of step                          *)

\* What holds in every reachable state.
IInv ==
  /\ TypeOK
  /\ LockInv /\ CallInv /\ SignalInv
  /\ MutualExclusion /\ LockCount /\ FreeMutexNotWaitedFor

\* Threads are woken by the timer or by a signal.
LEMMA WokenStep ==
  ASSUME IInv, NEW ws \in SUBSET Threads, NEW type \in {"SLEEP", "SIGNAL"},
         NEW p \in Priorities, AssertActive(ws, type), UpdateOnWake(p),
         UNCHANGED <<fixed, priority, call, mutex, holds>>,
         type = "SLEEP" => ws \subseteq wake \ active,
         type = "SIGNAL" => \A t \in ws : "signal" \in program[t]
  PROVE  IInv'
<1>1. /\ active' = active \cup ws /\ wake' = wake \ ws
      /\ \A t \in Threads : /\ unblockType'[t] = IF t \in ws THEN type ELSE unblockType[t]
                            /\ blockObject'[t] = IF t \in ws THEN NULL ELSE blockObject[t]
  BY DEF AssertActive, Put
<1>2. UNCHANGED <<program, base, priority, call, owner, lock, holds>>
  BY DEF fixed, mutex
<1>3. TypeOK'
  <2>1. exec' \subseteq active' /\ curPrio' \in Priorities
    BY <1>1, WakeType DEF IInv, TypeOK, KernelTypeOK
  <2>2. unblockType' \in [Threads -> UnblockTypes]
    BY DEF AssertActive, Put, UnblockTypes, IInv, TypeOK, KernelTypeOK
  <2>3. blockObject' \in [Threads -> Mutexes \cup {NULL}]
    BY DEF AssertActive, Put, IInv, TypeOK, KernelTypeOK
  <2> QED BY <1>1, <1>2, <2>1, <2>2, <2>3 DEF IInv, TypeOK, KernelTypeOK
<1>4. LockInv'
  BY <1>1, <1>2 DEF IInv, LockInv
<1>5. CallInv' /\ SignalInv'
  BY <1>1, <1>2 DEF IInv, CallInv, SignalInv
<1>6. MutualExclusion' /\ LockCount'
  BY <1>2 DEF IInv, MutualExclusion, LockCount
<1>7. FreeMutexNotWaitedFor'
  BY <1>1, <1>2 DEF IInv, FreeMutexNotWaitedFor
<1> QED BY <1>3, <1>4, <1>5, <1>6, <1>7 DEF IInv

\* A thread goes to sleep on a mutex another thread has, or after a signal.
LEMMA BlockStep ==
  ASSUME IInv, NEW t \in exec, NEW m \in Mutexes, NEW isTimed \in BOOLEAN, NEW op \in LockCalls,
         Block(t, m, isTimed), UNCHANGED <<fixed, priority, mutex, holds>>,
         call' = [call EXCEPT ![t] = [op |-> op, on |-> m]],
         op = "lock" => ~isTimed,
         owner[m] # NoThread \/ "signal" \in program[t]
  PROVE  IInv'
<1>1. t \in Threads /\ t \in active
  BY DEF IInv, TypeOK, KernelTypeOK
<1>2. /\ active' = active \ {t} /\ unblockType' = unblockType
      /\ blockObject' = [blockObject EXCEPT ![t] = m]
      /\ wake' = IF isTimed THEN wake \cup {t} ELSE wake \ {t}
      /\ UNCHANGED <<program, base, priority, owner, lock, holds>>
  BY DEF Block, fixed, mutex
<1>3. TypeOK'
  <2>1. exec' \subseteq active' /\ curPrio' \in Priorities
    BY <1>2, StoppedType DEF Block, IInv, TypeOK, KernelTypeOK
  <2>2. call' \in [Threads -> [op : LockCalls \cup {"none"}, on : Mutexes \cup {NULL}]]
    BY DEF IInv, TypeOK
  <2> QED BY <1>1, <1>2, <2>1, <2>2 DEF IInv, TypeOK, KernelTypeOK
<1>4. \A u \in Threads : /\ call'[u] = IF u = t THEN [op |-> op, on |-> m] ELSE call[u]
                         /\ blockObject'[u] = IF u = t THEN m ELSE blockObject[u]
  BY <1>2 DEF IInv, TypeOK, KernelTypeOK
<1>5. LockInv'
  BY <1>1, <1>2, <1>4, SMT DEF IInv, LockInv
<1>6. CallInv' /\ SignalInv'
  BY <1>2, <1>4, SMT DEF IInv, CallInv, SignalInv, Idle
<1>7. MutualExclusion' /\ LockCount'
  BY <1>2 DEF IInv, MutualExclusion, LockCount
<1>8. FreeMutexNotWaitedFor'
  BY <1>1, <1>2, <1>4, SMT DEF IInv, FreeMutexNotWaitedFor
<1> QED BY <1>3, <1>5, <1>6, <1>7, <1>8 DEF IInv

\* The loop of a lock call ends or its time limit has passed: the thread stays
\* awake, with an unblock type that is no signal's.
LEMMA AwakeStep ==
  ASSUME IInv, NEW t \in exec, NEW m \in Mutexes, NEW op \in LockCalls,
         UNCHANGED <<fixed, sched, active, priority, mutex, holds>>,
         unblockType' \in {unblockType, [unblockType EXCEPT ![t] = "MUTEX"],
                           [unblockType EXCEPT ![t] = "SLEEP"]},
         blockObject' \in {blockObject, [blockObject EXCEPT ![t] = m]},
         wake' \in {wake, wake \cup {t}},
         call' = [call EXCEPT ![t] = [op |-> op, on |-> m]],
         op = "lock" => owner[m] = t
  PROVE  IInv'
<1>1. t \in Threads /\ t \in active
  BY DEF IInv, TypeOK, KernelTypeOK
<1>2. UNCHANGED <<program, base, exec, curPrio, active, priority, owner, lock, holds>>
  BY DEF fixed, sched, mutex
<1>3. TypeOK'
  <2>1. call' \in [Threads -> [op : LockCalls \cup {"none"}, on : Mutexes \cup {NULL}]]
    BY DEF IInv, TypeOK
  <2>2. unblockType' \in [Threads -> UnblockTypes]
    BY DEF UnblockTypes, IInv, TypeOK, KernelTypeOK
  <2>3. blockObject' \in [Threads -> Mutexes \cup {NULL}] /\ wake' \subseteq Threads
    BY <1>1, SMT DEF IInv, TypeOK, KernelTypeOK
  <2> QED BY <1>2, <2>1, <2>2, <2>3, SMT DEF IInv, TypeOK, KernelTypeOK
<1>4. \A u \in Threads \ {t} : /\ call'[u] = call[u] /\ blockObject'[u] = blockObject[u]
                               /\ unblockType'[u] = unblockType[u]
                               /\ u \in wake' <=> u \in wake
  BY SMT DEF IInv, TypeOK, KernelTypeOK
<1>5. /\ call'[t] = [op |-> op, on |-> m]
      /\ unblockType'[t] = "SIGNAL" => unblockType[t] = "SIGNAL"
  BY <1>1 DEF IInv, TypeOK, KernelTypeOK
<1>6. LockInv'
  BY <1>1, <1>2, <1>4, <1>5, SMT DEF IInv, LockInv
<1>7. CallInv' /\ SignalInv'
  BY <1>2, <1>4, <1>5, SMT DEF IInv, CallInv, SignalInv
<1>8. MutualExclusion' /\ LockCount'
  BY <1>2 DEF IInv, MutualExclusion, LockCount
<1>9. FreeMutexNotWaitedFor'
  BY <1>1, <1>2, <1>4 DEF IInv, FreeMutexNotWaitedFor
<1> QED BY <1>3, <1>6, <1>7, <1>8, <1>9 DEF IInv

\* pause: the thread sleeps outside of any lock call.
LEMMA SignalWaitStep ==
  ASSUME IInv, NEW t \in Threads, SignalWait(t), UNCHANGED <<call, mutex, holds>>
  PROVE  IInv'
<1>1. /\ t \in exec /\ call[t] = Idle /\ "pause" \in program[t]
      /\ active' = active \ {t} /\ UpdateOnStopped
      /\ UNCHANGED <<program, base, priority, blockObject, unblockType, wake, call,
                     owner, lock, holds>>
  BY DEF SignalWait, Calls, fixed, mutex
<1>2. "signal" \in program[t]
  BY <1>1, ScenarioFacts DEF IInv, TypeOK, KernelTypeOK
<1>3. TypeOK'
  <2>1. exec' \subseteq active' /\ curPrio' \in Priorities
    BY <1>1, StoppedType DEF IInv, TypeOK, KernelTypeOK
  <2> QED BY <1>1, <2>1 DEF IInv, TypeOK, KernelTypeOK
<1>4. call[t].op # "lock"
  BY <1>1, SMT DEF Idle
<1>5. LockInv' /\ CallInv' /\ SignalInv'
  BY <1>1, <1>4, SMT DEF IInv, LockInv, CallInv, SignalInv
<1>6. MutualExclusion' /\ LockCount' /\ FreeMutexNotWaitedFor'
  BY <1>1, <1>2 DEF IInv, MutualExclusion, LockCount, FreeMutexNotWaitedFor
<1> QED BY <1>3, <1>5, <1>6 DEF IInv

\* svcall_mutex_trylock takes a free mutex.
LEMMA TakeFreeStep ==
  ASSUME IInv, NEW t \in exec, NEW m \in Mutexes, TakeFree(t, m), call[t] = Idle,
         holds' = [holds EXCEPT ![t] = @ \cup {m}], Return(t)
  PROVE  IInv'
<1>1. t \in Threads /\ t \in active
  BY DEF IInv, TypeOK, KernelTypeOK
<1>2. /\ owner[m] = NoThread /\ owner' = [owner EXCEPT ![m] = t]
      /\ lock' = [lock EXCEPT ![m] = 1]
      /\ UNCHANGED <<program, base, active, exec, blockObject, unblockType, wake>>
  BY DEF TakeFree, fixed, block
<1>3. call' = call
  <2>1. call' = [call EXCEPT ![t] = call[t]]
    BY DEF Return
  <2> QED BY <1>1, <2>1 DEF IInv, TypeOK
<1>4. TypeOK'
  <2>1. priority' \in [Threads -> Priorities] /\ curPrio' \in Priorities
    <3>1. Ceiling[m] \in Priorities
      BY ConstantFacts
    <3>2. \/ priority' = priority /\ curPrio' = curPrio
          \/ priority' = [priority EXCEPT ![t] = Ceiling[m]] /\ curPrio' = Ceiling[m]
      BY DEF TakeFree
    <3> QED BY <3>1, <3>2 DEF IInv, TypeOK, KernelTypeOK
  <2>2. /\ owner' \in [Mutexes -> Threads \cup {NoThread}] /\ lock' \in [Mutexes -> 0..MaxLocks]
        /\ holds' \in [Threads -> SUBSET Mutexes]
    BY <1>1, <1>2, ConstantFacts DEF IInv, TypeOK
  <2> QED BY <1>2, <1>3, <2>1, <2>2 DEF IInv, TypeOK, KernelTypeOK
<1>5. \A n \in Mutexes : /\ owner'[n] = IF n = m THEN t ELSE owner[n]
                         /\ lock'[n] = IF n = m THEN 1 ELSE lock[n]
  BY <1>2 DEF IInv, TypeOK
<1>6. LockInv'
  BY <1>2, <1>3, <1>5, ConstantFacts, SMT DEF IInv, LockInv, CallInv, Idle
<1>7. CallInv' /\ SignalInv'
  BY <1>2, <1>3 DEF IInv, CallInv, SignalInv
<1>8. MutualExclusion'
  <2>1. \A u \in Threads : holds'[u] \subseteq holds[u] \cup (IF u = t THEN {m} ELSE {})
                           /\ holds[u] \subseteq Mutexes
    BY DEF IInv, TypeOK
  <2> QED BY <1>2, <1>5, <2>1, ConstantFacts, SMT DEF IInv, MutualExclusion
<1>9. LockCount'
  BY <1>1, <1>5, ConstantFacts, SMT DEF IInv, LockCount
<1>10. FreeMutexNotWaitedFor'
  BY <1>1, <1>2, <1>5, ConstantFacts DEF IInv, FreeMutexNotWaitedFor
<1> QED BY <1>4, <1>6, <1>7, <1>8, <1>9, <1>10 DEF IInv

\* A lock call that had to wait returns.
LEMMA LockReturnStep ==
  ASSUME IInv, NEW t \in Threads, LockReturn(t)
  PROVE  IInv'
<1> DEFINE m == call[t].on
<1>1. /\ t \in exec /\ t \in active /\ call[t].op \in LockCalls /\ unblockType[t] # "SIGNAL"
      /\ call' = [call EXCEPT ![t] = Idle]
      /\ UNCHANGED <<program, base, exec, curPrio, active, blockObject, unblockType, wake,
                     priority, owner, lock>>
  BY DEF LockReturn, InCall, Return, kernel, fixed, sched, block, mutex, IInv, TypeOK,
     KernelTypeOK
<1>2. m \in Mutexes
  BY <1>1, SMT DEF IInv, CallInv, Idle, LockCalls
<1>3. \/ holds' = holds
      \/ holds' = [holds EXCEPT ![t] = @ \cup {m}] /\ owner[m] = t
  BY <1>1 DEF LockReturn, IInv, LockInv
<1>4. TypeOK'
  <2>1. call' \in [Threads -> [op : LockCalls \cup {"none"}, on : Mutexes \cup {NULL}]]
    BY <1>1 DEF IInv, TypeOK, Idle
  <2>2. holds' \in [Threads -> SUBSET Mutexes]
    BY <1>2, <1>3, SMT DEF IInv, TypeOK
  <2> QED BY <1>1, <2>1, <2>2 DEF IInv, TypeOK, KernelTypeOK
<1>5. \A u \in Threads : call'[u] = IF u = t THEN Idle ELSE call[u]
  BY <1>1 DEF IInv, TypeOK
<1>6. LockInv' /\ CallInv' /\ SignalInv'
  BY <1>1, <1>5, SMT DEF IInv, LockInv, CallInv, SignalInv, Idle
<1>7. MutualExclusion'
  BY <1>1, <1>3, SMT DEF IInv, TypeOK, MutualExclusion
<1>8. LockCount' /\ FreeMutexNotWaitedFor'
  BY <1>1 DEF IInv, LockCount, FreeMutexNotWaitedFor
<1> QED BY <1>4, <1>6, <1>7, <1>8 DEF IInv

\* A recursive mutex is locked or unlocked once more: only the count changes.
LEMMA CountStep ==
  ASSUME IInv, NEW m \in Mutexes, UNCHANGED <<kernel, call, owner, holds>>,
         m \in Recursive, owner[m] # NoThread, NEW k \in 1..MaxLocks,
         lock' = [lock EXCEPT ![m] = k]
  PROVE  IInv'
<1>1. UNCHANGED <<program, base, exec, curPrio, active, blockObject, unblockType, wake,
                  priority, owner, holds, call>>
  BY DEF kernel, fixed, sched, block
<1>2. \A n \in Mutexes : lock'[n] = IF n = m THEN k ELSE lock[n]
  BY DEF IInv, TypeOK
<1>3. k \in 0..MaxLocks /\ k # 0
  BY SMT
<1>4. TypeOK'
  BY <1>1, <1>3 DEF IInv, TypeOK, KernelTypeOK
<1>5. LockCount'
  BY <1>1, <1>2, <1>3, SMT DEF IInv, LockCount
<1>6. LockInv' /\ CallInv' /\ SignalInv' /\ MutualExclusion' /\ FreeMutexNotWaitedFor'
  BY <1>1, SMT DEF IInv, LockInv, CallInv, SignalInv, MutualExclusion, FreeMutexNotWaitedFor
<1> QED BY <1>4, <1>5, <1>6 DEF IInv

\* pthread_mutex_root_unlock by a thread that owns the mutex and is in no call:
\* the thread chosen, if any, becomes the owner, awake and not by a signal.
LEMMA RootUnlockStep ==
  ASSUME IInv, NEW t \in exec, NEW m \in Mutexes, owner[m] = t, call[t] = Idle,
         RootUnlock(t, m, NULL), holds' = [holds EXCEPT ![t] = @ \ {m}], UNCHANGED call
  PROVE  IInv'
<1> DEFINE ws == HighestPriorityBlocked(m, t)
           new == owner'[m]
<1>1. t \in Threads /\ t \in active /\ base \in [Threads -> Priorities]
  BY ScenarioFacts DEF IInv, TypeOK, KernelTypeOK
<1>2. ws \subseteq BlockedOn(m, t) /\ BlockedOn(m, t) \subseteq Threads \ active
  BY DEF HighestPriorityBlocked, BlockedOn
<1>3. /\ owner' = [owner EXCEPT ![m] = IF ws = {} THEN NoThread ELSE CHOOSE w \in ws : TRUE]
      /\ lock' = [lock EXCEPT ![m] = IF ws = {} THEN 0 ELSE 1]
      /\ active' = active \cup ws /\ wake' = wake \ ws
      /\ UNCHANGED <<program, base, call>>
  BY DEF RootUnlock, HandOver, fixed
<1>4. IF ws = {} THEN new = NoThread ELSE new \in ws
  BY <1>3 DEF IInv, TypeOK
<1>5. \A w \in ws : w = new
  BY <1>1, <1>4, OneIsChosen
<1>6. \A u \in Threads : /\ unblockType'[u] = IF u \in ws THEN "MUTEX" ELSE unblockType[u]
                         /\ blockObject'[u] = IF u = t \/ u \in ws THEN NULL ELSE blockObject[u]
  BY <1>1 DEF RootUnlock, Put
<1>7. \A n \in Mutexes \ {m} : owner'[n] = owner[n] /\ lock'[n] = lock[n]
  BY <1>3 DEF IInv, TypeOK
<1>8. lock'[m] = IF ws = {} THEN 0 ELSE 1
  BY <1>3 DEF IInv, TypeOK
<1>9. TypeOK'
  <2>1. priority' \in [Threads -> Priorities]
    <3>1. Ceiling[m] \in Priorities /\ base[t] \in Priorities
      BY <1>1, ConstantFacts
    <3> QED BY <3>1 DEF RootUnlock, HandOver, IInv, TypeOK, KernelTypeOK
  <2>2. active' \subseteq Threads /\ wake' \subseteq Threads
    BY <1>2, <1>3 DEF IInv, TypeOK, KernelTypeOK
  <2>3. exec' \subseteq active' /\ curPrio' \in Priorities
    <3>1. CASE \E w \in ws : UpdateOnWake(priority'[w])
      BY <1>2, <1>3, <2>1, <3>1, WakeType DEF IInv, TypeOK, KernelTypeOK
    <3>2. CASE UpdateOnStopped
      BY <2>1, <2>2, <3>2, StoppedType
    <3>3. CASE UNCHANGED sched
      BY <1>3, <3>3 DEF sched, IInv, TypeOK, KernelTypeOK
    <3> QED BY <3>1, <3>2, <3>3 DEF RootUnlock
  <2>4. unblockType' \in [Threads -> UnblockTypes]
    BY DEF RootUnlock, Put, UnblockTypes, IInv, TypeOK, KernelTypeOK
  <2>5. blockObject' \in [Threads -> Mutexes \cup {NULL}]
    BY DEF RootUnlock, Put, IInv, TypeOK, KernelTypeOK
  <2>6. new \in Threads \cup {NoThread}
    BY <1>2, <1>4
  <2>7. owner' \in [Mutexes -> Threads \cup {NoThread}]
    BY <1>3, <2>6 DEF IInv, TypeOK
  <2>8. lock' \in [Mutexes -> 0..MaxLocks] /\ holds' \in [Threads -> SUBSET Mutexes]
    BY <1>3, ConstantFacts DEF IInv, TypeOK
  <2> QED BY <1>3, <2>1, <2>2, <2>3, <2>4, <2>5, <2>7, <2>8 DEF IInv, TypeOK, KernelTypeOK
<1>10. LockInv'
  <2> SUFFICES ASSUME NEW u \in Threads, call[u].op = "lock"
               PROVE  /\ u \notin active' => blockObject'[u] = call[u].on /\ u \notin wake'
                      /\ u \in active' /\ unblockType'[u] # "SIGNAL" => owner'[call[u].on] = u
    BY <1>3 DEF LockInv
  <2>1. u # t /\ call[u].on \in Mutexes
    BY SMT DEF IInv, CallInv, Idle
  <2>2. CASE u \in ws
    <3>1. call[u].on = m
      BY <1>2, <2>2 DEF BlockedOn, IInv, LockInv
    <3> QED BY <1>3, <1>5, <2>2, <3>1
  <2>3. CASE u \notin ws
    BY <1>3, <1>6, <1>7, <2>1, <2>3, SMT DEF IInv, LockInv
  <2> QED BY <2>2, <2>3
<1>11. CallInv' /\ SignalInv'
  BY <1>3, <1>6 DEF IInv, CallInv, SignalInv
<1>12. MutualExclusion'
  <2>1. \A u \in Threads : holds'[u] = IF u = t THEN holds[t] \ {m} ELSE holds[u]
    BY <1>1 DEF IInv, TypeOK
  <2>2. \A u \in Threads : m \notin holds'[u] /\ holds'[u] \subseteq holds[u] /\ holds[u] \subseteq Mutexes
    BY <2>1 DEF IInv, MutualExclusion, TypeOK
  <2> QED BY <1>7, <2>2, SMT DEF IInv, MutualExclusion
<1>13. LockCount'
  <2>1. (lock'[m] = 0) <=> (owner'[m] = NoThread)
    BY <1>2, <1>4, <1>8, ConstantFacts, SMT
  <2> QED BY <1>7, <1>8, <2>1, SMT DEF IInv, LockCount
<1>14. FreeMutexNotWaitedFor'
  <2>1. new = NoThread => BlockedOn(m, t) = {}
    BY <1>1, <1>2, <1>4, SomeoneIsChosen, ConstantFacts
  <2>2. \A u \in Threads \ active' : u \in Threads \ active /\ u # t /\ u \notin ws
    BY <1>1, <1>3
  <2>3. \A u \in Threads \ active' : blockObject'[u] = blockObject[u] /\ program'[u] = program[u]
    BY <1>3, <1>6, <2>2
  <2>4. \A u \in Threads \ active' : ~(new = NoThread /\ blockObject[u] = m)
    BY <2>1, <2>2 DEF BlockedOn
  <2> QED BY <1>7, <2>2, <2>3, <2>4, SMT DEF IInv, FreeMutexNotWaitedFor
<1> QED BY <1>9, <1>10, <1>11, <1>12, <1>13, <1>14 DEF IInv

\* The initial state: nobody waits and every mutex is free.
LEMMA InitInv == Init => IInv
<1> SUFFICES ASSUME Init PROVE IInv
  OBVIOUS
<1> USE DEF Init, MutexInit
<1>1. [program |-> program, base |-> base] \in Scenarios
  <2>1. PICK s \in Scenarios : program = s.program /\ base = s.base
    BY DEF KernelInit
  <2> QED BY <2>1, KernelAssumption
<1>2. KernelTypeOK(Mutexes)
  BY <1>1, ScenarioFacts DEF KernelInit, KernelTypeOK, UnblockTypes
<1>3. TypeOK
  BY <1>2, ConstantFacts DEF TypeOK, KernelInit, Idle
<1>4. \A t \in Threads : call[t] = Idle /\ unblockType[t] = "NONE" /\ t \in active
  BY DEF KernelInit
<1>5. LockInv /\ CallInv /\ SignalInv /\ FreeMutexNotWaitedFor
  BY <1>4, SMT DEF LockInv, CallInv, SignalInv, FreeMutexNotWaitedFor, Idle
<1>6. MutualExclusion /\ LockCount
  BY SMT DEF MutualExclusion, LockCount
<1> QED BY <1>3, <1>5, <1>6 DEF IInv

\* Every step of the threads, of the timer and of a signal keeps the invariant.
LEMMA NextInv == IInv /\ [Next]_vars => IInv'
<1> SUFFICES ASSUME IInv, [Next]_vars PROVE IInv'
  OBVIOUS
<1>1. ASSUME NEW ws \in SUBSET Threads, TimerMatch(ws), UNCHANGED <<call, mutex, holds>>
      PROVE  IInv'
  BY <1>1, WokenStep DEF TimerMatch
<1>2. ASSUME NEW t \in Threads, Signal(t), UNCHANGED <<call, mutex, holds>>
      PROVE  IInv'
  <2>1. priority[t] \in Priorities /\ {t} \in SUBSET Threads
    BY DEF IInv, TypeOK, KernelTypeOK
  <2> QED BY <1>2, <2>1, WokenStep DEF Signal
<1>3. ASSUME NEW t \in Threads, SignalWait(t), UNCHANGED <<call, mutex, holds>>
      PROVE  IInv'
  BY <1>3, SignalWaitStep
<1>10. ASSUME RoundEnd, UNCHANGED <<call, mutex, holds>>
       PROVE  IInv'
  <2>1. /\ exec' \subseteq active'
        /\ UNCHANGED <<program, base, curPrio, active, blockObject, unblockType, wake,
                       priority, owner, lock, holds, call>>
    BY <1>10 DEF RoundEnd, fixed, block, mutex
  <2> QED BY <2>1 DEF IInv, TypeOK, KernelTypeOK, LockInv, CallInv, SignalInv, MutualExclusion,
                      LockCount, FreeMutexNotWaitedFor
<1>4. ASSUME NEW t \in Threads, NEW m \in Mutexes, Unlock(t, m)
      PROVE  IInv'
  <2>1. t \in exec /\ call[t] = Idle /\ owner[m] = t
    BY <1>4 DEF Unlock, Calls
  <2>2. CASE m \in Recursive /\ lock[m] > 1
    <3>1. lock[m] - 1 \in 1..MaxLocks
      BY <2>2, MutexAssumption, SMT DEF IInv, TypeOK
    <3>2. UNCHANGED <<kernel, call, owner, holds>> /\ lock' = [lock EXCEPT ![m] = lock[m] - 1]
      BY <1>4, <2>2 DEF Unlock
    <3> QED BY <2>1, <2>2, <3>1, <3>2, CountStep, ConstantFacts
  <2>3. CASE ~(m \in Recursive /\ lock[m] > 1)
    BY <1>4, <2>1, <2>3, RootUnlockStep DEF Unlock
  <2> QED BY <2>2, <2>3
<1>5. ASSUME NEW t \in Threads, NEW m \in Mutexes, LockAgain(t, m)
      PROVE  IInv'
  <2>1. lock[m] + 1 \in 1..MaxLocks
    BY <1>5, MutexAssumption, SMT DEF LockAgain, IInv, TypeOK
  <2>2. /\ UNCHANGED <<kernel, call, owner, holds>> /\ lock' = [lock EXCEPT ![m] = lock[m] + 1]
        /\ m \in Recursive /\ owner[m] # NoThread
    BY <1>5, ConstantFacts DEF LockAgain
  <2> QED BY <2>1, <2>2, CountStep
<1>6. ASSUME NEW t \in Threads, NEW m \in Mutexes, NEW op \in LockCalls, Lock(t, m, op)
      PROVE  IInv'
  <2>1. t \in exec /\ call[t] = Idle
    BY <1>6 DEF Lock, Calls
  <2>2. CASE TakeFree(t, m) /\ holds' = [holds EXCEPT ![t] = @ \cup {m}] /\ Return(t)
    BY <2>1, <2>2, TakeFreeStep
  <2>3. ASSUME owner[m] # NoThread, Enter(t, op, m), UNCHANGED holds,
               IF op = "trylock" THEN UNCHANGED <<kernel, mutex>>
                                 ELSE MutexBlock(t, m, op = "timedlock")
        PROVE  IInv'
    <3>1. call' = [call EXCEPT ![t] = [op |-> op, on |-> m]]
      BY <2>3 DEF Enter
    <3>2. CASE op = "trylock"
      <4>1. UNCHANGED <<fixed, sched, active, priority, mutex, holds, unblockType, blockObject, wake>>
        BY <2>3, <3>2 DEF kernel, block
      <4> QED BY <2>1, <3>1, <3>2, <4>1, AwakeStep
    <3>3. CASE op # "trylock" /\ Block(t, m, op = "timedlock")
      <4>1. UNCHANGED <<fixed, priority, mutex, holds>>
        BY <2>3, <3>3 DEF MutexBlock
      <4> QED BY <2>1, <2>3, <3>1, <3>3, <4>1, BlockStep
    <3>4. CASE op = "timedlock" /\ BlockExpired(t, m) /\ UNCHANGED unblockType
      <4>1. UNCHANGED <<fixed, sched, active, priority, mutex, holds, unblockType>>
        BY <2>3, <3>4 DEF MutexBlock, BlockExpired
      <4>2. /\ blockObject' \in {blockObject, [blockObject EXCEPT ![t] = m]}
            /\ wake' \in {wake, wake \cup {t}}
        BY <3>4 DEF BlockExpired
      <4> QED BY <2>1, <3>1, <3>4, <4>1, <4>2, AwakeStep
    <3> QED BY <2>3, <3>2, <3>3, <3>4 DEF MutexBlock
  <2> QED BY <1>6, <2>2, <2>3 DEF Lock, MutexTrylock
<1>7. ASSUME NEW t \in Threads, LockLoop(t)
      PROVE  IInv'
  <2> DEFINE m == call[t].on
             op == call[t].op
  <2>1. t \in exec /\ op \in LockCalls /\ unblockType[t] = "SIGNAL" /\ UNCHANGED <<call, holds>>
    BY <1>7 DEF LockLoop, InCall
  <2>2. m \in Mutexes /\ "signal" \in program[t]
    BY <2>1, SMT DEF IInv, CallInv, SignalInv, Idle, LockCalls
  <2>3. call' = [call EXCEPT ![t] = [op |-> op, on |-> m]]
    BY <2>1 DEF IInv, TypeOK
  <2>4. MutexUnblocked(t, m, op = "timedlock")
    BY <1>7 DEF LockLoop
  <2>5. CASE owner[m] = t
    <3>1. /\ UNCHANGED <<fixed, sched, active, priority, mutex, holds, blockObject, wake>>
          /\ unblockType' = [unblockType EXCEPT ![t] = "MUTEX"]
      BY <2>1, <2>4, <2>5 DEF MutexUnblocked
    <3> QED BY <2>1, <2>2, <2>3, <2>5, <3>1, AwakeStep
  <2>6. CASE owner[m] # t /\ Block(t, m, op = "timedlock")
    <3>1. UNCHANGED <<fixed, priority, mutex, holds>>
      BY <2>1, <2>4, <2>6 DEF MutexUnblocked
    <3> QED BY <2>1, <2>2, <2>3, <2>6, <3>1, BlockStep
  <2>7. CASE owner[m] # t /\ ~Block(t, m, op = "timedlock")
    <3>1. op = "timedlock" /\ BlockExpired(t, m) /\ unblockType' = [unblockType EXCEPT ![t] = "SLEEP"]
      BY <2>4, <2>7 DEF MutexUnblocked
    <3>2. UNCHANGED <<fixed, sched, active, priority, mutex, holds>>
      BY <2>1, <2>4, <2>7, <3>1 DEF MutexUnblocked, BlockExpired
    <3>3. /\ blockObject' \in {blockObject, [blockObject EXCEPT ![t] = m]}
          /\ wake' \in {wake, wake \cup {t}}
      BY <3>1 DEF BlockExpired
    <3> QED BY <2>1, <2>2, <2>3, <3>1, <3>2, <3>3, AwakeStep
  <2> QED BY <2>5, <2>6, <2>7
<1>8. ASSUME NEW t \in Threads, LockReturn(t)
      PROVE  IInv'
  BY <1>8, LockReturnStep
<1>9. CASE UNCHANGED vars
  <2>1. UNCHANGED <<program, base, exec, curPrio, active, blockObject, unblockType, wake,
                    priority, owner, lock, holds, call>>
    BY <1>9 DEF vars, kernel, fixed, sched, block, mutex
  <2> QED BY <2>1 DEF IInv, TypeOK, KernelTypeOK, LockInv, CallInv, SignalInv, MutualExclusion,
                      LockCount, FreeMutexNotWaitedFor
<1> QED
  BY <1>1, <1>2, <1>3, <1>4, <1>5, <1>6, <1>7, <1>8, <1>9, <1>10
     DEF Next, KernelStep, MutexStep

\* The inductive invariant holds in every run.
THEOREM InvariantHolds == Spec => []IInv
BY InitInv, NextInv, PTL DEF Spec

\* The task table, the mutexes and the calls keep their types.
THEOREM MutexTypeCorrect == Spec => []TypeOK
<1>1. IInv => TypeOK
  BY DEF IInv
<1> QED BY <1>1, InvariantHolds, PTL

\* Whatever signals, time outs and hand-overs do to the lock calls of any number
\* of threads, one that was told it has a mutex is its owner.
THEOREM MutualExclusionHolds == Spec => []MutualExclusion
<1>1. IInv => MutualExclusion
  BY DEF IInv
<1> QED BY <1>1, InvariantHolds, PTL

\* The count of a mutex is 0 exactly while it is free, and above 1 only for a
\* recursive mutex, through every hand-over.
THEOREM LockCountHolds == Spec => []LockCount
<1>1. IInv => LockCount
  BY DEF IInv
<1> QED BY <1>1, InvariantHolds, PTL

\* No thread that is sent no signals is left asleep on a free mutex: no wake-up
\* of pthread_mutex_root_unlock is lost.
THEOREM NoLostHandOver == Spec => []FreeMutexNotWaitedFor
<1>1. IInv => FreeMutexNotWaitedFor
  BY DEF IInv
<1> QED BY <1>1, InvariantHolds, PTL

-----------------------------------------------------------------------------
(* The mutexes as the program sees them: atomic locks                      *)

\* The thread that was told it has a mutex is its holder, and there is no other.
HolderInv ==
  \A m \in Mutexes : /\ \A t \in Threads : m \in holds[t] <=> Holder(m) = t
                     /\ Holder(m) \in {NoThread, owner[m]}

LEMMA HolderIsToldThread == MutualExclusion => HolderInv
<1> SUFFICES ASSUME MutualExclusion, NEW m \in Mutexes
             PROVE  /\ \A t \in Threads : m \in holds[t] <=> Holder(m) = t
                    /\ Holder(m) \in {NoThread, owner[m]}
  BY DEF HolderInv
<1>1. \A t \in Threads : m \in holds[t] => owner[m] = t
  BY DEF MutualExclusion
<1>2. CASE \E t \in Threads : m \in holds[t]
  <2>1. Holder(m) \in Threads /\ m \in holds[Holder(m)]
    BY <1>2 DEF Holder
  <2> QED BY <1>1, <2>1
<1>3. CASE ~\E t \in Threads : m \in holds[t]
  BY <1>3, ConstantFacts DEF Holder
<1> QED BY <1>2, <1>3

\* Every step leaves what the threads were told alone, tells a thread that it has a mutex
\* which is free or was handed over to it, or is an unlock by the owner.
IsTold(t, m) == owner[m] \in {NoThread, t} /\ holds'[t] = holds[t] \cup {m}
GivesUp(t, m) == owner[m] = t /\ holds'[t] = holds[t] \ {m}

TellsOne ==
  \/ \A u \in Threads : holds'[u] = holds[u]
  \/ \E t \in Threads, m \in Mutexes :
       (\A u \in Threads \ {t} : holds'[u] = holds[u]) /\ (IsTold(t, m) \/ GivesUp(t, m))

LEMMA HoldsStep ==
  ASSUME IInv, [Next]_vars
  PROVE  TellsOne
<1> DEFINE Goal == \/ holds' = holds
                   \/ \E t \in Threads, m \in Mutexes :
                        \/ owner[m] \in {NoThread, t} /\ holds' = [holds EXCEPT ![t] = @ \cup {m}]
                        \/ owner[m] = t /\ holds' = [holds EXCEPT ![t] = @ \ {m}]
<1>1. ASSUME NEW t \in Threads, NEW m \in Mutexes, Unlock(t, m) PROVE Goal
  BY <1>1 DEF Unlock
<1>2. ASSUME NEW t \in Threads, NEW m \in Mutexes, NEW op \in LockCalls, Lock(t, m, op) PROVE Goal
  BY <1>2 DEF Lock, MutexTrylock, TakeFree
<1>3. ASSUME NEW t \in Threads, LockReturn(t) PROVE Goal
  <2>1. /\ t \in active /\ call[t].op \in LockCalls /\ unblockType[t] # "SIGNAL"
    BY <1>3 DEF LockReturn, InCall, IInv, TypeOK, KernelTypeOK
  <2>2. call[t].on \in Mutexes
    BY <2>1, SMT DEF IInv, CallInv, Idle, LockCalls
  <2>3. \/ holds' = holds
        \/ holds' = [holds EXCEPT ![t] = @ \cup {call[t].on}] /\ owner[call[t].on] = t
    BY <1>3, <2>1 DEF LockReturn, IInv, LockInv
  <2> QED BY <2>2, <2>3
<1>4. ASSUME NEW t \in Threads, LockLoop(t) PROVE Goal
  BY <1>4 DEF LockLoop
<1>5. ASSUME NEW t \in Threads, NEW m \in Mutexes, LockAgain(t, m) PROVE Goal
  BY <1>5 DEF LockAgain
<1>6. ASSUME KernelStep /\ UNCHANGED <<mutex, holds>> PROVE Goal
  BY <1>6
<1>7. ASSUME UNCHANGED vars PROVE Goal
  BY <1>7 DEF vars
<1>8. Goal
  BY <1>1, <1>2, <1>3, <1>4, <1>5, <1>6, <1>7 DEF Next, MutexStep
<1>9. holds \in [Threads -> SUBSET Mutexes]
  BY DEF IInv, TypeOK
<1> QED BY <1>8, <1>9 DEF TellsOne, IsTold, GivesUp

\* Each of these is an acquisition or a release of the abstract lock, or nothing at all.
LEMMA PromiseStep ==
  ASSUME MutualExclusion, MutualExclusion', TellsOne
  PROVE  [Promise!Next]_([m \in Mutexes |-> Holder(m)])
<1> DEFINE has == [m \in Mutexes |-> Holder(m)]
<1>1. HolderInv
  BY HolderIsToldThread
<1>2. HolderInv'
  BY HolderIsToldThread, PTL
<1>3. ASSUME NEW n \in Mutexes, \A u \in Threads : n \in holds'[u] <=> n \in holds[u]
      PROVE  Holder(n)' = Holder(n)
  BY <1>3 DEF Holder
<1>4. CASE \A u \in Threads : holds'[u] = holds[u]
  BY <1>3, <1>4
<1>5. ASSUME NEW t \in Threads, NEW m \in Mutexes, \A u \in Threads \ {t} : holds'[u] = holds[u],
             IsTold(t, m)
      PROVE  has' = has \/ Promise!Acquire(t, m)
  <2>1. \A n \in Mutexes \ {m} : \A u \in Threads : n \in holds'[u] <=> n \in holds[u]
    BY <1>5 DEF IsTold
  <2>2. \A n \in Mutexes \ {m} : Holder(n)' = Holder(n)
    BY <1>3, <2>1
  <2>3. m \in holds'[t]
    BY <1>5 DEF IsTold
  <2>4. Holder(m)' = t
    BY <1>2, <2>3 DEF HolderInv
  <2>5. Holder(m) \in {NoThread, t}
    BY <1>1, <1>5 DEF HolderInv, IsTold
  <2>6. has' = [has EXCEPT ![m] = t]
    BY <2>2, <2>4
  <2>7. CASE Holder(m) = t
    BY <2>2, <2>4, <2>7
  <2>8. CASE Holder(m) = NoThread
    BY <2>6, <2>8 DEF Promise!Acquire
  <2> QED BY <2>5, <2>7, <2>8
<1>6. ASSUME NEW t \in Threads, NEW m \in Mutexes, \A u \in Threads \ {t} : holds'[u] = holds[u],
             GivesUp(t, m)
      PROVE  has' = has \/ Promise!Release(t, m)
  <2>1. \A n \in Mutexes \ {m} : \A u \in Threads : n \in holds'[u] <=> n \in holds[u]
    BY <1>6 DEF GivesUp
  <2>2. \A n \in Mutexes \ {m} : Holder(n)' = Holder(n)
    BY <1>3, <2>1
  <2>3. \A u \in Threads : m \in holds[u] => u = t
    BY <1>6 DEF GivesUp, MutualExclusion
  <2>4. \A u \in Threads : m \notin holds'[u]
    BY <1>6, <2>3 DEF GivesUp
  <2>5. Holder(m)' = NoThread
    BY <2>4 DEF Holder
  <2>6. Holder(m) \in {NoThread, t}
    BY <1>1, <1>6 DEF HolderInv, GivesUp
  <2>7. has' = [has EXCEPT ![m] = NoThread]
    BY <2>2, <2>5
  <2>8. CASE Holder(m) = NoThread
    BY <2>2, <2>5, <2>8
  <2>9. CASE Holder(m) = t
    BY <2>7, <2>9 DEF Promise!Release
  <2> QED BY <2>6, <2>8, <2>9
<1> QED BY <1>4, <1>5, <1>6 DEF TellsOne, Promise!Next

\* PthreadMutex implements AbstractLock: for any number of threads and mutexes, any signals
\* and time limits, the calls of pthread_mutex.c make atomic locks.
THEOREM MutexesAreLocks == Spec => ImplementsLock
<1>1. Init => Promise!Init
  BY DEF Init, MutexInit, Promise!Init, Holder
<1>2. IInv /\ IInv' /\ [Next]_vars => [Promise!Next]_([m \in Mutexes |-> Holder(m)])
  <2>1. IInv => MutualExclusion
    BY DEF IInv
  <2>2. IInv' => MutualExclusion'
    BY <2>1, PTL
  <2> QED BY <2>1, <2>2, HoldsStep, PromiseStep
<1> QED BY <1>1, <1>2, InvariantHolds, PTL DEF Spec, ImplementsLock, Promise!Spec

-----------------------------------------------------------------------------
(* Types of Sync                                                           *)

\* What a thread can be blocked on.
CondWaits(t) == program[t] \cap {"condwait", "condtimedwait"} # {}
SemWaits(t) == program[t] \cap {"semwait", "semtimedwait"} # {}

BlockObjects(t) ==
  {o \in (Mutexes \cup Conds \cup Sems) \cap program[t] :
     (o \in Conds => CondWaits(t)) /\ (o \in Sems => SemWaits(t))}
  \cup {Args(t)}
AllObjects == Mutexes \cup Conds \cup Sems \cup {Args(t) : t \in Threads}

TableTypeOK ==
  /\ KernelTypeOK(AllObjects)
  /\ \A t \in Threads : blockObject[t] \in BlockObjects(t) \cup {NULL}

\* A thread uses the objects of its program only.
MutexTypeOK ==
  /\ owner \in [Mutexes -> Threads \cup {NoThread}]
  /\ lock \in [Mutexes -> 0..MaxLocks]
  /\ holds \in [Threads -> SUBSET Mutexes]
  /\ \A m \in Mutexes : owner[m] # NoThread => m \in program[owner[m]]
  /\ \A t \in Threads : holds[t] \subseteq program[t]

SemTypeOK ==
  value \in [Sems -> Int] /\ tokens \in [Sems -> Int] /\ register \in [Threads -> Int]

\* A request in progress was started by a thread that uses it.
AioTypeOK ==
  /\ tid \in [Requests -> Threads \cup {NoThread}]
  /\ driver \subseteq Requests
  /\ \A a \in driver : tid[a] \in Threads /\ a \in program[tid[a]]
  /\ list \in [Threads -> SUBSET Requests]
  /\ \A t \in Threads : list[t] \subseteq program[t]
  /\ onAll \subseteq Threads /\ suspended \subseteq Threads

\* What a call of t in progress is about.
CallOps ==
  LockCalls \cup {"none", "relock", "condsignal", "semwait", "semtimedwait", "semload", "semstore",
                  "sempost", "listio", "aiosuspend"}
Subjects == Mutexes \cup Sems \cup Threads \cup (SUBSET Requests) \cup {NULL}

CallFits(t, op, o) ==
  /\ op \in CallOps /\ o \in Subjects
  /\ op \in LockCalls \cup {"relock"} => o \in Mutexes \cap program[t]
  /\ op \in {"semwait", "semtimedwait", "semload", "semstore"} => o \in Sems \cap program[t]
  /\ op \in {"condsignal", "sempost"} => o \in Threads \ {t}
  /\ op = "relock" => CondWaits(t)
  /\ op = "condsignal" => "condsignal" \in program[t] /\ program[t] \cap Conds # {}
  /\ op \in {"semwait", "semtimedwait"} => SemWaits(t)
  /\ op \in {"semload", "semstore", "sempost"} => "sempost" \in program[t]
  /\ op = "condsignal" => CondWaits(o)
  /\ op = "sempost" => SemWaits(o)
  /\ op = "listio" => o \subseteq Requests \cap program[t]
  /\ op \in {"listio", "aiosuspend"} => program[t] \cap {"listio", "aiosuspend"} # {}

CallTypeOK ==
  /\ call \in [Threads -> [op : CallOps, on : Subjects]]
  /\ \A t \in Threads : CallFits(t, call[t].op, call[t].on)

SyncTypeOK == TableTypeOK /\ MutexTypeOK /\ SemTypeOK /\ AioTypeOK /\ CallTypeOK

-----------------------------------------------------------------------------
(* What a step does to the threads that do not take it                     *)

Untouched(u) ==
  /\ u \in active' <=> u \in active
  /\ u \in wake' <=> u \in wake
  /\ blockObject'[u] = blockObject[u] /\ unblockType'[u] = unblockType[u]

\* scheduler_root_assert_active
Woken(u, type) ==
  /\ u \in active' /\ u \notin wake'
  /\ blockObject'[u] = NULL /\ unblockType'[u] = type

\* pthread_cond_broadcast by t of what u is blocked on.
Broadcasts(t, u) ==
  /\ t # u /\ call[t] = Idle /\ blockObject[u] \in program[t]
  /\ "locked" \in program[t] => holds[t] # {}

\* The service call that ends op of t, which has chosen u.
WakesChosen(t, op, u) == t \in exec /\ call[t] = [op |-> op, on |-> u] /\ call'[t] = Idle

\* Who may wake u: the timer, a signal, the hand-over of a mutex, a condition that u waits
\* for or a signaller that has chosen u, a post that has chosen u, a callback.
Reason(u, type) ==
  \/ type = "SLEEP" /\ u \in wake \ active
  \/ type = "SIGNAL" /\ program[u] \cap {"signal", "sigevent"} # {}
  \/ type = "MUTEX" /\ u \notin active /\ blockObject[u] \in Mutexes /\ owner'[blockObject[u]] = u
  \/ type = "COND" /\ u \notin active /\ blockObject[u] \in Conds /\ \E t \in exec : Broadcasts(t, u)
  \/ type = "COND" /\ \E t \in Threads : WakesChosen(t, "condsignal", u)
  \/ type = "SEMAPHORE" /\ \E t \in Threads : WakesChosen(t, "sempost", u)
  \/ type = "AIO" /\ u \in suspended /\ (call[u].op = "aiosuspend" => Finished(u, driver)')

\* u is left alone or woken.
Left(u) ==
  Untouched(u) \/ \E type \in UnblockTypes : Woken(u, type) /\ Reason(u, type)

\* Of the requests u waits for none begins, and they do not end the wait unless u is woken, if
\* they are no other thread's.
Served(u) ==
  (\A v \in Threads \ {u} : program[u] \cap program[v] \cap Requests = {}) =>
    /\ list[u] \cap driver' \subseteq driver
    /\ u \in suspended \ active' /\ call[u].op = "aiosuspend" /\ ~Finished(u, driver)
         => ~Finished(u, driver)'

\* u takes no step; if it is woken its flag is cleared.
Passive(u) ==
  /\ call'[u] = call[u] /\ holds'[u] = holds[u] /\ register'[u] = register[u]
  /\ list'[u] = list[u] /\ (u \in onAll' <=> u \in onAll)
  /\ u \in suspended' => u \in suspended /\ (u \in active' => u \in active)
  /\ u \in suspended \ active' => u \in suspended'
  /\ Left(u) /\ Served(u)

LEMMA WakeTable ==
  ASSUME TableTypeOK, NEW ws \in SUBSET Threads, NEW type \in UnblockTypes, AssertActive(ws, type),
         UNCHANGED <<fixed, priority>>, NEW p \in Priorities \cup {-1}, UpdateOnWake(p)
  PROVE  /\ TableTypeOK'
         /\ \A u \in Threads : IF u \in ws THEN Woken(u, type) ELSE Untouched(u)
<1>1. /\ active' = active \cup ws /\ wake' = wake \ ws
      /\ unblockType' \in [Threads -> UnblockTypes]
      /\ blockObject' \in [Threads -> AllObjects \cup {NULL}]
  BY DEF AssertActive, Put, TableTypeOK, KernelTypeOK
<1>2. \A t \in Threads : /\ unblockType'[t] = IF t \in ws THEN type ELSE unblockType[t]
                         /\ blockObject'[t] = IF t \in ws THEN NULL ELSE blockObject[t]
  BY DEF AssertActive, Put
<1>3. exec' \subseteq active' /\ curPrio' \in Priorities
  <2>1. CASE p \in Priorities
    BY <1>1, <2>1, WakeType DEF TableTypeOK, KernelTypeOK
  <2>2. CASE p = -1
    <3>1. p < curPrio
      BY <2>2, SMT DEF TableTypeOK, KernelTypeOK, Priorities
    <3> QED BY <1>1, <3>1 DEF UpdateOnWake, sched, TableTypeOK, KernelTypeOK
  <2> QED BY <2>1, <2>2
<1>4. UNCHANGED <<program, base, priority>>
  BY DEF fixed
<1>5. KernelTypeOK(AllObjects)'
  BY <1>1, <1>3, <1>4 DEF KernelTypeOK, TableTypeOK
<1>6. \A t \in Threads : blockObject'[t] \in BlockObjects(t)' \cup {NULL}
  BY <1>2, <1>4 DEF TableTypeOK, BlockObjects, CondWaits, SemWaits
<1> QED BY <1>1, <1>2, <1>5, <1>6 DEF TableTypeOK, Woken, Untouched

LEMMA BlockTable ==
  ASSUME TableTypeOK, NEW t \in exec, NEW o \in BlockObjects(t), NEW isTimed \in BOOLEAN,
         Block(t, o, isTimed), UNCHANGED <<fixed, priority>>
  PROVE  /\ TableTypeOK' /\ t \in Threads /\ t \notin active'
         /\ blockObject'[t] = o /\ unblockType'[t] = unblockType[t]
         /\ isTimed \/ t \notin wake'
         /\ \A u \in Threads \ {t} : Untouched(u)
<1>1. t \in Threads /\ t \in active /\ o \in AllObjects
  BY DEF TableTypeOK, KernelTypeOK, BlockObjects, CondWaits, SemWaits, AllObjects
<1>2. /\ active' = active \ {t} /\ unblockType' = unblockType
      /\ blockObject' = [blockObject EXCEPT ![t] = o]
      /\ wake' = IF isTimed THEN wake \cup {t} ELSE wake \ {t}
      /\ UNCHANGED <<program, base, priority>>
  BY DEF Block, fixed
<1>3. exec' \subseteq active' /\ curPrio' \in Priorities
  BY <1>2, StoppedType DEF Block, TableTypeOK, KernelTypeOK
<1>4. \A u \in Threads : blockObject'[u] = IF u = t THEN o ELSE blockObject[u]
  BY <1>2 DEF TableTypeOK, KernelTypeOK
<1>5. KernelTypeOK(AllObjects)'
  BY <1>1, <1>2, <1>3 DEF KernelTypeOK, TableTypeOK
<1>6. \A u \in Threads : blockObject'[u] \in BlockObjects(u)' \cup {NULL}
  BY <1>2, <1>4 DEF TableTypeOK, BlockObjects, CondWaits, SemWaits
<1> QED BY <1>1, <1>2, <1>4, <1>5, <1>6 DEF TableTypeOK, Untouched

\* A time limit that has passed: only the block object and the wake time of t may change.
LEMMA ExpiredTable ==
  ASSUME TableTypeOK, NEW t \in exec, NEW o \in BlockObjects(t), BlockExpired(t, o),
         unblockType' \in [Threads -> UnblockTypes],
         \A u \in Threads \ {t} : unblockType'[u] = unblockType[u],
         UNCHANGED <<fixed, priority>>
  PROVE  /\ TableTypeOK' /\ t \in Threads /\ t \in active' /\ blockObject'[t] = o
         /\ \A u \in Threads \ {t} : Untouched(u)
<1>1. t \in Threads /\ t \in active /\ o \in AllObjects
  BY DEF TableTypeOK, KernelTypeOK, BlockObjects, CondWaits, SemWaits, AllObjects
<1>2. /\ blockObject' = [blockObject EXCEPT ![t] = o]
      /\ wake' \in {wake, wake \cup {t}}
      /\ UNCHANGED <<program, base, priority, active, exec, curPrio>>
  BY DEF BlockExpired, fixed, sched
<1>4. \A u \in Threads : blockObject'[u] = IF u = t THEN o ELSE blockObject[u]
  BY <1>2 DEF TableTypeOK, KernelTypeOK
<1>5. KernelTypeOK(AllObjects)'
  BY <1>1, <1>2 DEF KernelTypeOK, TableTypeOK
<1>6. \A u \in Threads : blockObject'[u] \in BlockObjects(u)' \cup {NULL}
  BY <1>2, <1>4 DEF TableTypeOK, BlockObjects, CondWaits, SemWaits
<1> QED BY <1>1, <1>2, <1>4, <1>5, <1>6 DEF TableTypeOK, Untouched

\* A step that leaves the tables alone.
LEMMA SameTable ==
  ASSUME TableTypeOK, UNCHANGED kernel
  PROVE  TableTypeOK' /\ \A u \in Threads : Untouched(u)
<1>1. UNCHANGED <<program, base, exec, curPrio, active, blockObject, unblockType, wake, priority>>
  BY DEF kernel, fixed, sched, block
<1> QED BY <1>1 DEF TableTypeOK, KernelTypeOK, BlockObjects, CondWaits, SemWaits, Untouched

\* t gives m up: to a thread that is blocked on it, which is woken, or to nobody if there is
\* none.
Handed(t, m) ==
  /\ \A n \in Mutexes \ {m} : owner'[n] = owner[n]
  /\ \/ owner'[m] = NoThread /\ BlockedOn(m, t) = {}
     \/ owner'[m] \in HighestPriorityBlocked(m, t)
  /\ holds'[t] = holds[t] \ {m}

Gave(t, m) ==
  /\ \A n \in Mutexes \ {m} : owner'[n] = owner[n]
  /\ \/ owner'[m] = NoThread /\ BlockedOn(m, t) = {}
     \/ owner'[m] \in BlockedOn(m, t) /\ Woken(owner'[m], "MUTEX")
  /\ holds'[t] = holds[t] \ {m}

LEMMA HandOverMutex ==
  ASSUME TableTypeOK, MutexTypeOK, NEW t \in Threads, NEW m \in Mutexes,
         HandOver(t, m, HighestPriorityBlocked(m, t)), UNCHANGED fixed,
         holds' = [holds EXCEPT ![t] = @ \ {m}]
  PROVE  /\ MutexTypeOK' /\ priority' \in [Threads -> Priorities]
         /\ \A w \in HighestPriorityBlocked(m, t) :
              w \in Threads \ {t} /\ w \notin active /\ blockObject[w] = m /\ owner'[m] = w
         /\ Handed(t, m)
<1> DEFINE ws == HighestPriorityBlocked(m, t)
<1>1. base \in [Threads -> Priorities]
  BY ScenarioFacts DEF TableTypeOK, KernelTypeOK
<1>2. \A w \in ws : w \in Threads \ {t} /\ w \notin active /\ blockObject[w] = m
  BY DEF HighestPriorityBlocked, BlockedOn
<1>3. /\ owner' = [owner EXCEPT ![m] = IF ws = {} THEN NoThread ELSE CHOOSE w \in ws : TRUE]
      /\ lock' = [lock EXCEPT ![m] = IF ws = {} THEN 0 ELSE 1]
      /\ program' = program
  BY DEF HandOver, fixed
<1>4. IF ws = {} THEN owner'[m] = NoThread ELSE owner'[m] \in ws
  BY <1>3 DEF MutexTypeOK
<1>5. \A w \in ws : w = owner'[m]
  BY <1>1, <1>4, OneIsChosen
<1>6. priority' \in [Threads -> Priorities]
  <2>1. Ceiling[m] \in Priorities /\ base[t] \in Priorities
    BY <1>1, ConstantFacts
  <2> QED BY <2>1 DEF HandOver, TableTypeOK, KernelTypeOK
<1>7. \A n \in Mutexes \ {m} : owner'[n] = owner[n]
  BY <1>3 DEF MutexTypeOK
<1>8. \A u \in Threads : holds'[u] = IF u = t THEN holds[u] \ {m} ELSE holds[u]
  BY DEF MutexTypeOK
<1>9. MutexTypeOK'
  <2>1. owner'[m] \in Threads \cup {NoThread}
    BY <1>2, <1>4
  <2>2. owner' \in [Mutexes -> Threads \cup {NoThread}]
    BY <1>3, <2>1 DEF MutexTypeOK
  <2>3. lock' \in [Mutexes -> 0..MaxLocks] /\ holds' \in [Threads -> SUBSET Mutexes]
    BY <1>3, ConstantFacts DEF MutexTypeOK
  <2>4. owner'[m] # NoThread => m \in program[owner'[m]]
    BY <1>2, <1>4, SyncAssumption, CondAssumption, ConstantFacts, SMT DEF TableTypeOK,
       BlockObjects, CondWaits, SemWaits
  <2>5. \A n \in Mutexes : owner'[n] # NoThread => n \in program'[owner'[n]]
    BY <1>3, <1>7, <2>4 DEF MutexTypeOK
  <2>6. \A u \in Threads : holds'[u] \subseteq program'[u]
    BY <1>3, <1>8 DEF MutexTypeOK
  <2> QED BY <2>2, <2>3, <2>5, <2>6 DEF MutexTypeOK
<1>10. \/ owner'[m] = NoThread /\ BlockedOn(m, t) = {}
       \/ owner'[m] \in ws
  <2>1. CASE ws = {}
    BY <1>1, <1>4, <2>1, SomeoneIsChosen
  <2>2. CASE ws # {}
    BY <1>4, <2>2
  <2> QED BY <2>1, <2>2
<1> QED BY <1>2, <1>5, <1>6, <1>7, <1>8, <1>9, <1>10 DEF Handed

\* pthread_mutex_root_unlock: the thread that is chosen is woken, t falls to its base priority.
LEMMA UnlockTable ==
  ASSUME TableTypeOK, MutexTypeOK, NEW t \in exec, NEW m \in Mutexes,
         NEW o \in BlockObjects(t) \cup {NULL},
         RootUnlock(t, m, o), holds' = [holds EXCEPT ![t] = @ \ {m}]
  PROVE  /\ TableTypeOK' /\ MutexTypeOK' /\ t \in active' /\ blockObject'[t] = o
         /\ unblockType'[t] = unblockType[t] /\ Gave(t, m)
         /\ \A u \in Threads \ {t} : IF u \in HighestPriorityBlocked(m, t)
                                     THEN Woken(u, "MUTEX") /\ Reason(u, "MUTEX") ELSE Untouched(u)
<1> DEFINE ws == HighestPriorityBlocked(m, t)
<1>1. t \in Threads /\ t \in active /\ UNCHANGED fixed /\ HandOver(t, m, ws)
  BY DEF TableTypeOK, KernelTypeOK, RootUnlock
<1>2. /\ MutexTypeOK' /\ priority' \in [Threads -> Priorities]
      /\ \A w \in ws : w \in Threads \ {t} /\ w \notin active /\ blockObject[w] = m /\ owner'[m] = w
      /\ Handed(t, m)
  BY <1>1, HandOverMutex
<1>3. /\ active' = active \cup ws /\ wake' = wake \ ws /\ UNCHANGED <<program, base>>
  BY DEF RootUnlock, fixed
<1>4. \A u \in Threads : /\ unblockType'[u] = IF u \in ws THEN "MUTEX" ELSE unblockType[u]
                         /\ blockObject'[u] = IF u = t THEN o ELSE IF u \in ws THEN NULL ELSE blockObject[u]
  BY <1>1 DEF RootUnlock, Put
<1>5. active' \subseteq Threads /\ wake' \subseteq Threads
  BY <1>2, <1>3 DEF TableTypeOK, KernelTypeOK
<1>6. exec' \subseteq active' /\ curPrio' \in Priorities
  <2>1. CASE \E w \in ws : UpdateOnWake(priority'[w])
    BY <1>2, <1>3, <2>1, WakeType DEF TableTypeOK, KernelTypeOK
  <2>2. CASE UpdateOnStopped
    BY <1>2, <1>5, <2>2, StoppedType
  <2>3. CASE UNCHANGED sched
    BY <1>3, <2>3 DEF sched, TableTypeOK, KernelTypeOK
  <2> QED BY <2>1, <2>2, <2>3 DEF RootUnlock
<1>7. unblockType' \in [Threads -> UnblockTypes]
  BY DEF RootUnlock, Put, UnblockTypes, TableTypeOK, KernelTypeOK
<1>8. blockObject' \in [Threads -> AllObjects \cup {NULL}]
  BY <1>1 DEF RootUnlock, Put, TableTypeOK, KernelTypeOK, BlockObjects, CondWaits, SemWaits,
     AllObjects
<1>9. KernelTypeOK(AllObjects)'
  BY <1>2, <1>3, <1>5, <1>6, <1>7, <1>8 DEF KernelTypeOK, TableTypeOK
<1>10. \A u \in Threads : blockObject'[u] \in BlockObjects(u)' \cup {NULL}
  BY <1>3, <1>4 DEF TableTypeOK, BlockObjects, CondWaits, SemWaits
<1>11. \A u \in ws : Woken(u, "MUTEX") /\ Reason(u, "MUTEX")
  BY <1>2, <1>3, <1>4 DEF Woken, Reason
<1>12. \A u \in Threads \ {t} : u \notin ws => Untouched(u)
  BY <1>3, <1>4 DEF Untouched
<1>13. t \notin ws
  BY <1>2
<1>14. Gave(t, m)
  BY <1>2, <1>11 DEF Gave, Handed, HighestPriorityBlocked
<1> QED BY <1>1, <1>2, <1>3, <1>4, <1>9, <1>10, <1>11, <1>12, <1>13, <1>14 DEF TableTypeOK

\* svcall_cond_wait that sleeps: the hand-over of m, and t blocks on c.
LEMMA CondWaitTable ==
  ASSUME TableTypeOK, MutexTypeOK, NEW t \in exec, NEW m \in Mutexes, NEW c \in Conds \cap BlockObjects(t),
         NEW isTimed \in BOOLEAN, HandOver(t, m, HighestPriorityBlocked(m, t)),
         active' = (active \cup HighestPriorityBlocked(m, t)) \ {t},
         unblockType' = Put(unblockType, HighestPriorityBlocked(m, t), "MUTEX"),
         blockObject' = [Put(blockObject, HighestPriorityBlocked(m, t), NULL) EXCEPT ![t] = c],
         wake' = IF isTimed THEN (wake \ HighestPriorityBlocked(m, t)) \cup {t}
                 ELSE wake \ (HighestPriorityBlocked(m, t) \cup {t}),
         UpdateOnStopped, UNCHANGED fixed, holds' = [holds EXCEPT ![t] = @ \ {m}]
  PROVE  /\ TableTypeOK' /\ MutexTypeOK' /\ t \notin active' /\ blockObject'[t] = c
         /\ isTimed \/ t \notin wake'
         /\ unblockType'[t] = unblockType[t] /\ Gave(t, m)
         /\ \A u \in Threads \ {t} : IF u \in HighestPriorityBlocked(m, t)
                                     THEN Woken(u, "MUTEX") /\ Reason(u, "MUTEX") ELSE Untouched(u)
<1> DEFINE ws == HighestPriorityBlocked(m, t)
<1>1. t \in Threads /\ c \in AllObjects /\ UNCHANGED <<program, base>>
  BY DEF TableTypeOK, KernelTypeOK, AllObjects, fixed
<1>2. /\ MutexTypeOK' /\ priority' \in [Threads -> Priorities]
      /\ \A w \in ws : w \in Threads \ {t} /\ w \notin active /\ blockObject[w] = m /\ owner'[m] = w
      /\ Handed(t, m)
  BY <1>1, HandOverMutex
<1>4. \A u \in Threads : /\ unblockType'[u] = IF u \in ws THEN "MUTEX" ELSE unblockType[u]
                         /\ blockObject'[u] = IF u = t THEN c ELSE IF u \in ws THEN NULL ELSE blockObject[u]
  BY <1>1 DEF Put
<1>5. active' \subseteq Threads /\ wake' \subseteq Threads
  BY <1>1, <1>2 DEF TableTypeOK, KernelTypeOK
<1>6. exec' \subseteq active' /\ curPrio' \in Priorities
  BY <1>2, <1>5, StoppedType
<1>7. unblockType' \in [Threads -> UnblockTypes]
  BY DEF Put, UnblockTypes, TableTypeOK, KernelTypeOK
<1>8. blockObject' \in [Threads -> AllObjects \cup {NULL}]
  BY <1>1 DEF Put, TableTypeOK, KernelTypeOK
<1>9. KernelTypeOK(AllObjects)'
  BY <1>1, <1>2, <1>5, <1>6, <1>7, <1>8 DEF KernelTypeOK, TableTypeOK
<1>10. \A u \in Threads : blockObject'[u] \in BlockObjects(u)' \cup {NULL}
  BY <1>1, <1>4 DEF TableTypeOK, BlockObjects, CondWaits, SemWaits
<1>11. \A u \in ws : Woken(u, "MUTEX") /\ Reason(u, "MUTEX")
  BY <1>2, <1>4 DEF Woken, Reason
<1>12. \A u \in Threads \ {t} : u \notin ws => Untouched(u)
  BY <1>4 DEF Untouched
<1>13. t \notin ws
  BY <1>2
<1>14. Gave(t, m)
  BY <1>2, <1>11 DEF Gave, Handed, HighestPriorityBlocked
<1> QED BY <1>1, <1>2, <1>4, <1>9, <1>10, <1>11, <1>12, <1>13, <1>14 DEF TableTypeOK

\* A thread enters a call or goes on in one.
LEMMA CallStep ==
  ASSUME CallTypeOK, program' = program, NEW t \in Threads, NEW op, NEW o, CallFits(t, op, o),
         call' = [call EXCEPT ![t] = [op |-> op, on |-> o]]
  PROVE  /\ CallTypeOK' /\ call'[t] = [op |-> op, on |-> o]
         /\ \A u \in Threads \ {t} : call'[u] = call[u]
<1>1. [op |-> op, on |-> o] \in [op : CallOps, on : Subjects]
  BY DEF CallFits, CondWaits, SemWaits
<1>2. call' \in [Threads -> [op : CallOps, on : Subjects]]
  BY <1>1 DEF CallTypeOK
<1>3. \A u \in Threads : call'[u] = IF u = t THEN [op |-> op, on |-> o] ELSE call[u]
  BY DEF CallTypeOK
<1>4. ASSUME NEW u \in Threads PROVE CallFits(u, call[u].op, call[u].on)'
  <2>1. CASE u = t
    BY <1>3, <2>1, SMT DEF CallFits, CondWaits, SemWaits
  <2>2. CASE u # t
    BY <1>3, <2>2, SMTT(30) DEF CallTypeOK, CallFits, CondWaits, SemWaits
  <2> QED BY <2>1, <2>2
<1>5. CallTypeOK'
  BY <1>2, <1>4 DEF CallTypeOK
<1> QED BY <1>3, <1>5

\* ... or returns.
LEMMA ReturnStep ==
  ASSUME CallTypeOK, program' = program, NEW t \in Threads, Return(t)
  PROVE  /\ CallTypeOK' /\ call'[t] = Idle /\ \A u \in Threads \ {t} : call'[u] = call[u]
<1>1. CallFits(t, "none", NULL)
  BY DEF CallFits, CondWaits, SemWaits, LockCalls, CallOps, Subjects
<1> QED BY <1>1, CallStep DEF Return, Idle

LEMMA SameCall ==
  ASSUME CallTypeOK, program' = program, UNCHANGED call
  PROVE  CallTypeOK'
BY DEF CallTypeOK, CallFits, CondWaits, SemWaits

\* A step of another service than aio.c.
LEMMA ObjectFrame ==
  ASSUME AioTypeOK, program' = program, NEW ws, active' \ active \subseteq ws, ws \subseteq active',
         Deassert(ws)
  PROVE  /\ AioTypeOK'
         /\ \A u \in Threads :
              /\ call'[u] = call[u] /\ holds'[u] = holds[u] /\ register'[u] = register[u]
              /\ Left(u)
              => Passive(u)
BY DEF Deassert, requests, AioTypeOK, Passive, Served, Finished

\* A step of t: the types hold after it and the other threads are passive.
Frame(t) == SyncTypeOK' /\ UNCHANGED fixed /\ \A u \in Threads \ {t} : Passive(u)

\* A step of no thread.
Quiet == SyncTypeOK' /\ UNCHANGED fixed /\ UNCHANGED owner /\ \A u \in Threads : Passive(u)

LEMMA FrameOf ==
  ASSUME SyncTypeOK, NEW t \in Threads, UNCHANGED fixed, Deassert(active' \ active),
         TableTypeOK', MutexTypeOK', SemTypeOK', CallTypeOK',
         \A u \in Threads \ {t} : /\ call'[u] = call[u] /\ holds'[u] = holds[u]
                                  /\ register'[u] = register[u] /\ Left(u)
  PROVE  Frame(t)
<1>1. program' = program
  BY DEF fixed
<1>2. AioTypeOK' /\ \A u \in Threads \ {t} : Passive(u)
  BY <1>1, ObjectFrame DEF SyncTypeOK
<1> QED BY <1>2 DEF Frame, SyncTypeOK

LEMMA SameObjects ==
  ASSUME SyncTypeOK, UNCHANGED fixed
  PROVE  /\ UNCHANGED <<mutex, holds>> => MutexTypeOK' /\ \A u \in Threads : holds'[u] = holds[u]
         /\ UNCHANGED sem => SemTypeOK' /\ \A u \in Threads : register'[u] = register[u]
         /\ UNCHANGED call => CallTypeOK' /\ \A u \in Threads : call'[u] = call[u]
         /\ \A u \in Threads : Untouched(u) => Left(u)
<1>0. program' = program
  BY DEF fixed
<1>1. UNCHANGED <<mutex, holds>> => MutexTypeOK' /\ \A u \in Threads : holds'[u] = holds[u]
  BY SMT, <1>0 DEF mutex, SyncTypeOK, MutexTypeOK
<1>2. UNCHANGED sem => SemTypeOK' /\ \A u \in Threads : register'[u] = register[u]
  BY DEF sem, SyncTypeOK, SemTypeOK
<1>3. UNCHANGED call => CallTypeOK' /\ \A u \in Threads : call'[u] = call[u]
  BY SMT, <1>0 DEF SyncTypeOK, CallTypeOK, CallFits, CondWaits, SemWaits
<1>4. \A u \in Threads : Untouched(u) => Left(u)
  BY DEF Left
<1> QED BY <1>1, <1>2, <1>3, <1>4

-----------------------------------------------------------------------------
(* What a step of the mutexes and conditions does to the thread that takes *)
(* it                                                                      *)

\* Falls asleep on o, or has a time limit that has passed.
Slept(t, o, isTimed) ==
  blockObject'[t] = o /\ (t \in active' => isTimed) /\ (t \in wake' \ active' => isTimed)

\* A lock call that got m at once.
Took(t, m) ==
  /\ owner[m] = NoThread /\ owner'[m] = t /\ \A n \in Mutexes \ {m} : owner'[n] = owner[n]
  /\ holds'[t] = holds[t] \cup {m} /\ call'[t] = Idle /\ Untouched(t)

\* A lock call that found m taken.
Tried(t, m, op) ==
  /\ owner[m] \notin {NoThread, t} /\ UNCHANGED owner /\ holds'[t] = holds[t]
  /\ call'[t] = [op |-> op, on |-> m] /\ unblockType'[t] = unblockType[t]
  /\ IF op = "trylock" THEN Untouched(t) ELSE Slept(t, m, op = "timedlock")

\* A lock call that a signal woke.
Looped(t) ==
  /\ call[t].op \in LockCalls /\ unblockType[t] = "SIGNAL"
  /\ UNCHANGED owner /\ holds'[t] = holds[t] /\ call'[t] = call[t]
  /\ \/ /\ owner[call[t].on] = t /\ unblockType'[t] = "MUTEX"
        /\ t \in active' /\ blockObject'[t] = blockObject[t]
     \/ /\ owner[call[t].on] # t /\ unblockType'[t] \in {"SIGNAL", "SLEEP"}
        /\ t \in active' => unblockType'[t] = "SLEEP"
        /\ Slept(t, call[t].on, call[t].op = "timedlock")

\* The end of a lock call.
Returned(t) ==
  /\ call[t].op \in LockCalls /\ unblockType[t] # "SIGNAL" /\ UNCHANGED owner
  /\ \/ holds'[t] = holds[t] /\ call[t].op # "lock"
        /\ (call[t].op = "timedlock" => owner[call[t].on] # t)
     \/ /\ holds'[t] = holds[t] \cup {call[t].on}
        /\ call[t].op = "lock" \/ owner[call[t].on] = t
  /\ call'[t] = Idle /\ Untouched(t)

\* pthread_mutex_unlock
Unlocked(t, m) ==
  /\ call[t] = Idle /\ call'[t] = Idle /\ owner[m] = t
  /\ \/ UNCHANGED owner /\ holds'[t] = holds[t] /\ Untouched(t)
     \/ Gave(t, m) /\ t \in active' /\ blockObject'[t] = NULL /\ unblockType'[t] = unblockType[t]

\* pthread_cond_wait and _timedwait
Waited(t, c, m, isTimed) ==
  /\ (IF isTimed THEN "condtimedwait" ELSE "condwait") \in program[t]
  /\ call[t] = Idle /\ call'[t] = [op |-> "relock", on |-> m] /\ owner[m] = t
  /\ Gave(t, m) /\ Slept(t, c, isTimed) /\ unblockType'[t] = unblockType[t]

\* pthread_cond_signal up to its service call.
Chose(t, c, w) ==
  /\ "condsignal" \in program[t] /\ ("locked" \in program[t] => holds[t] # {})
  /\ call[t] = Idle /\ call'[t] = [op |-> "condsignal", on |-> w] /\ w \in BlockedOn(c, t)
  /\ UNCHANGED owner /\ holds'[t] = holds[t] /\ Untouched(t) /\ Untouched(w)

\* Any other step of t: it does not fall asleep on a mutex or a condition.
Settled(t) ==
  /\ \/ unblockType'[t] \in {unblockType[t], "AIO"}
     \/ unblockType'[t] = "SIGNAL" /\ "sigevent" \in program[t]
  /\ blockObject'[t] \in {blockObject[t], NULL, Args(t)} \cup Sems
  /\ t \notin active' =>
       \/ /\ call'[t].op \in {"semwait", "semtimedwait"} /\ call'[t].on = blockObject'[t]
          /\ blockObject'[t] \in Sems
       \/ call'[t].op = "aiosuspend" /\ blockObject'[t] = Args(t)
       \/ call'[t] = Idle /\ blockObject'[t] = blockObject[t] /\ "pause" \in program[t]

\* aio_suspend that has to wait.
Suspended(t) ==
  /\ t \in suspended' /\ blockObject'[t] = Args(t) /\ ~Finished(t, driver)'
  /\ "expired" \in program[t] \/ t \notin active'

Other(t) ==
  /\ UNCHANGED owner /\ holds'[t] = holds[t] /\ Settled(t)
  /\ call[t].op \notin LockCalls \cup {"relock"}
  /\ call'[t].op \notin LockCalls \cup {"relock", "condsignal"}
  /\ call'[t].op = "aiosuspend" => Suspended(t)

LEMMA OtherOf ==
  ASSUME NEW t, Settled(t) \/ (t \in active /\ Untouched(t)),
         call[t].op \notin LockCalls \cup {"relock"},
         \/ call'[t] = Idle
         \/ call'[t].op \notin LockCalls \cup {"relock", "condsignal", "aiosuspend"}
         \/ call'[t].op = "aiosuspend" /\ Suspended(t)
  PROVE  /\ UNCHANGED <<mutex, holds>> => Other(t)
         /\ UNCHANGED objects => Other(t)
BY SMTT(30) DEF Other, Settled, Untouched, objects, mutex, Idle, LockCalls

-----------------------------------------------------------------------------
(* The steps of the mutexes                                                *)

\* pthread_mutex_lock, _trylock and _timedlock, also as the end of a wait for a condition.
LEMMA TrylockFrame ==
  ASSUME SyncTypeOK, NEW t \in exec, NEW m \in Mutexes \cap program[t], NEW op \in LockCalls,
         MutexTrylock(t, m, op), UNCHANGED sem, Deassert(active' \ active)
  PROVE  Frame(t) /\ (Took(t, m) \/ Tried(t, m, op))
<1>1. t \in Threads /\ m \in BlockObjects(t) /\ CallFits(t, op, m)
  BY CondAssumption, SyncAssumption
     DEF SyncTypeOK, TableTypeOK, KernelTypeOK, BlockObjects, CallFits, CallOps, Subjects, LockCalls
<1>2. CASE TakeFree(t, m) /\ holds' = [holds EXCEPT ![t] = @ \cup {m}] /\ Return(t)
  <2>1. /\ UNCHANGED <<program, base, active, exec, blockObject, unblockType, wake>> /\ UNCHANGED fixed
        /\ owner' = [owner EXCEPT ![m] = t] /\ lock' = [lock EXCEPT ![m] = 1]
    BY <1>2 DEF TakeFree, fixed, block
  <2>2. priority' \in [Threads -> Priorities] /\ curPrio' \in Priorities
    <3>1. Ceiling[m] \in Priorities
      BY ConstantFacts
    <3>2. \/ priority' = priority /\ curPrio' = curPrio
          \/ priority' = [priority EXCEPT ![t] = Ceiling[m]] /\ curPrio' = Ceiling[m]
      BY <1>2 DEF TakeFree
    <3> QED BY <3>1, <3>2 DEF SyncTypeOK, TableTypeOK, KernelTypeOK
  <2>3. TableTypeOK' /\ \A u \in Threads : Untouched(u)
    BY <2>1, <2>2 DEF SyncTypeOK, TableTypeOK, KernelTypeOK, BlockObjects, CondWaits,
       SemWaits, Untouched
  <2>4. /\ \A u \in Threads : holds'[u] = IF u = t THEN holds[u] \cup {m} ELSE holds[u]
        /\ \A n \in Mutexes : owner'[n] = IF n = m THEN t ELSE owner[n]
    BY <1>2, <2>1 DEF SyncTypeOK, MutexTypeOK
  <2>5. MutexTypeOK'
    <3>1. /\ owner' \in [Mutexes -> Threads \cup {NoThread}] /\ lock' \in [Mutexes -> 0..MaxLocks]
          /\ holds' \in [Threads -> SUBSET Mutexes]
      BY <1>1, <1>2, <2>1, ConstantFacts DEF SyncTypeOK, MutexTypeOK
    <3> QED BY <2>1, <2>4, <3>1, SMT DEF SyncTypeOK, MutexTypeOK
  <2>6. CallTypeOK' /\ call'[t] = Idle /\ \A u \in Threads \ {t} : call'[u] = call[u]
    BY <1>1, <1>2, <2>1, ReturnStep DEF SyncTypeOK
  <2>7. Took(t, m)
    BY <1>1, <1>2, <2>3, <2>4, <2>6 DEF Took, TakeFree
  <2> QED BY <1>1, <2>1, <2>3, <2>4, <2>5, <2>6, <2>7, SameObjects, FrameOf
<1>3. ASSUME UNCHANGED <<fixed, mutex, holds>>, TableTypeOK', \A u \in Threads \ {t} : Untouched(u),
             Enter(t, op, m), owner[m] # NoThread, unblockType'[t] = unblockType[t],
             IF op = "trylock" THEN Untouched(t) ELSE Slept(t, m, op = "timedlock")
      PROVE  Frame(t) /\ Tried(t, m, op)
  <2>1. CallTypeOK' /\ call'[t] = [op |-> op, on |-> m] /\ \A u \in Threads \ {t} : call'[u] = call[u]
    BY <1>1, <1>3, CallStep DEF SyncTypeOK, Enter, fixed
  <2>2. UNCHANGED <<mutex, holds>> /\ UNCHANGED owner /\ holds'[t] = holds[t]
    BY <1>3 DEF mutex
  <2>3. Tried(t, m, op)
    BY <1>3, <2>1, <2>2 DEF Tried, MutexTrylock
  <2> QED BY <1>1, <1>3, <2>1, <2>2, <2>3, SameObjects, FrameOf
<1>4. CASE /\ owner[m] # NoThread
           /\ IF op = "trylock" THEN UNCHANGED <<kernel, mutex>> ELSE MutexBlock(t, m, op = "timedlock")
           /\ Enter(t, op, m) /\ UNCHANGED holds
  <2>1. CASE op = "trylock"
    BY <1>1, <1>3, <1>4, <2>1, SameTable DEF SyncTypeOK, kernel, Untouched
  <2>2. CASE op # "trylock" /\ Block(t, m, op = "timedlock")
    <3>1. UNCHANGED <<fixed, priority>> /\ UNCHANGED <<fixed, mutex, holds>>
      BY <1>4, <2>2 DEF MutexBlock
    <3>2. /\ TableTypeOK' /\ t \notin active' /\ blockObject'[t] = m /\ unblockType'[t] = unblockType[t]
          /\ op = "timedlock" \/ t \notin wake'
          /\ \A u \in Threads \ {t} : Untouched(u)
      BY <1>1, <1>4, <2>2, <3>1, BlockTable DEF SyncTypeOK
    <3>3. Slept(t, m, op = "timedlock")
      BY <3>2 DEF Slept
    <3> QED BY <1>3, <1>4, <2>2, <3>1, <3>2, <3>3
  <2>3. CASE op = "timedlock" /\ BlockExpired(t, m) /\ UNCHANGED unblockType
    <3>1. UNCHANGED <<fixed, priority>> /\ UNCHANGED <<fixed, mutex, holds>>
      BY <1>4, <2>3 DEF MutexBlock
    <3>2. unblockType' \in [Threads -> UnblockTypes] /\ \A u \in Threads \ {t} : unblockType'[u] = unblockType[u]
      BY <2>3 DEF SyncTypeOK, TableTypeOK, KernelTypeOK
    <3>3. TableTypeOK' /\ blockObject'[t] = m /\ \A u \in Threads \ {t} : Untouched(u)
      BY <1>1, <1>4, <2>3, <3>1, <3>2, ExpiredTable DEF SyncTypeOK
    <3>4. Slept(t, m, op = "timedlock") /\ unblockType'[t] = unblockType[t]
      BY <2>3, <3>3 DEF Slept
    <3> QED BY <1>3, <1>4, <2>3, <3>1, <3>3, <3>4
  <2> QED BY <1>4, <2>1, <2>2, <2>3 DEF MutexBlock
<1> QED BY <1>2, <1>4 DEF MutexTrylock

LEMMA LockAgainFrame ==
  ASSUME SyncTypeOK, NEW t \in exec, NEW m \in Mutexes \cap program[t],
         call[t] = Idle, LockAgain(t, m), UNCHANGED sem, Deassert(active' \ active)
  PROVE  Frame(t) /\ Other(t)
<1>1. t \in Threads /\ UNCHANGED fixed /\ UNCHANGED <<program, owner, holds>>
  BY DEF SyncTypeOK, TableTypeOK, KernelTypeOK, LockAgain, kernel, fixed
<1>2. TableTypeOK' /\ \A u \in Threads : Untouched(u)
  BY SameTable DEF SyncTypeOK, LockAgain
<1>3. lock' \in [Mutexes -> 0..MaxLocks]
  <2>1. lock[m] + 1 \in 0..MaxLocks
    BY MutexAssumption, SMT DEF LockAgain, SyncTypeOK, MutexTypeOK
  <2> QED BY <2>1 DEF LockAgain, SyncTypeOK, MutexTypeOK
<1>4. MutexTypeOK'
  BY <1>1, <1>3 DEF SyncTypeOK, MutexTypeOK
<1>5. UNCHANGED call /\ \A u \in Threads : holds'[u] = holds[u]
  BY <1>1 DEF LockAgain
<1>6. Other(t)
  BY <1>1, <1>2, <1>5, SMTT(30) DEF Other, Settled, Untouched, Idle, LockCalls, SyncTypeOK,
     TableTypeOK, KernelTypeOK
<1> QED BY <1>1, <1>2, <1>4, <1>5, <1>6, SameObjects, FrameOf

LEMMA LockLoopFrame ==
  ASSUME SyncTypeOK, NEW t \in Threads, LockLoop(t), UNCHANGED sem, Deassert(active' \ active)
  PROVE  Frame(t) /\ Looped(t)
<1> DEFINE m == call[t].on
           isTimed == (call[t].op = "timedlock")
<1>1. /\ t \in exec /\ m \in Mutexes /\ m \in BlockObjects(t) /\ MutexUnblocked(t, m, isTimed)
      /\ UNCHANGED <<call, holds>>
  BY CondAssumption, SyncAssumption DEF LockLoop, InCall, SyncTypeOK, CallTypeOK, CallFits,
     BlockObjects
<1>2. UNCHANGED fixed /\ UNCHANGED priority /\ UNCHANGED mutex
  BY <1>1 DEF MutexUnblocked, Block, BlockExpired
<1>3. ASSUME TableTypeOK', \A u \in Threads \ {t} : Untouched(u),
             \/ /\ owner[m] = t /\ unblockType'[t] = "MUTEX"
                /\ t \in active' /\ blockObject'[t] = blockObject[t]
             \/ /\ owner[m] # t /\ unblockType'[t] \in {"SIGNAL", "SLEEP"}
                /\ t \in active' => unblockType'[t] = "SLEEP"
                /\ Slept(t, m, isTimed)
      PROVE  Frame(t) /\ Looped(t)
  <2>1. UNCHANGED <<mutex, holds>> /\ UNCHANGED owner
    BY <1>1, <1>2 DEF mutex
  <2>2. Looped(t)
    BY <1>1, <1>3, <2>1 DEF Looped, LockLoop, InCall
  <2> QED BY <1>1, <1>2, <1>3, <2>1, <2>2, SameObjects, FrameOf
<1>4. CASE owner[m] = t
  <2>1. /\ unblockType' = [unblockType EXCEPT ![t] = "MUTEX"]
        /\ UNCHANGED <<program, base, exec, curPrio, active, blockObject, wake, priority>>
    BY <1>1, <1>4 DEF MutexUnblocked, fixed, sched
  <2>2. unblockType' \in [Threads -> UnblockTypes] /\ \A u \in Threads \ {t} : unblockType'[u] = unblockType[u]
    BY <2>1 DEF SyncTypeOK, TableTypeOK, KernelTypeOK, UnblockTypes
  <2>3. TableTypeOK' /\ \A u \in Threads \ {t} : Untouched(u)
    BY <2>1, <2>2 DEF SyncTypeOK, TableTypeOK, KernelTypeOK, BlockObjects, CondWaits,
       SemWaits, Untouched
  <2>4. unblockType'[t] = "MUTEX" /\ t \in active' /\ blockObject'[t] = blockObject[t]
    BY <1>1, <2>1 DEF SyncTypeOK, TableTypeOK, KernelTypeOK
  <2> QED BY <1>3, <1>4, <2>3, <2>4
<1>5. CASE owner[m] # t /\ Block(t, m, isTimed)
  <2>1. isTimed \in BOOLEAN /\ unblockType[t] = "SIGNAL"
    BY DEF LockLoop
  <2>2. /\ TableTypeOK' /\ t \notin active' /\ blockObject'[t] = m /\ unblockType'[t] = unblockType[t]
        /\ isTimed \/ t \notin wake'
        /\ \A u \in Threads \ {t} : Untouched(u)
    BY <1>1, <1>2, <1>5, <2>1, BlockTable DEF SyncTypeOK
  <2>3. Slept(t, m, isTimed)
    BY <2>2 DEF Slept
  <2> QED BY <1>3, <1>5, <2>1, <2>2, <2>3
<1>6. CASE /\ owner[m] # t /\ isTimed /\ BlockExpired(t, m)
           /\ unblockType' = [unblockType EXCEPT ![t] = "SLEEP"]
  <2>1. /\ unblockType'[t] = "SLEEP" /\ unblockType' \in [Threads -> UnblockTypes]
        /\ \A u \in Threads \ {t} : unblockType'[u] = unblockType[u]
    BY <1>6 DEF SyncTypeOK, TableTypeOK, KernelTypeOK, UnblockTypes
  <2>2. TableTypeOK' /\ blockObject'[t] = m /\ \A u \in Threads \ {t} : Untouched(u)
    BY <1>1, <1>2, <1>6, <2>1, ExpiredTable DEF SyncTypeOK
  <2>3. Slept(t, m, isTimed)
    BY <1>6, <2>2 DEF Slept
  <2> QED BY <1>3, <1>6, <2>1, <2>2, <2>3
<1> QED BY <1>1, <1>4, <1>5, <1>6 DEF MutexUnblocked

LEMMA LockReturnFrame ==
  ASSUME SyncTypeOK, NEW t \in Threads, LockReturn(t), UNCHANGED sem, Deassert(active' \ active)
  PROVE  Frame(t) /\ Returned(t)
<1>1. call[t].on \in Mutexes /\ call[t].on \in program[t]
  BY DEF LockReturn, InCall, SyncTypeOK, CallTypeOK, CallFits, CondWaits, SemWaits
<1>2. UNCHANGED fixed /\ UNCHANGED kernel /\ UNCHANGED <<program, owner, lock>> /\ Return(t)
  BY DEF LockReturn, kernel, fixed, mutex
<1>3. TableTypeOK' /\ \A u \in Threads : Untouched(u)
  BY <1>2, SameTable DEF SyncTypeOK
<1>4. holds' \in {holds, [holds EXCEPT ![t] = @ \cup {call[t].on}]}
  BY DEF LockReturn
<1>5. MutexTypeOK' /\ \A u \in Threads \ {t} : holds'[u] = holds[u]
  <2>1. CASE holds' = holds
    BY <1>2, <2>1 DEF SyncTypeOK, MutexTypeOK
  <2>2. CASE holds' = [holds EXCEPT ![t] = @ \cup {call[t].on}]
    BY <1>1, <1>2, <2>2 DEF SyncTypeOK, MutexTypeOK
  <2> QED BY <1>4, <2>1, <2>2
<1>6. CallTypeOK' /\ call'[t] = Idle /\ \A u \in Threads \ {t} : call'[u] = call[u]
  BY <1>2, ReturnStep DEF SyncTypeOK
<1>7. holds'[t] = IF \/ call[t].op = "lock"
                     \/ call[t].op = "timedlock" /\ owner[call[t].on] = t
                  THEN holds[t] \cup {call[t].on} ELSE holds[t]
  BY DEF LockReturn, SyncTypeOK, MutexTypeOK
<1>8. Returned(t)
  BY <1>2, <1>3, <1>6, <1>7 DEF Returned, LockReturn, InCall
<1> QED BY <1>2, <1>3, <1>5, <1>6, <1>8, SameObjects, FrameOf

LEMMA UnlockFrame ==
  ASSUME SyncTypeOK, NEW t \in Threads, NEW m \in Mutexes, Unlock(t, m), UNCHANGED sem,
         Deassert(active' \ active)
  PROVE  Frame(t) /\ Unlocked(t, m)
<1>1. t \in exec /\ UNCHANGED call /\ call[t] = Idle /\ call'[t] = Idle /\ owner[m] = t
  BY DEF Unlock, Calls
<1>2. CASE m \in Recursive /\ lock[m] > 1
  <2>1. /\ UNCHANGED fixed /\ UNCHANGED kernel /\ UNCHANGED <<program, owner, holds>>
        /\ lock' = [lock EXCEPT ![m] = lock[m] - 1]
    BY <1>2 DEF Unlock, kernel, fixed
  <2>2. lock[m] - 1 \in 0..MaxLocks
    BY <1>2, MutexAssumption, SMT DEF SyncTypeOK, MutexTypeOK
  <2>3. MutexTypeOK'
    BY <2>1, <2>2 DEF SyncTypeOK, MutexTypeOK
  <2>4. TableTypeOK' /\ \A u \in Threads : Untouched(u)
    BY <2>1, SameTable DEF SyncTypeOK
  <2>5. Unlocked(t, m)
    BY <1>1, <2>1, <2>4 DEF Unlocked
  <2> QED BY <1>1, <2>1, <2>3, <2>4, <2>5, SameObjects, FrameOf
<1>3. CASE RootUnlock(t, m, NULL) /\ holds' = [holds EXCEPT ![t] = @ \ {m}]
  <2>1. /\ TableTypeOK' /\ MutexTypeOK' /\ t \in active' /\ blockObject'[t] = NULL
        /\ unblockType'[t] = unblockType[t] /\ Gave(t, m)
        /\ \A u \in Threads \ {t} : \/ Woken(u, "MUTEX") /\ Reason(u, "MUTEX")
                                    \/ Untouched(u)
    BY <1>1, <1>3, UnlockTable DEF SyncTypeOK
  <2>2. \A u \in Threads \ {t} : Left(u) /\ holds'[u] = holds[u]
    BY <1>3, <2>1 DEF Left, UnblockTypes, SyncTypeOK, MutexTypeOK
  <2>3. UNCHANGED fixed
    BY <1>3 DEF RootUnlock
  <2>4. Unlocked(t, m)
    BY <1>1, <2>1 DEF Unlocked
  <2> QED BY <1>1, <2>1, <2>2, <2>3, <2>4, SameObjects, FrameOf
<1> QED BY <1>2, <1>3 DEF Unlock

-----------------------------------------------------------------------------
(* The steps of the condition variables                                    *)

LEMMA CondSignalFrame ==
  ASSUME SyncTypeOK, NEW t \in Threads, NEW c \in Conds \cap program[t], CondSignal(t, c), UNCHANGED sem,
         Deassert(active' \ active)
  PROVE  Frame(t) /\ \E w \in Threads : Chose(t, c, w)
<1>1. PICK w \in HighestPriorityBlocked(c, t) : Enter(t, "condsignal", w)
  BY DEF CondSignal, ChooseWaiter
<1>2. CallFits(t, "condsignal", w)
  <2>1. CondWaits(w)
    BY CondAssumption, SyncAssumption DEF HighestPriorityBlocked, BlockedOn, SyncTypeOK,
       TableTypeOK, BlockObjects
  <2> QED BY <2>1 DEF HighestPriorityBlocked, BlockedOn, CondSignal, Calls, CallFits,
             CallOps, Subjects, LockCalls
<1>3. UNCHANGED fixed /\ UNCHANGED kernel /\ UNCHANGED <<mutex, holds>>
  BY DEF CondSignal, ChooseWaiter, kernel
<1>4. TableTypeOK' /\ \A u \in Threads : Untouched(u)
  BY <1>3, SameTable DEF SyncTypeOK
<1>5. /\ CallTypeOK' /\ call'[t] = [op |-> "condsignal", on |-> w]
      /\ \A u \in Threads \ {t} : call'[u] = call[u]
  BY <1>1, <1>2, <1>3, CallStep DEF SyncTypeOK, Enter, fixed
<1>6. w \in Threads /\ w \in BlockedOn(c, t)
  BY DEF HighestPriorityBlocked, BlockedOn
<1>7. Chose(t, c, w)
  BY <1>3, <1>4, <1>5, <1>6 DEF Chose, CondSignal, Calls, mutex
<1> QED BY <1>3, <1>4, <1>5, <1>6, <1>7, SameObjects, FrameOf

LEMMA CondBroadcastFrame ==
  ASSUME SyncTypeOK, NEW t \in Threads, NEW c \in Conds \cap program[t], CondBroadcast(t, c), UNCHANGED sem,
         Deassert(active' \ active)
  PROVE  Frame(t) /\ Other(t)
<1> DEFINE ws == BlockedOn(c, t)
<1>1. /\ AssertActive(ws, "COND") /\ UNCHANGED <<fixed, priority>> /\ UNCHANGED fixed
      /\ UNCHANGED <<mutex, holds>> /\ UNCHANGED call
  BY DEF CondBroadcast
<1>2. PICK p \in Priorities \cup {-1} : UpdateOnWake(p)
  BY DEF CondBroadcast
<1>3. ws \in SUBSET Threads /\ "COND" \in UnblockTypes
  BY DEF BlockedOn, UnblockTypes
<1>4. TableTypeOK' /\ \A u \in Threads : IF u \in ws THEN Woken(u, "COND") ELSE Untouched(u)
  BY <1>1, <1>2, <1>3, WakeTable DEF SyncTypeOK
<1>5. \A u \in ws : Reason(u, "COND")
  BY DEF BlockedOn, Reason, Broadcasts, CondBroadcast, Calls
<1>6. \A u \in Threads : Left(u)
  BY <1>3, <1>4, <1>5 DEF Left
<1>7. Other(t)
  <2>1. t \in active /\ t \notin ws /\ call[t] = Idle
    BY DEF CondBroadcast, Calls, BlockedOn, SyncTypeOK, TableTypeOK, KernelTypeOK
  <2>2. call[t].op \notin LockCalls \cup {"relock"}
    BY ONLY <2>1, SMT DEF Idle, LockCalls
  <2>3. call'[t] = Idle
    BY <1>1, <2>1
  <2>4. Untouched(t) /\ UNCHANGED <<mutex, holds>>
    BY <1>1, <1>4, <2>1
  <2> QED BY <2>1, <2>2, <2>3, <2>4, OtherOf
<1> QED BY <1>1, <1>4, <1>6, <1>7, SameObjects, FrameOf

LEMMA SvcallCondSignalFrame ==
  ASSUME SyncTypeOK, NEW t \in Threads, SvcallCondSignal(t), UNCHANGED sem,
         Deassert(active' \ active)
  PROVE  Frame(t) /\ Woken(call[t].on, "COND") /\ Other(t)
<1> DEFINE w == call[t].on
<1>1. /\ t \in exec /\ call[t].op = "condsignal" /\ AssertActive({w}, "COND")
      /\ UNCHANGED <<fixed, priority>> /\ UNCHANGED fixed /\ UNCHANGED <<mutex, holds>>
      /\ UpdateOnWake(priority[w]) /\ Return(t)
  BY DEF SvcallCondSignal, InCall
<1>2. w \in Threads \ {t} /\ call[t] = [op |-> "condsignal", on |-> w]
  BY <1>1 DEF SyncTypeOK, CallTypeOK, CallFits, CondWaits, SemWaits
<1>3. {w} \in SUBSET Threads /\ "COND" \in UnblockTypes /\ priority[w] \in Priorities \cup {-1}
  BY <1>2 DEF UnblockTypes, SyncTypeOK, TableTypeOK, KernelTypeOK
<1>4. TableTypeOK' /\ \A u \in Threads : IF u \in {w} THEN Woken(u, "COND") ELSE Untouched(u)
  BY <1>1, <1>3, WakeTable DEF SyncTypeOK
<1>7. CallTypeOK' /\ call'[t] = Idle /\ \A u \in Threads \ {t} : call'[u] = call[u]
  BY <1>1, ReturnStep DEF SyncTypeOK, fixed
<1>5. Reason(w, "COND")
  BY <1>1, <1>2, <1>7 DEF Reason, WakesChosen
<1>6. \A u \in Threads : Left(u)
  BY <1>3, <1>4, <1>5 DEF Left
<1>8. Other(t)
  <2>1. t \in active /\ t \notin {w}
    BY <1>1, <1>2 DEF SyncTypeOK, TableTypeOK, KernelTypeOK
  <2> QED BY <1>1, <1>4, <1>7, <2>1, OtherOf DEF LockCalls
<1> QED BY <1>1, <1>2, <1>4, <1>6, <1>7, <1>8, SameObjects, FrameOf

LEMMA CondWaitFrame ==
  ASSUME SyncTypeOK, NEW t \in Threads, NEW c \in Conds \cap program[t],
         NEW m \in Mutexes \cap program[t], NEW isTimed \in BOOLEAN, CondWait(t, c, m, isTimed),
         UNCHANGED sem, Deassert(active' \ active)
  PROVE  Frame(t) /\ Waited(t, c, m, isTimed)
<1>1. t \in exec /\ holds' = [holds EXCEPT ![t] = @ \ {m}] /\ Enter(t, "relock", m)
  BY DEF CondWait, Calls, SvcallCondWait
<1>2. CallFits(t, "relock", m) /\ c \in BlockObjects(t)
  <2>1. CondWaits(t) /\ c \notin Sems
    BY SyncAssumption DEF CondWait, Calls, CondWaits
  <2> QED BY <2>1 DEF CallFits, CallOps, Subjects, LockCalls, BlockObjects
<1>3. UNCHANGED fixed
  BY DEF CondWait, SvcallCondWait, RootUnlock
<1>4. /\ TableTypeOK' /\ MutexTypeOK' /\ Gave(t, m) /\ blockObject'[t] = c
      /\ unblockType'[t] = unblockType[t] /\ (isTimed \/ (t \notin active' /\ t \notin wake'))
      /\ \A u \in Threads \ {t} : \/ Woken(u, "MUTEX") /\ Reason(u, "MUTEX")
                                  \/ Untouched(u)
  <2> DEFINE ws == HighestPriorityBlocked(m, t)
  <2>1. CASE isTimed /\ RootUnlock(t, m, c)
    <3>1. /\ TableTypeOK' /\ MutexTypeOK' /\ blockObject'[t] = c
          /\ unblockType'[t] = unblockType[t] /\ Gave(t, m)
          /\ \A u \in Threads \ {t} : IF u \in ws
                                     THEN Woken(u, "MUTEX") /\ Reason(u, "MUTEX") ELSE Untouched(u)
      BY <1>1, <1>2, <2>1, UnlockTable DEF SyncTypeOK
    <3>2. \A u \in Threads \ {t} : \/ Woken(u, "MUTEX") /\ Reason(u, "MUTEX")
                                   \/ Untouched(u)
      BY <3>1
    <3>3. isTimed \/ (t \notin active' /\ t \notin wake')
      BY <2>1
    <3> QED BY <3>1, <3>2, <3>3
  <2>2. CASE ~(isTimed /\ RootUnlock(t, m, c))
    <3>1. /\ HandOver(t, m, ws)
          /\ active' = (active \cup ws) \ {t}
          /\ unblockType' = Put(unblockType, ws, "MUTEX")
          /\ blockObject' = [Put(blockObject, ws, NULL) EXCEPT ![t] = c]
          /\ wake' = IF isTimed THEN (wake \ ws) \cup {t} ELSE wake \ (ws \cup {t})
          /\ UpdateOnStopped
      BY <2>2 DEF CondWait, SvcallCondWait
    <3>2. /\ TableTypeOK' /\ MutexTypeOK' /\ t \notin active' /\ blockObject'[t] = c
          /\ isTimed \/ t \notin wake'
          /\ unblockType'[t] = unblockType[t] /\ Gave(t, m)
          /\ \A u \in Threads \ {t} : IF u \in ws
                                     THEN Woken(u, "MUTEX") /\ Reason(u, "MUTEX") ELSE Untouched(u)
      BY <1>1, <1>2, <1>3, <3>1, CondWaitTable DEF SyncTypeOK
    <3>3. \A u \in Threads \ {t} : \/ Woken(u, "MUTEX") /\ Reason(u, "MUTEX")
                                   \/ Untouched(u)
      BY <3>2
    <3>4. isTimed \/ (t \notin active' /\ t \notin wake')
      BY <3>2
    <3> QED BY <3>2, <3>3, <3>4
  <2> QED BY <2>1, <2>2
<1>5. \A u \in Threads \ {t} : Left(u) /\ holds'[u] = holds[u]
  BY <1>1, <1>4 DEF Left, UnblockTypes, SyncTypeOK, MutexTypeOK
<1>6. /\ CallTypeOK' /\ call'[t] = [op |-> "relock", on |-> m]
      /\ \A u \in Threads \ {t} : call'[u] = call[u]
  BY <1>1, <1>2, <1>3, CallStep DEF SyncTypeOK, Enter, fixed
<1>7. Waited(t, c, m, isTimed)
  BY <1>4, <1>6 DEF Waited, Slept, CondWait, Calls
<1> QED BY <1>3, <1>4, <1>5, <1>6, <1>7, SameObjects, FrameOf

-----------------------------------------------------------------------------
(* The steps of the semaphores                                             *)

LEMMA TakeType ==
  ASSUME SemTypeOK, NEW s \in Sems, Take(s)
  PROVE  /\ SemTypeOK' /\ \A u \in Threads : register'[u] = register[u]
         /\ value'[s] = value[s] - 1 /\ tokens'[s] = tokens[s] - 1
         /\ \A r \in Sems \ {s} : value'[r] = value[r] /\ tokens'[r] = tokens[r]
BY SMT DEF SemTypeOK, Take

LEMMA SvcallSemWaitFrame ==
  ASSUME SyncTypeOK, NEW t \in exec, NEW s \in Sems \cap program[t], SemWaits(t), SvcallSemWait(t, s),
         call[t].op \in {"none", "semwait"}, UNCHANGED <<mutex, holds>>, Deassert(active' \ active)
  PROVE  Frame(t) /\ Other(t)
<1>1. /\ t \in Threads /\ s \in BlockObjects(t) /\ s \in AllObjects /\ CallFits(t, "semwait", s)
      /\ t \in active
  BY SyncAssumption
     DEF SyncTypeOK, TableTypeOK, KernelTypeOK, BlockObjects, AllObjects, CallFits, CallOps, Subjects, LockCalls
<1>2. /\ blockObject' = [blockObject EXCEPT ![t] = s] /\ UNCHANGED fixed
      /\ UNCHANGED <<program, base, priority, unblockType, wake>>
  BY DEF SvcallSemWait, fixed
<1>3. active' \in {active, active \ {t}}
  BY DEF SvcallSemWait
<1>4. exec' \subseteq active' /\ curPrio' \in Priorities
  <2>1. CASE active' = active /\ UNCHANGED sched
    BY <2>1 DEF sched, SyncTypeOK, TableTypeOK, KernelTypeOK
  <2>2. CASE UpdateOnStopped
    BY <1>2, <1>3, <2>2, StoppedType DEF SyncTypeOK, TableTypeOK, KernelTypeOK
  <2> QED BY <2>1, <2>2 DEF SvcallSemWait
<1>5. \A u \in Threads : blockObject'[u] = IF u = t THEN s ELSE blockObject[u]
  BY <1>2 DEF SyncTypeOK, TableTypeOK, KernelTypeOK
<1>6. KernelTypeOK(AllObjects)'
  BY <1>1, <1>2, <1>3, <1>4 DEF SyncTypeOK, TableTypeOK, KernelTypeOK
<1>7. \A u \in Threads : blockObject'[u] \in BlockObjects(u)' \cup {NULL}
  BY <1>1, <1>2, <1>5 DEF SyncTypeOK, TableTypeOK, BlockObjects, CondWaits, SemWaits
<1>8. TableTypeOK'
  BY <1>6, <1>7 DEF TableTypeOK
<1>9. \A u \in Threads \ {t} : Left(u)
  BY <1>2, <1>3, <1>5 DEF Left, Untouched
<1>10. SemTypeOK' /\ \A u \in Threads : register'[u] = register[u]
  BY <1>2, TakeType, SameObjects DEF SvcallSemWait, SyncTypeOK
<1>11. /\ CallTypeOK' /\ \A u \in Threads \ {t} : call'[u] = call[u]
       /\ (call'[t] = Idle /\ t \in active') \/ call'[t] = [op |-> "semwait", on |-> s]
  BY <1>1, <1>2, CallStep, ReturnStep, SMT DEF SvcallSemWait, Enter, SyncTypeOK
<1>12. Settled(t)
  BY <1>1, <1>2, <1>5, <1>11, SMTT(30) DEF Settled
<1>13. Other(t)
  <2>1. call[t].op \notin LockCalls \cup {"relock"}
    BY SMT DEF LockCalls
  <2>2. call'[t] = Idle \/ call'[t].op \notin LockCalls \cup {"relock", "condsignal", "aiosuspend"}
    BY ONLY <1>11, SMT DEF LockCalls
  <2> QED BY <1>12, <2>1, <2>2, OtherOf
<1> QED BY <1>1, <1>2, <1>8, <1>9, <1>10, <1>11, <1>13, SameObjects, FrameOf

\* sem_trywait and the parts of sem_timedwait that take a token or return.
LEMMA TakeFrame ==
  ASSUME SyncTypeOK, NEW t \in Threads, NEW s \in Sems, Take(s) \/ UNCHANGED sem,
         Return(t) \/ UNCHANGED call, UNCHANGED kernel, UNCHANGED <<mutex, holds>>,
         t \in active, call[t].op \notin LockCalls \cup {"relock", "condsignal", "aiosuspend"},
         Deassert(active' \ active)
  PROVE  Frame(t) /\ Other(t)
<1>1. UNCHANGED fixed /\ program' = program
  BY DEF kernel, fixed
<1>2. TableTypeOK' /\ \A u \in Threads : Untouched(u)
  BY SameTable DEF SyncTypeOK
<1>3. SemTypeOK' /\ \A u \in Threads : register'[u] = register[u]
  BY <1>1, TakeType, SameObjects DEF SyncTypeOK
<1>4. CallTypeOK' /\ call'[t] \in {Idle, call[t]} /\ \A u \in Threads \ {t} : call'[u] = call[u]
  BY <1>1, ReturnStep, SameObjects DEF SyncTypeOK
<1>5. Other(t)
  BY <1>2, <1>4, OtherOf
<1> QED BY <1>1, <1>2, <1>3, <1>4, <1>5, SameObjects, FrameOf

LEMMA SemTimedwaitFrame ==
  ASSUME SyncTypeOK, NEW t \in Threads, NEW s \in Sems \cap program[t], SemTimedwait(t, s),
         UNCHANGED <<mutex, holds>>, Deassert(active' \ active)
  PROVE  Frame(t) /\ Other(t)
<1>1. t \in exec /\ s \in BlockObjects(t) /\ CallFits(t, "semtimedwait", s)
  <2>1. SemWaits(t) /\ s \notin Conds
    BY SyncAssumption DEF SemTimedwait, Calls, SemWaits
  <2> QED BY <2>1 DEF SemTimedwait, Calls, BlockObjects, CallFits, CallOps, Subjects, LockCalls
<1>2. CASE ~(value[s] <= 0)
  <2>1. /\ Take(s) /\ UNCHANGED kernel /\ UNCHANGED call /\ t \in active
        /\ call[t].op \notin LockCalls \cup {"relock", "condsignal", "aiosuspend"}
    BY <1>2, SMTT(30) DEF SemTimedwait, Calls, Idle, LockCalls, SyncTypeOK, TableTypeOK, KernelTypeOK
  <2> QED BY <2>1, TakeFrame
<1>3. CASE value[s] <= 0
  <2>1. UNCHANGED <<fixed, priority>> /\ UNCHANGED fixed /\ UNCHANGED sem /\ Enter(t, "semtimedwait", s)
    BY <1>3 DEF SemTimedwait
  <2>2. /\ TableTypeOK' /\ blockObject'[t] = s /\ unblockType'[t] = unblockType[t]
        /\ \A u \in Threads \ {t} : Untouched(u)
    <3>1. CASE Block(t, s, TRUE)
      BY <1>1, <2>1, <3>1, BlockTable DEF SyncTypeOK
    <3>2. CASE BlockExpired(t, s) /\ UNCHANGED unblockType
      <4>1. unblockType' \in [Threads -> UnblockTypes] /\ \A u \in Threads \ {t} : unblockType'[u] = unblockType[u]
        BY <3>2 DEF SyncTypeOK, TableTypeOK, KernelTypeOK
      <4> QED BY <1>1, <2>1, <3>2, <4>1, ExpiredTable DEF SyncTypeOK
    <3> QED BY <1>3, <3>1, <3>2 DEF SemTimedwait
  <2>3. /\ CallTypeOK' /\ call'[t] = [op |-> "semtimedwait", on |-> s]
        /\ \A u \in Threads \ {t} : call'[u] = call[u]
    BY <1>1, <2>1, CallStep DEF Enter, SyncTypeOK, fixed
  <2>4. Settled(t) /\ call[t] = Idle
    BY <2>2, <2>3, SMTT(30) DEF Settled, SemTimedwait, Calls
  <2>5. Other(t)
    <3>1. call[t].op \notin LockCalls \cup {"relock"}
      BY ONLY <2>4, SMT DEF Idle, LockCalls
    <3>2. call'[t].op \notin LockCalls \cup {"relock", "condsignal", "aiosuspend"}
      BY ONLY <2>3, SMT DEF LockCalls
    <3> QED BY <2>4, <3>1, <3>2, OtherOf
  <2> QED BY <2>1, <2>2, <2>3, <2>5, SameObjects, FrameOf
<1> QED BY <1>2, <1>3

LEMMA SemPostLoadFrame ==
  ASSUME SyncTypeOK, NEW t \in Threads, NEW s \in Sems \cap program[t], SemPostLoad(t, s),
         UNCHANGED <<mutex, holds>>, Deassert(active' \ active)
  PROVE  Frame(t) /\ Other(t)
<1>1. CallFits(t, "semload", s) /\ UNCHANGED kernel /\ UNCHANGED fixed /\ program' = program
  BY DEF SemPostLoad, Calls, kernel, fixed, CallFits, CallOps, Subjects, LockCalls
<1>2. TableTypeOK' /\ \A u \in Threads : Untouched(u)
  BY <1>1, SameTable DEF SyncTypeOK
<1>3. SemTypeOK' /\ \A u \in Threads \ {t} : register'[u] = register[u]
  BY DEF SemPostLoad, SyncTypeOK, SemTypeOK
<1>4. /\ CallTypeOK' /\ call'[t] = [op |-> "semload", on |-> s]
      /\ \A u \in Threads \ {t} : call'[u] = call[u]
  BY <1>1, CallStep DEF SemPostLoad, Enter, SyncTypeOK
<1>5. Other(t)
  <2>1. t \in active /\ call[t] = Idle
    BY DEF SemPostLoad, Calls, SyncTypeOK, TableTypeOK, KernelTypeOK
  <2>2. call[t].op \notin LockCalls \cup {"relock"}
    BY ONLY <2>1, SMT DEF Idle, LockCalls
  <2>3. call'[t].op \notin LockCalls \cup {"relock", "condsignal", "aiosuspend"}
    BY ONLY <1>4, SMT DEF LockCalls
  <2> QED BY <1>2, <2>1, <2>2, <2>3, OtherOf
<1> QED BY <1>1, <1>2, <1>3, <1>4, <1>5, SameObjects, FrameOf

LEMMA SemPostStoreFrame ==
  ASSUME SyncTypeOK, NEW t \in Threads, SemPostStore(t), UNCHANGED <<mutex, holds>>,
         Deassert(active' \ active)
  PROVE  Frame(t) /\ Other(t)
<1> DEFINE s == call[t].on
<1>1. /\ s \in Sems \cap program[t] /\ UNCHANGED kernel /\ UNCHANGED fixed /\ program' = program
      /\ "sempost" \in program[t]
  BY DEF SemPostStore, InCall, kernel, fixed, SyncTypeOK, CallTypeOK, CallFits, CondWaits,
     SemWaits
<1>2. CallFits(t, "semstore", s)
  BY <1>1 DEF CallFits, CallOps, Subjects, LockCalls
<1>3. TableTypeOK' /\ \A u \in Threads : Untouched(u)
  BY <1>1, SameTable DEF SyncTypeOK
<1>4. SemTypeOK' /\ \A u \in Threads \ {t} : register'[u] = register[u]
  <2>1. register[t] + 1 \in Int /\ tokens[s] + 1 \in Int
    BY <1>1, SMT DEF SyncTypeOK, SemTypeOK
  <2>2. /\ value' = [value EXCEPT ![s] = register[t] + 1]
        /\ tokens' = [tokens EXCEPT ![s] = tokens[s] + 1]
        /\ register' = [register EXCEPT ![t] = 0]
    BY DEF SemPostStore
  <2>3. value' \in [Sems -> Int] /\ tokens' \in [Sems -> Int]
    BY <2>1, <2>2 DEF SyncTypeOK, SemTypeOK
  <2>4. register' \in [Threads -> Int] /\ \A u \in Threads \ {t} : register'[u] = register[u]
    BY <2>2, SMT DEF SyncTypeOK, SemTypeOK
  <2> QED BY <2>3, <2>4 DEF SemTypeOK
<1>5. /\ CallTypeOK' /\ call'[t] = [op |-> "semstore", on |-> s]
      /\ \A u \in Threads \ {t} : call'[u] = call[u]
  BY <1>1, <1>2, CallStep DEF SemPostStore, Enter, SyncTypeOK
<1>6. Other(t)
  <2>1. t \in active /\ call[t].op = "semload"
    BY DEF SemPostStore, InCall, SyncTypeOK, TableTypeOK, KernelTypeOK
  <2>2. call[t].op \notin LockCalls \cup {"relock"}
    BY ONLY <2>1, SMT DEF LockCalls
  <2>3. call'[t].op \notin LockCalls \cup {"relock", "condsignal", "aiosuspend"}
    BY ONLY <1>5, SMT DEF LockCalls
  <2> QED BY <1>3, <2>1, <2>2, <2>3, OtherOf
<1> QED BY <1>1, <1>3, <1>4, <1>5, <1>6, SameObjects, FrameOf

LEMMA SemPostSelectFrame ==
  ASSUME SyncTypeOK, NEW t \in Threads, SemPostSelect(t), UNCHANGED <<mutex, holds>>,
         Deassert(active' \ active)
  PROVE  Frame(t) /\ Other(t)
<1>1. UNCHANGED kernel /\ UNCHANGED fixed /\ program' = program /\ UNCHANGED sem
  BY DEF SemPostSelect, kernel, fixed
<1>2. \A w \in HighestPriorityBlocked(call[t].on, t) : CallFits(t, "sempost", w)
  <2>1. "sempost" \in program[t] /\ call[t].on \in Sems
    BY DEF SemPostSelect, InCall, SyncTypeOK, CallTypeOK, CallFits
  <2>2. ASSUME NEW w \in HighestPriorityBlocked(call[t].on, t)
        PROVE  w \in Threads \ {t} /\ SemWaits(w)
    <3>1. w \in Threads \ {t} /\ blockObject[w] = call[t].on
      BY DEF HighestPriorityBlocked, BlockedOn
    <3>2. blockObject[w] \in BlockObjects(w) \cup {NULL} /\ blockObject[w] \notin {NULL, Args(w)}
      BY <2>1, <3>1, SemAssumption, SyncAssumption DEF SyncTypeOK, TableTypeOK
    <3> QED BY <2>1, <3>1, <3>2 DEF BlockObjects
  <2> QED BY <2>1, <2>2 DEF CallFits, CallOps, Subjects, LockCalls
<1>3. TableTypeOK' /\ \A u \in Threads : Untouched(u)
  BY <1>1, SameTable DEF SyncTypeOK
<1>4. /\ CallTypeOK' /\ call'[t].op \in {"none", "sempost"}
      /\ \A u \in Threads \ {t} : call'[u] = call[u]
  <2>1. CASE Return(t)
    BY <1>1, <2>1, ReturnStep, SMT DEF Idle, SyncTypeOK
  <2>2. ASSUME NEW w \in HighestPriorityBlocked(call[t].on, t), Enter(t, "sempost", w)
        PROVE  /\ CallTypeOK' /\ call'[t].op = "sempost"
               /\ \A u \in Threads \ {t} : call'[u] = call[u]
    <3>1. /\ CallTypeOK' /\ call'[t] = [op |-> "sempost", on |-> w]
          /\ \A u \in Threads \ {t} : call'[u] = call[u]
      BY <1>1, <1>2, <2>2, CallStep DEF Enter, SyncTypeOK
    <3> QED BY <3>1, SMT
  <2>3. Return(t) \/ \E w \in HighestPriorityBlocked(call[t].on, t) : Enter(t, "sempost", w)
    BY DEF SemPostSelect
  <2> QED BY <2>1, <2>2, <2>3
<1>5. Other(t)
  <2>1. t \in active /\ call[t].op = "semstore"
    BY DEF SemPostSelect, InCall, SyncTypeOK, TableTypeOK, KernelTypeOK
  <2> QED BY <1>3, <1>4, <2>1, OtherOf DEF LockCalls
<1> QED BY <1>1, <1>3, <1>4, <1>5, SameObjects, FrameOf

LEMMA SvcallSemPostFrame ==
  ASSUME SyncTypeOK, NEW t \in Threads, SvcallSemPost(t), UNCHANGED <<mutex, holds>>,
         Deassert(active' \ active)
  PROVE  Frame(t) /\ Woken(call[t].on, "SEMAPHORE") /\ Other(t)
<1> DEFINE w == call[t].on
<1>1. /\ t \in exec /\ call[t].op = "sempost" /\ AssertActive({w}, "SEMAPHORE")
      /\ UNCHANGED <<fixed, priority>> /\ UNCHANGED fixed /\ UNCHANGED sem
      /\ UpdateOnWake(priority[w]) /\ Return(t)
  BY DEF SvcallSemPost, InCall
<1>2. w \in Threads \ {t} /\ call[t] = [op |-> "sempost", on |-> w]
  BY <1>1 DEF SyncTypeOK, CallTypeOK, CallFits, CondWaits, SemWaits
<1>3. {w} \in SUBSET Threads /\ "SEMAPHORE" \in UnblockTypes /\ priority[w] \in Priorities \cup {-1}
  BY <1>2 DEF UnblockTypes, SyncTypeOK, TableTypeOK, KernelTypeOK
<1>4. TableTypeOK' /\ \A u \in Threads : IF u \in {w} THEN Woken(u, "SEMAPHORE") ELSE Untouched(u)
  BY <1>1, <1>3, WakeTable DEF SyncTypeOK
<1>7. CallTypeOK' /\ call'[t] = Idle /\ \A u \in Threads \ {t} : call'[u] = call[u]
  BY <1>1, ReturnStep DEF SyncTypeOK, fixed
<1>5. Reason(w, "SEMAPHORE")
  BY <1>1, <1>2, <1>7 DEF Reason, WakesChosen
<1>6. \A u \in Threads : Left(u)
  BY <1>3, <1>4, <1>5 DEF Left
<1>8. Other(t)
  <2>1. t \in active /\ t \notin {w}
    BY <1>1, <1>2 DEF SyncTypeOK, TableTypeOK, KernelTypeOK
  <2> QED BY <1>1, <1>4, <1>7, <2>1, OtherOf DEF LockCalls
<1> QED BY <1>1, <1>2, <1>4, <1>6, <1>7, <1>8, SameObjects, FrameOf

-----------------------------------------------------------------------------
(* The steps of asynchronous I/O                                           *)

\* What the callback does to t: a signal, a wake-up, or nothing; its block object is cleared
\* if it is the caller.
CalledBack(t, a, inProgress, caller) ==
  \/ /\ \/ Woken(t, "SIGNAL") /\ "sigevent" \in program[t]
        \/ Woken(t, "AIO") /\ t \in suspended /\ TRUE \in Wakes(t, a, inProgress)
     /\ t \notin suspended'
  \/ /\ t \in active' <=> t \in active
     /\ t \in wake' <=> t \in wake
     /\ blockObject'[t] = IF t \in caller THEN NULL ELSE blockObject[t]
     /\ unblockType'[t] = unblockType[t]
     /\ suspended' = suspended
     /\ FALSE \in Wakes(t, a, inProgress) /\ UNCHANGED sched

LEMMA CallbackTable ==
  ASSUME TableTypeOK, AioTypeOK, NEW t \in Threads, NEW a, NEW inProgress, NEW caller \in SUBSET {t},
         Callback(t, a, inProgress, caller)
  PROVE  /\ TableTypeOK' /\ UNCHANGED <<fixed, priority, list, onAll>> /\ suspended' \subseteq suspended
         /\ \A u \in Threads \ {t} : Untouched(u) /\ (u \in suspended' <=> u \in suspended)
         /\ CalledBack(t, a, inProgress, caller)
<1>1. PICK wakes \in Wakes(t, a, inProgress), sends \in Sends(t) :
        LET ws == IF wakes \/ sends THEN {t} ELSE {}
        IN /\ active' = active \cup ws
           /\ unblockType' = Put(unblockType, ws, IF sends THEN "SIGNAL" ELSE "AIO")
           /\ blockObject' = Put(blockObject, ws \cup caller, NULL)
           /\ wake' = wake \ ws
           /\ suspended' = suspended \ ws
           /\ UNCHANGED <<fixed, priority, list, onAll>>
           /\ IF ws = {} THEN UNCHANGED sched ELSE UpdateOnWake(priority[t])
  BY DEF Callback
<1> DEFINE ws == IF wakes \/ sends THEN {t} ELSE {}
           type == IF sends THEN "SIGNAL" ELSE "AIO"
<1>2. /\ active' = active \cup ws /\ wake' = wake \ ws /\ suspended' = suspended \ ws
      /\ unblockType' = Put(unblockType, ws, type)
      /\ blockObject' = Put(blockObject, ws \cup caller, NULL)
      /\ UNCHANGED <<fixed, priority, list, onAll>> /\ UNCHANGED <<program, base>>
      /\ IF ws = {} THEN UNCHANGED sched ELSE UpdateOnWake(priority[t])
  BY <1>1 DEF fixed
<1>3. ws \subseteq Threads /\ type \in UnblockTypes /\ wakes \in BOOLEAN /\ sends \in BOOLEAN
  BY DEF UnblockTypes, Wakes, Sends
<1>4. \A u \in Threads : /\ unblockType'[u] = IF u \in ws THEN type ELSE unblockType[u]
                         /\ blockObject'[u] = IF u \in ws \cup caller THEN NULL ELSE blockObject[u]
  BY <1>2 DEF Put
<1>5. exec' \subseteq active' /\ curPrio' \in Priorities
  <2>1. CASE UNCHANGED sched
    BY <1>2, <2>1 DEF sched, TableTypeOK, KernelTypeOK
  <2>2. CASE UpdateOnWake(priority[t])
    BY <1>2, <2>2, WakeType DEF TableTypeOK, KernelTypeOK
  <2> QED BY <1>2, <2>1, <2>2
<1>6. unblockType' \in [Threads -> UnblockTypes] /\ blockObject' \in [Threads -> AllObjects \cup {NULL}]
  BY <1>2, <1>3 DEF Put, TableTypeOK, KernelTypeOK
<1>7. KernelTypeOK(AllObjects)'
  BY <1>2, <1>3, <1>5, <1>6 DEF TableTypeOK, KernelTypeOK
<1>8. \A u \in Threads : blockObject'[u] \in BlockObjects(u)' \cup {NULL}
  BY <1>2, <1>4 DEF TableTypeOK, BlockObjects, CondWaits, SemWaits
<1>9. sends => "sigevent" \in program[t]
  BY DEF Sends
<1>10. wakes => t \in suspended
  BY DEF Wakes
<1>11. \A u \in Threads \ {t} : Untouched(u) /\ (u \in suspended' <=> u \in suspended)
  BY <1>2, <1>4 DEF Untouched
<1>12. CalledBack(t, a, inProgress, caller)
  <2>1. CASE sends
    BY <1>2, <1>4, <1>9, <2>1 DEF Woken, CalledBack
  <2>2. CASE ~sends /\ wakes
    <3>1. wakes = TRUE
      BY <1>3, <2>2
    <3> QED BY <1>2, <1>3, <1>4, <1>10, <2>2, <3>1 DEF Woken, CalledBack
  <2>3. CASE ~sends /\ ~wakes
    <3>1. wakes = FALSE
      BY <1>3, <2>3
    <3> QED BY <1>2, <1>4, <2>3, <3>1 DEF CalledBack
  <2> QED BY <2>1, <2>2, <2>3
<1> QED BY <1>2, <1>7, <1>8, <1>11, <1>12 DEF TableTypeOK

\* The driver completes a request, on its own or for aio_cancel: every thread is passive.
LEMMA CompleteFrame ==
  ASSUME SyncTypeOK, NEW a \in Requests, Complete(a), UNCHANGED objects
  PROVE  Quiet
<1> DEFINE t == tid[a]
<1>1. /\ t \in Threads /\ driver' = driver \ {a} /\ UNCHANGED tid /\ UNCHANGED call
      /\ Callback(t, a, driver \ {a}, {}) /\ {} \in SUBSET {t}
  BY DEF Complete, SyncTypeOK, AioTypeOK
<1>2. /\ TableTypeOK' /\ UNCHANGED <<fixed, priority, list, onAll>> /\ suspended' \subseteq suspended
      /\ \A u \in Threads \ {t} : Untouched(u) /\ (u \in suspended' <=> u \in suspended)
      /\ \/ /\ \/ Woken(t, "SIGNAL") /\ "sigevent" \in program[t]
               \/ Woken(t, "AIO") /\ t \in suspended /\ TRUE \in Wakes(t, a, driver \ {a})
            /\ t \notin suspended'
         \/ Untouched(t) /\ suspended' = suspended /\ FALSE \in Wakes(t, a, driver \ {a})
  <2> HIDE DEF t
  <2>1. /\ TableTypeOK' /\ UNCHANGED <<fixed, priority, list, onAll>> /\ suspended' \subseteq suspended
        /\ \A u \in Threads \ {t} : Untouched(u) /\ (u \in suspended' <=> u \in suspended)
        /\ CalledBack(t, a, driver \ {a}, {})
    BY <1>1, CallbackTable DEF SyncTypeOK
  <2>2. CalledBack(t, a, driver \ {a}, {}) =>
          \/ /\ \/ Woken(t, "SIGNAL") /\ "sigevent" \in program[t]
                \/ Woken(t, "AIO") /\ t \in suspended /\ TRUE \in Wakes(t, a, driver \ {a})
             /\ t \notin suspended'
          \/ Untouched(t) /\ suspended' = suspended /\ FALSE \in Wakes(t, a, driver \ {a})
    BY DEF CalledBack, Untouched
  <2> QED BY <2>1, <2>2
<1>3. \A u \in Threads : Left(u)
  <2>1. t \in suspended /\ call[t].op = "aiosuspend" /\ TRUE \in Wakes(t, a, driver \ {a})
          => Finished(t, driver)'
    BY <1>1, <1>2 DEF Wakes, Finished
  <2> QED BY <1>1, <1>2, <2>1 DEF Left, Reason, UnblockTypes
<1>4. MutexTypeOK' /\ SemTypeOK' /\ CallTypeOK'
      /\ \A u \in Threads : call'[u] = call[u] /\ holds'[u] = holds[u] /\ register'[u] = register[u]
  BY <1>1, <1>2, SameObjects DEF objects
<1>5. AioTypeOK'
  BY <1>1, <1>2 DEF SyncTypeOK, AioTypeOK, fixed
<1>6. \A u \in Threads : Passive(u)
  <2>1. \A u \in Threads : /\ u \in suspended' => u \in suspended /\ (u \in active' => u \in active)
                           /\ u \in suspended \ active' => u \in suspended'
    BY <1>2 DEF Untouched, Woken
  <2>2. ASSUME NEW u \in Threads PROVE Served(u)
    <3> SUFFICES ASSUME \A v \in Threads \ {u} : program[u] \cap program[v] \cap Requests = {},
                        u \in suspended \ active', call[u].op = "aiosuspend", ~Finished(u, driver)
                 PROVE  ~Finished(u, driver)'
      BY <1>1 DEF Served
    <3>1. CASE a \notin list[u]
      BY <1>1, <1>2, <3>1, SMTT(30) DEF Finished
    <3>2. CASE a \in list[u]
      <4>1. u = t
        BY <1>1, <3>2 DEF SyncTypeOK, AioTypeOK, Complete
      <4>2. FALSE \in Wakes(t, a, driver \ {a})
        BY <1>2, <4>1 DEF Woken
      <4> QED BY <1>1, <1>2, <3>2, <4>1, <4>2 DEF Wakes, Finished
    <3> QED BY <3>1, <3>2
  <2> QED BY <1>2, <1>3, <1>4, <2>1, <2>2 DEF Passive
<1>7. UNCHANGED fixed /\ UNCHANGED owner
  BY <1>2 DEF objects, mutex
<1> QED BY <1>2, <1>4, <1>5, <1>6, <1>7 DEF SyncTypeOK, Quiet

\* A step of aio.c by t that leaves the requests of the other threads alone.
LEMMA AioFrameOf ==
  ASSUME SyncTypeOK, NEW t \in Threads, UNCHANGED fixed, UNCHANGED objects,
         TableTypeOK', AioTypeOK', CallTypeOK',
         \A u \in Threads \ {t} : /\ call'[u] = call[u] /\ Untouched(u) /\ list'[u] = list[u]
                                  /\ u \in onAll' <=> u \in onAll
                                  /\ u \in suspended' <=> u \in suspended,
         driver \subseteq driver', driver' \subseteq driver \cup (Requests \cap program[t])
  PROVE  Frame(t)
<1>1. /\ MutexTypeOK' /\ SemTypeOK'
      /\ \A u \in Threads : holds'[u] = holds[u] /\ register'[u] = register[u]
  BY SameObjects DEF objects
<1>2. ASSUME NEW u \in Threads \ {t} PROVE Served(u)
  <2> SUFFICES ASSUME \A v \in Threads \ {u} : program[u] \cap program[v] \cap Requests = {}
               PROVE  /\ list[u] \cap driver' \subseteq driver
                      /\ Finished(u, driver)' => Finished(u, driver)
    BY DEF Served
  <2>1. list[u] \subseteq program[u]
    BY DEF SyncTypeOK, AioTypeOK
  <2>2. list[u] \cap driver' = list[u] \cap driver
    BY <2>1
  <2>3. (list[u] \subseteq driver') <=> (list[u] \subseteq driver)
    BY <2>2
  <2> QED BY <2>2, <2>3 DEF Finished
<1>3. \A u \in Threads \ {t} : Passive(u)
  BY <1>1, <1>2 DEF Passive, Left, Untouched
<1> QED BY <1>1, <1>3 DEF Frame, SyncTypeOK

LEMMA DataTransferFrame ==
  ASSUME SyncTypeOK, NEW t \in exec, NEW a \in Requests \cap program[t], data_transfer(t, a),
         UNCHANGED objects, CallTypeOK', \A u \in Threads \ {t} : call'[u] = call[u],
         call[t].op \in {"none", "listio"}, call'[t].op \in {"none", "listio"}
  PROVE  Frame(t) /\ Other(t) /\ (t \in suspended' => t \in suspended)
<1>1. t \in Threads /\ a \notin driver /\ tid' = [tid EXCEPT ![a] = t] /\ t \in active
  BY DEF data_transfer, SyncTypeOK, TableTypeOK, KernelTypeOK
<1>2. \A b \in driver : tid'[b] = tid[b]
  BY <1>1 DEF SyncTypeOK, AioTypeOK
<1>3. tid' \in [Requests -> Threads \cup {NoThread}] /\ tid'[a] = t
  BY <1>1 DEF SyncTypeOK, AioTypeOK
<1>4. CASE /\ driver' = driver \cup {a} /\ blockObject' = [blockObject EXCEPT ![t] = NULL]
           /\ UNCHANGED <<fixed, sched, active, unblockType, wake, priority, waiting>>
  <2>1. UNCHANGED <<program, base, exec, curPrio, active, unblockType, wake, priority, list, onAll, suspended>>
    BY <1>4 DEF fixed, sched, waiting
  <2>2. \A u \in Threads : blockObject'[u] = IF u = t THEN NULL ELSE blockObject[u]
    BY <1>4 DEF SyncTypeOK, TableTypeOK, KernelTypeOK
  <2>3. KernelTypeOK(AllObjects)'
    BY <1>1, <1>4, <2>1 DEF SyncTypeOK, TableTypeOK, KernelTypeOK
  <2>4. TableTypeOK' /\ \A u \in Threads \ {t} : Untouched(u)
    BY <2>1, <2>2, <2>3 DEF SyncTypeOK, TableTypeOK, BlockObjects, CondWaits, SemWaits,
       Untouched
  <2>5. AioTypeOK'
    BY <1>1, <1>2, <1>3, <1>4, <2>1 DEF SyncTypeOK, AioTypeOK
  <2>6. UNCHANGED fixed /\ Settled(t)
    BY <1>1, <1>4, <2>1, <2>2 DEF Settled
  <2>7. Other(t)
    BY <2>6, OtherOf DEF LockCalls
  <2> QED BY <1>1, <1>4, <2>1, <2>4, <2>5, <2>6, <2>7, AioFrameOf
<1>5. CASE driver' = driver /\ Callback(t, a, driver, {t})
  <2>1. /\ TableTypeOK' /\ UNCHANGED <<fixed, priority, list, onAll>> /\ suspended' \subseteq suspended
        /\ \A u \in Threads \ {t} : Untouched(u) /\ (u \in suspended' <=> u \in suspended)
        /\ CalledBack(t, a, driver, {t})
    BY <1>1, <1>5, CallbackTable DEF SyncTypeOK
  <2>2. AioTypeOK'
    BY <1>2, <1>3, <1>5, <2>1 DEF SyncTypeOK, AioTypeOK, fixed
  <2>3. Settled(t)
    BY <1>1, <2>1 DEF Settled, CalledBack, Woken
  <2>4. Other(t)
    BY <2>3, OtherOf DEF LockCalls
  <2> QED BY <1>1, <1>5, <2>1, <2>2, <2>4, AioFrameOf
<1> QED BY <1>4, <1>5 DEF data_transfer

LEMMA ListioFrame ==
  ASSUME SyncTypeOK, NEW t \in Threads, NEW as \in SUBSET (Requests \cap program[t]),
         lio_listio(t, as), UNCHANGED objects
  PROVE  Frame(t) /\ Other(t) /\ (t \in suspended' => t \in suspended)
<1>1. /\ UNCHANGED kernel /\ UNCHANGED fixed /\ UNCHANGED <<program, tid, driver, suspended>>
      /\ list' = [list EXCEPT ![t] = as] /\ onAll' = onAll \cup {t} /\ Enter(t, "listio", as)
  BY DEF lio_listio, kernel, fixed, requests
<1>2. CallFits(t, "listio", as)
  BY DEF lio_listio, Calls, CallFits, CondWaits, SemWaits, CallOps, Subjects, LockCalls
<1>3. TableTypeOK' /\ \A u \in Threads : Untouched(u)
  BY <1>1, SameTable DEF SyncTypeOK
<1>4. AioTypeOK'
  BY <1>1 DEF SyncTypeOK, AioTypeOK
<1>5. /\ CallTypeOK' /\ call'[t] = [op |-> "listio", on |-> as]
      /\ \A u \in Threads \ {t} : call'[u] = call[u]
  BY <1>1, <1>2, CallStep DEF Enter, SyncTypeOK
<1>6. \A u \in Threads \ {t} : list'[u] = list[u] /\ (u \in onAll' <=> u \in onAll)
                               /\ (u \in suspended' <=> u \in suspended)
  BY <1>1 DEF SyncTypeOK, AioTypeOK
<1>7. Other(t)
  <2>1. t \in active /\ call[t] = Idle
    BY DEF lio_listio, Calls, SyncTypeOK, TableTypeOK, KernelTypeOK
  <2>2. call[t].op \notin LockCalls \cup {"relock"}
    BY ONLY <2>1, SMT DEF Idle, LockCalls
  <2>3. call'[t].op \notin LockCalls \cup {"relock", "condsignal", "aiosuspend"}
    BY ONLY <1>5, SMT DEF LockCalls
  <2> QED BY <1>3, <2>1, <2>2, <2>3, OtherOf
<1> QED BY <1>1, <1>3, <1>4, <1>5, <1>6, <1>7, AioFrameOf

LEMMA SuspendFrame ==
  ASSUME SyncTypeOK, NEW t \in exec, NEW isTimed \in BOOLEAN, svcall_suspend(t, isTimed),
         UNCHANGED objects, UNCHANGED requests, list' \in [Threads -> SUBSET Requests],
         list'[t] \subseteq program[t], \A u \in Threads \ {t} : list'[u] = list[u],
         onAll' \in {onAll, onAll \ {t}}, call[t].op \in {"none", "listio"},
         program[t] \cap {"listio", "aiosuspend"} # {}
  PROVE  /\ Frame(t) /\ Other(t)
         /\ t \in suspended' =>
              \/ t \in suspended \/ "expired" \in program[t]
              \/ t \notin active' /\ call'[t].op = "aiosuspend"
<1>1. t \in Threads /\ Args(t) \in BlockObjects(t) /\ CallFits(t, "aiosuspend", NULL)
  BY DEF SyncTypeOK, TableTypeOK, KernelTypeOK, BlockObjects, CondWaits, SemWaits, CallFits,
     CallOps, Subjects, LockCalls
<1>2. ASSUME UNCHANGED fixed, TableTypeOK', \A u \in Threads \ {t} : Untouched(u),
             suspended' \in {suspended, suspended \cup {t}},
             Settled(t) \/ (t \in active /\ Untouched(t)),
             call'[t] = Idle \/ (call'[t].op = "aiosuspend" /\ Suspended(t)),
             CallTypeOK', \A u \in Threads \ {t} : call'[u] = call[u]
      PROVE  Frame(t) /\ Other(t)
  <2>1. AioTypeOK'
    BY <1>1, <1>2 DEF SyncTypeOK, AioTypeOK, requests, fixed
  <2>2. \A u \in Threads \ {t} : (u \in onAll' <=> u \in onAll) /\ (u \in suspended' <=> u \in suspended)
    BY <1>2
  <2>3. Other(t)
    BY <1>2, OtherOf DEF LockCalls
  <2>4. driver \subseteq driver' /\ driver' \subseteq driver \cup (Requests \cap program[t])
    BY DEF requests
  <2> QED BY <1>1, <1>2, <2>1, <2>2, <2>3, <2>4, AioFrameOf
<1>3. CASE Return(t) /\ UNCHANGED <<kernel, suspended>>
  <2>1. UNCHANGED kernel /\ UNCHANGED fixed /\ program' = program /\ suspended' = suspended
    BY <1>3 DEF kernel, fixed
  <2>2. TableTypeOK' /\ \A u \in Threads : Untouched(u)
    BY <2>1, SameTable DEF SyncTypeOK
  <2>3. /\ CallTypeOK' /\ call'[t] = Idle /\ t \in active
        /\ \A u \in Threads \ {t} : call'[u] = call[u]
    BY <1>1, <1>3, <2>1, ReturnStep DEF SyncTypeOK, TableTypeOK, KernelTypeOK
  <2> QED BY <1>1, <1>2, <2>1, <2>2, <2>3
<1>4. ASSUME UNCHANGED <<fixed, priority>>, suspended' = suspended \cup {t}, Enter(t, "aiosuspend", NULL),
             ~Finished(t, driver)',
             \/ Block(t, Args(t), isTimed)
             \/ /\ "expired" \in program[t]
                /\ BlockExpired(t, Args(t)) /\ UNCHANGED unblockType
      PROVE  Frame(t) /\ Other(t) /\ ("expired" \in program[t] \/ t \notin active') /\ call'[t].op = "aiosuspend"
  <2>1. /\ CallTypeOK' /\ call'[t] = [op |-> "aiosuspend", on |-> NULL]
        /\ \A u \in Threads \ {t} : call'[u] = call[u]
    BY <1>1, <1>4, CallStep DEF Enter, SyncTypeOK, fixed
  <2>2. /\ TableTypeOK' /\ blockObject'[t] = Args(t) /\ unblockType'[t] = unblockType[t]
        /\ "expired" \in program[t] \/ t \notin active'
        /\ \A u \in Threads \ {t} : Untouched(u)
    <3>1. CASE Block(t, Args(t), isTimed)
      BY <1>1, <1>4, <3>1, BlockTable, SMTT(30) DEF SyncTypeOK
    <3>2. CASE "expired" \in program[t] /\ BlockExpired(t, Args(t)) /\ UNCHANGED unblockType
      <4>1. unblockType' \in [Threads -> UnblockTypes] /\ \A u \in Threads \ {t} : unblockType'[u] = unblockType[u]
        BY <3>2 DEF SyncTypeOK, TableTypeOK, KernelTypeOK
      <4> QED BY <1>1, <1>4, <3>2, <4>1, ExpiredTable DEF SyncTypeOK
    <3> QED BY <1>4, <3>1, <3>2
  <2>3. UNCHANGED fixed /\ Settled(t)
    BY <1>4, <2>1, <2>2, SMTT(30) DEF Settled
  <2>4. call'[t].op = "aiosuspend" /\ Suspended(t)
    <3>1. call'[t].op = "aiosuspend"
      BY ONLY <2>1, SMT
    <3>2. t \in suspended'
      BY <1>4
    <3> QED BY <1>4, <2>2, <3>1, <3>2 DEF Suspended
  <2> QED BY <1>2, <1>4, <2>1, <2>2, <2>3, <2>4
<1> QED BY <1>3, <1>4 DEF svcall_suspend

LEMMA SuspendReturnFrame ==
  ASSUME SyncTypeOK, NEW t \in exec, call[t].op \in {"listio", "aiosuspend"}, Return(t),
         UNCHANGED kernel, UNCHANGED aio, UNCHANGED objects
  PROVE  Frame(t) /\ Other(t) /\ suspended' = suspended
<1>1. /\ t \in Threads /\ t \in active /\ UNCHANGED fixed
      /\ UNCHANGED <<program, tid, driver, list, onAll, suspended>>
  BY DEF SyncTypeOK, TableTypeOK, KernelTypeOK, kernel, fixed, aio, requests, waiting
<1>2. TableTypeOK' /\ \A u \in Threads : Untouched(u)
  BY SameTable DEF SyncTypeOK
<1>3. AioTypeOK'
  BY <1>1 DEF SyncTypeOK, AioTypeOK
<1>4. CallTypeOK' /\ call'[t] = Idle /\ \A u \in Threads \ {t} : call'[u] = call[u]
  BY <1>1, ReturnStep DEF SyncTypeOK
<1>5. Other(t)
  BY <1>1, <1>2, <1>4, OtherOf DEF LockCalls
<1> QED BY <1>1, <1>2, <1>3, <1>4, <1>5, AioFrameOf

-----------------------------------------------------------------------------
(* The steps of the system                                                 *)

\* Nobody acts: the end of a round, the timer, a signal.
LEMMA SystemFrameOf ==
  ASSUME SyncTypeOK, UNCHANGED fixed, UNCHANGED call, UNCHANGED objects, TableTypeOK',
         \A u \in Threads : Left(u),
         NEW ws, active' \ active \subseteq ws, ws \subseteq active', Deassert(ws)
  PROVE  Quiet
<1>1. UNCHANGED <<mutex, holds>> /\ UNCHANGED sem /\ program' = program
  BY DEF objects, fixed
<1>2. /\ MutexTypeOK' /\ SemTypeOK' /\ CallTypeOK'
      /\ \A u \in Threads : call'[u] = call[u] /\ holds'[u] = holds[u] /\ register'[u] = register[u]
  BY <1>1, SameObjects
<1>3. AioTypeOK' /\ \A u \in Threads : Passive(u)
  BY <1>1, <1>2, ObjectFrame DEF SyncTypeOK
<1>4. UNCHANGED owner
  BY <1>1 DEF mutex
<1> QED BY <1>2, <1>3, <1>4 DEF SyncTypeOK, Quiet

LEMMA RoundEndFrame ==
  ASSUME SyncTypeOK, RoundEnd, Deassert({}), UNCHANGED call, UNCHANGED objects
  PROVE  Quiet
<1>1. /\ UNCHANGED <<program, base, curPrio, active, blockObject, unblockType, wake, priority>>
      /\ UNCHANGED fixed /\ exec' \subseteq active'
  BY DEF RoundEnd, fixed, block
<1>2. TableTypeOK' /\ \A u \in Threads : Untouched(u)
  BY <1>1 DEF SyncTypeOK, TableTypeOK, KernelTypeOK, BlockObjects, CondWaits, SemWaits,
     Untouched
<1>3. \A u \in Threads : Left(u)
  BY <1>2 DEF Left
<1>4. active' \ active \subseteq {} /\ {} \subseteq active'
  BY <1>1
<1> QED BY <1>1, <1>2, <1>3, <1>4, SystemFrameOf

LEMMA TimerMatchFrame ==
  ASSUME SyncTypeOK, NEW ws \in SUBSET Threads, TimerMatch(ws), Deassert(ws), UNCHANGED call,
         UNCHANGED objects
  PROVE  Quiet
<1>1. PICK p \in Priorities : UNCHANGED priority /\ UpdateOnWake(p)
  BY DEF TimerMatch
<1>2. AssertActive(ws, "SLEEP") /\ UNCHANGED <<fixed, priority>> /\ UNCHANGED fixed /\ ws \subseteq wake \ active
  BY <1>1 DEF TimerMatch
<1>3. "SLEEP" \in UnblockTypes /\ p \in Priorities \cup {-1}
  BY DEF UnblockTypes
<1>4. TableTypeOK' /\ \A u \in Threads : IF u \in ws THEN Woken(u, "SLEEP") ELSE Untouched(u)
  BY <1>1, <1>2, <1>3, WakeTable DEF SyncTypeOK
<1>5. \A u \in ws : Reason(u, "SLEEP")
  BY <1>2 DEF Reason
<1>6. \A u \in Threads : Left(u)
  BY <1>3, <1>4, <1>5 DEF Left
<1>7. active' \ active \subseteq ws /\ ws \subseteq active'
  BY <1>2 DEF AssertActive
<1> QED BY <1>2, <1>4, <1>6, <1>7, SystemFrameOf

LEMMA SignalFrame ==
  ASSUME SyncTypeOK, NEW t \in Threads, Signal(t), Deassert({t}), UNCHANGED call, UNCHANGED objects
  PROVE  Quiet
<1>1. /\ AssertActive({t}, "SIGNAL") /\ UNCHANGED <<fixed, priority>> /\ UNCHANGED fixed
      /\ UpdateOnWake(priority[t]) /\ "signal" \in program[t]
  BY DEF Signal
<1>2. "SIGNAL" \in UnblockTypes /\ priority[t] \in Priorities \cup {-1} /\ {t} \in SUBSET Threads
  BY DEF UnblockTypes, SyncTypeOK, TableTypeOK, KernelTypeOK
<1>3. TableTypeOK' /\ \A u \in Threads : IF u \in {t} THEN Woken(u, "SIGNAL") ELSE Untouched(u)
  BY <1>1, <1>2, WakeTable DEF SyncTypeOK
<1>4. Reason(t, "SIGNAL")
  BY <1>1 DEF Reason
<1>5. \A u \in Threads : Left(u)
  BY <1>2, <1>3, <1>4 DEF Left
<1>6. active' \ active \subseteq {t} /\ {t} \subseteq active'
  BY <1>1 DEF AssertActive
<1> QED BY <1>1, <1>3, <1>5, <1>6, SystemFrameOf

\* pause and sigwait: a step of t, which falls asleep with the block object it had.
LEMMA SignalWaitFrame ==
  ASSUME SyncTypeOK, NEW t \in Threads, SignalWait(t), Deassert({}), UNCHANGED call, UNCHANGED objects
  PROVE  Frame(t) /\ Other(t)
<1>1. /\ active' = active \ {t} /\ UpdateOnStopped /\ UNCHANGED fixed
      /\ UNCHANGED <<program, base, blockObject, unblockType, wake, priority>>
  BY DEF SignalWait, fixed
<1>2. exec' \subseteq active' /\ curPrio' \in Priorities
  BY <1>1, StoppedType DEF SyncTypeOK, TableTypeOK, KernelTypeOK
<1>3. TableTypeOK' /\ \A u \in Threads \ {t} : Left(u)
  BY <1>1, <1>2 DEF SyncTypeOK, TableTypeOK, KernelTypeOK, BlockObjects, CondWaits, SemWaits,
     Untouched, Left
<1>4. active' \ active = {}
  BY <1>1
<1>5. Other(t)
  <2>1. Settled(t) /\ call[t] = Idle /\ call'[t] = Idle
    BY <1>1 DEF SignalWait, Calls, Settled
  <2>2. call[t].op \notin LockCalls \cup {"relock"}
    BY ONLY <2>1, SMT DEF Idle, LockCalls
  <2> QED BY <2>1, <2>2, OtherOf
<1> QED BY <1>1, <1>3, <1>4, <1>5, SameObjects, FrameOf DEF objects

-----------------------------------------------------------------------------
(* All steps                                                               *)

\* The lock call op of t on m begins, on its own or as the end of a wait for a condition.
Begins(t, m, op) ==
  \/ call[t] = Idle /\ op \in program[t]
  \/ call[t] = [op |-> "relock", on |-> m] /\ op = "lock"

MutexActs(t) ==
  \/ \E m \in Mutexes \cap program[t], op \in LockCalls :
       Begins(t, m, op) /\ (Took(t, m) \/ Tried(t, m, op))
  \/ \E m \in Mutexes \cap program[t] : Unlocked(t, m)
  \/ Looped(t) \/ Returned(t)
  \/ \E c \in Conds \cap program[t], w \in Threads : Chose(t, c, w)
  \/ \E c \in Conds \cap program[t], m \in Mutexes \cap program[t], isTimed \in BOOLEAN :
       Waited(t, c, m, isTimed)

\* A thread sets its flag as it falls asleep in aio_suspend, unless its time limit has passed.
Suspends(t) ==
  t \in suspended' =>
    \/ t \in suspended \/ "expired" \in program[t]
    \/ t \notin active' /\ call'[t].op = "aiosuspend"

Acts(t) == t \in exec /\ t \in Threads /\ Frame(t) /\ Suspends(t) /\ (MutexActs(t) \/ Other(t))

LEMMA ObjectStepFrame ==
  ASSUME SyncTypeOK, NEW t \in Threads, t \in exec, Frame(t), MutexActs(t) \/ Other(t),
         Deassert(active' \ active)
  PROVE  Acts(t)
BY DEF Acts, Suspends, Deassert

LEMMA MutexStepFrame ==
  ASSUME SyncTypeOK, NEW t \in Threads, MutexStep(t), UNCHANGED sem, Deassert(active' \ active)
  PROVE  Acts(t)
<1>1. ASSUME NEW m \in Mutexes \cap program[t], Unlock(t, m) PROVE Acts(t)
  <2>1. t \in exec
    BY <1>1 DEF Unlock, Calls
  <2>2. Frame(t) /\ Unlocked(t, m)
    BY <1>1, UnlockFrame
  <2> QED BY <2>1, <2>2, ObjectStepFrame DEF MutexActs
<1>2. ASSUME NEW m \in Mutexes \cap program[t], NEW op \in LockCalls, Lock(t, m, op) PROVE Acts(t)
  <2>1. t \in exec /\ Begins(t, m, op) /\ MutexTrylock(t, m, op)
    BY <1>2 DEF Lock, Calls, Begins
  <2>2. Frame(t) /\ (Took(t, m) \/ Tried(t, m, op))
    BY <2>1, TrylockFrame
  <2> QED BY <2>1, <2>2, ObjectStepFrame DEF MutexActs
<1>3. ASSUME NEW m \in Mutexes \cap program[t], NEW op \in LockCalls, Calls(t, op), LockAgain(t, m)
      PROVE  Acts(t)
  <2>1. t \in exec /\ call[t] = Idle
    BY <1>3 DEF Calls
  <2> QED BY <1>3, <2>1, LockAgainFrame, ObjectStepFrame
<1>4. ASSUME LockLoop(t) PROVE Acts(t)
  BY <1>4, LockLoopFrame, ObjectStepFrame DEF MutexActs, LockLoop, InCall
<1>5. ASSUME LockReturn(t) PROVE Acts(t)
  BY <1>5, LockReturnFrame, ObjectStepFrame DEF MutexActs, LockReturn, InCall
<1> QED BY <1>1, <1>2, <1>3, <1>4, <1>5 DEF MutexStep

LEMMA CondStepFrame ==
  ASSUME SyncTypeOK, NEW t \in Threads, CondStep(t), UNCHANGED sem, Deassert(active' \ active)
  PROVE  Acts(t)
<1>1. ASSUME NEW c \in Conds \cap program[t], CondSignal(t, c) PROVE Acts(t)
  <2>1. t \in exec
    BY <1>1 DEF CondSignal, Calls
  <2>2. Frame(t) /\ \E w \in Threads : Chose(t, c, w)
    BY <1>1, CondSignalFrame
  <2> QED BY <2>1, <2>2, ObjectStepFrame DEF MutexActs
<1>2. ASSUME NEW c \in Conds \cap program[t], CondBroadcast(t, c) PROVE Acts(t)
  BY <1>2, CondBroadcastFrame, ObjectStepFrame DEF CondBroadcast, Calls
<1>3. ASSUME NEW c \in Conds \cap program[t], NEW m \in Mutexes \cap program[t],
             NEW isTimed \in BOOLEAN, CondWait(t, c, m, isTimed)
      PROVE  Acts(t)
  <2>1. t \in exec
    BY <1>3 DEF CondWait, Calls
  <2>2. Frame(t) /\ Waited(t, c, m, isTimed)
    BY <1>3, CondWaitFrame
  <2> QED BY <2>1, <2>2, ObjectStepFrame DEF MutexActs
<1>4. ASSUME CondRelock(t) PROVE Acts(t)
  <2> DEFINE m == call[t].on
  <2>1. t \in exec /\ call[t].op = "relock" /\ MutexTrylock(t, m, "lock") /\ "lock" \in LockCalls
    BY <1>4 DEF CondRelock, InCall, LockCalls
  <2>2. m \in Mutexes \cap program[t] /\ Begins(t, m, "lock")
    BY <2>1 DEF SyncTypeOK, CallTypeOK, CallFits, Begins
  <2>3. Frame(t) /\ (Took(t, m) \/ Tried(t, m, "lock"))
    BY <2>1, <2>2, TrylockFrame
  <2> QED BY <2>1, <2>2, <2>3, ObjectStepFrame DEF MutexActs
<1>5. ASSUME SvcallCondSignal(t) PROVE Acts(t)
  BY <1>5, SvcallCondSignalFrame, ObjectStepFrame DEF SvcallCondSignal, InCall
<1> QED BY <1>1, <1>2, <1>3, <1>4, <1>5 DEF CondStep

LEMMA SemStepFrame ==
  ASSUME SyncTypeOK, NEW t \in Threads, SemStep(t), UNCHANGED <<mutex, holds>>, Deassert(active' \ active)
  PROVE  Acts(t)
<1> SUFFICES t \in exec /\ Frame(t) /\ Other(t)
  BY ObjectStepFrame
<1>1. ASSUME NEW s \in Sems \cap program[t], SemWait(t, s)
      PROVE  t \in exec /\ Frame(t) /\ Other(t)
  <2>1. t \in exec /\ call[t].op \in {"none", "semwait"} /\ SemWaits(t) /\ SvcallSemWait(t, s)
    <3>1. t \in exec /\ call[t] = Idle /\ "semwait" \in program[t] /\ SvcallSemWait(t, s)
      BY <1>1 DEF SemWait, Calls
    <3>2. Idle.op = "none"
      BY DEF Idle
    <3> QED BY <3>1, <3>2 DEF SemWaits
  <2> QED BY <2>1, SvcallSemWaitFrame
<1>2. ASSUME SemWaitAgain(t)
      PROVE  t \in exec /\ Frame(t) /\ Other(t)
  <2>1. t \in exec /\ call[t].op \in {"none", "semwait"} /\ SvcallSemWait(t, call[t].on)
    BY <1>2 DEF SemWaitAgain, InCall
  <2>2. SemWaits(t) /\ call[t].on \in Sems \cap program[t]
    BY <1>2 DEF SemWaitAgain, InCall, SyncTypeOK, CallTypeOK, CallFits
  <2> QED BY <2>1, <2>2, SvcallSemWaitFrame
<1>3. ASSUME NEW s \in Sems \cap program[t], SemTrywait(t, s)
      PROVE  t \in exec /\ Frame(t) /\ Other(t)
  <2>1. t \in exec /\ Take(s) /\ UNCHANGED kernel /\ UNCHANGED call /\ call[t] = Idle
    BY <1>3 DEF SemTrywait, Calls
  <2>2. t \in active /\ call[t].op \notin LockCalls \cup {"relock", "condsignal", "aiosuspend"}
    BY <2>1, SMTT(30) DEF Idle, LockCalls, SyncTypeOK, TableTypeOK, KernelTypeOK
  <2> QED BY <2>1, <2>2, TakeFrame
<1>4. ASSUME SemTimedwaitReturn(t)
      PROVE  t \in exec /\ Frame(t) /\ Other(t)
  <2>1. /\ t \in exec /\ (Take(call[t].on) \/ UNCHANGED sem) /\ UNCHANGED kernel /\ Return(t)
        /\ call[t].op = "semtimedwait"
    BY <1>4 DEF SemTimedwaitReturn, InCall
  <2>2. /\ t \in active /\ call[t].op \notin LockCalls \cup {"relock", "condsignal", "aiosuspend"}
        /\ call[t].on \in Sems
    BY <2>1 DEF LockCalls, SyncTypeOK, TableTypeOK, KernelTypeOK, CallTypeOK, CallFits
  <2> QED BY <2>1, <2>2, TakeFrame
<1>5. ASSUME NEW s \in Sems \cap program[t], SemTimedwait(t, s)
      PROVE  t \in exec /\ Frame(t) /\ Other(t)
  BY <1>5, SemTimedwaitFrame DEF SemTimedwait, Calls
<1>6. ASSUME NEW s \in Sems \cap program[t], SemPostLoad(t, s)
      PROVE  t \in exec /\ Frame(t) /\ Other(t)
  BY <1>6, SemPostLoadFrame DEF SemPostLoad, Calls
<1>7. ASSUME SemPostStore(t) PROVE t \in exec /\ Frame(t) /\ Other(t)
  BY <1>7, SemPostStoreFrame DEF SemPostStore, InCall
<1>8. ASSUME SemPostSelect(t) PROVE t \in exec /\ Frame(t) /\ Other(t)
  BY <1>8, SemPostSelectFrame DEF SemPostSelect, InCall
<1>9. ASSUME SvcallSemPost(t) PROVE t \in exec /\ Frame(t) /\ Other(t)
  BY <1>9, SvcallSemPostFrame DEF SvcallSemPost, InCall
<1> QED BY <1>1, <1>2, <1>3, <1>4, <1>5, <1>6, <1>7, <1>8, <1>9 DEF SemStep

LEMMA AioStepFrame ==
  ASSUME SyncTypeOK, NEW t \in Threads, AioStep(t), UNCHANGED objects
  PROVE  Quiet \/ Acts(t)
<1>1. ASSUME NEW a \in Requests \cap program[t], aio_read(t, a) PROVE Acts(t)
  <2>1. t \in exec /\ data_transfer(t, a) /\ UNCHANGED call /\ call[t] = Idle
    BY <1>1 DEF aio_read, Calls
  <2>2. /\ CallTypeOK' /\ \A u \in Threads \ {t} : call'[u] = call[u]
        /\ call[t].op \in {"none", "listio"} /\ call'[t].op \in {"none", "listio"}
    <3>1. UNCHANGED program
      <4>1. UNCHANGED fixed
        BY <2>1 DEF data_transfer, Callback
      <4> QED BY <4>1 DEF fixed
    <3> QED BY <2>1, <3>1, SameCall, SMT DEF SyncTypeOK, Idle
  <2> QED BY <2>1, <2>2, DataTransferFrame DEF Acts, Suspends
<1>2. ASSUME NEW a \in Requests \cap program[t], aio_cancel(t, a) PROVE Quiet
  BY <1>2, CompleteFrame DEF aio_cancel
<1>3. ASSUME NEW as \in SUBSET (Requests \cap program[t]), lio_listio(t, as) PROVE Acts(t)
  <2>1. t \in exec
    BY <1>3 DEF lio_listio, Calls
  <2> QED BY <1>3, <2>1, ListioFrame DEF Acts, Suspends
<1>4. ASSUME NEW as \in SUBSET (Requests \cap program[t]), aio_suspend(t, as) PROVE Acts(t)
  <2>1. /\ t \in exec /\ call[t].op \in {"none", "listio"} /\ UNCHANGED requests
        /\ program[t] \cap {"listio", "aiosuspend"} # {}
        /\ list' = [list EXCEPT ![t] = as] /\ onAll' \in {onAll, onAll \ {t}}
    BY <1>4, SMT DEF aio_suspend, Calls, Idle
  <2>2. /\ list' \in [Threads -> SUBSET Requests] /\ list'[t] \subseteq program[t]
        /\ \A u \in Threads \ {t} : list'[u] = list[u]
    BY <2>1 DEF SyncTypeOK, AioTypeOK
  <2>3. PICK isTimed \in BOOLEAN : svcall_suspend(t, isTimed)
    BY <1>4 DEF aio_suspend
  <2> QED BY <2>1, <2>2, <2>3, SuspendFrame DEF Acts, Suspends
<1>5. ASSUME ListNext(t) PROVE Acts(t)
  <2>1. PICK a \in call[t].on : data_transfer(t, a) /\ Enter(t, "listio", call[t].on \ {a})
    BY <1>5 DEF ListNext
  <2>2. /\ t \in exec /\ call[t].op = "listio" /\ call[t].on \subseteq Requests \cap program[t]
        /\ program[t] \cap {"listio", "aiosuspend"} # {}
    BY <1>5 DEF ListNext, InCall, SyncTypeOK, CallTypeOK, CallFits
  <2>3. CallFits(t, "listio", call[t].on \ {a}) /\ UNCHANGED fixed
    BY <2>1, <2>2 DEF CallFits, CallOps, Subjects, LockCalls, data_transfer, Callback
  <2>4. /\ CallTypeOK' /\ call'[t] = [op |-> "listio", on |-> call[t].on \ {a}]
        /\ \A u \in Threads \ {t} : call'[u] = call[u]
    BY <2>1, <2>3, CallStep DEF Enter, SyncTypeOK, fixed
  <2>5. call[t].op \in {"none", "listio"} /\ call'[t].op \in {"none", "listio"} /\ a \in Requests \cap program[t]
    BY <2>1, <2>2, <2>4, SMT
  <2> QED BY <2>1, <2>2, <2>4, <2>5, DataTransferFrame DEF Acts, Suspends
<1>6. ASSUME ListSuspend(t) PROVE Acts(t)
  <2>1. /\ t \in exec /\ call[t].op \in {"none", "listio"} /\ UNCHANGED requests /\ call[t].op = "listio"
        /\ program[t] \cap {"listio", "aiosuspend"} # {} /\ UNCHANGED <<list, onAll>>
    BY <1>6 DEF ListSuspend, InCall, SyncTypeOK, CallTypeOK, CallFits
  <2>2. /\ list' \in [Threads -> SUBSET Requests] /\ list'[t] \subseteq program[t]
        /\ \A u \in Threads \ {t} : list'[u] = list[u]
        /\ onAll' \in {onAll, onAll \ {t}}
    BY <2>1 DEF SyncTypeOK, AioTypeOK
  <2>3. CASE svcall_suspend(t, FALSE)
    BY <2>1, <2>2, <2>3, SuspendFrame DEF Acts, Suspends
  <2>4. CASE Return(t) /\ UNCHANGED <<kernel, suspended>>
    <3>1. UNCHANGED kernel /\ UNCHANGED aio
      BY <2>1, <2>4 DEF aio, waiting
    <3> QED BY <2>1, <2>4, <3>1, SuspendReturnFrame DEF Acts, Suspends
  <2> QED BY <1>6, <2>3, <2>4 DEF ListSuspend
<1>7. ASSUME SuspendReturn(t) PROVE Acts(t)
  <2>1. t \in exec /\ call[t].op = "aiosuspend" /\ Return(t) /\ UNCHANGED kernel /\ UNCHANGED aio
    BY <1>7 DEF SuspendReturn, InCall
  <2> QED BY <2>1, SuspendReturnFrame DEF Acts, Suspends
<1> QED BY <1>1, <1>2, <1>3, <1>4, <1>5, <1>6, <1>7 DEF AioStep

LEMMA StutterFrame ==
  ASSUME SyncTypeOK, UNCHANGED allVars
  PROVE  Quiet
<1>1. UNCHANGED kernel /\ UNCHANGED fixed /\ UNCHANGED call /\ UNCHANGED objects /\ UNCHANGED aio
  BY DEF allVars, kernel
<1>2. TableTypeOK' /\ \A u \in Threads : Untouched(u)
  BY <1>1, SameTable DEF SyncTypeOK
<1>3. (\A u \in Threads : Left(u)) /\ Deassert({}) /\ active' \ active \subseteq {} /\ {} \subseteq active'
  BY <1>1, <1>2 DEF Left, Deassert, aio, waiting, kernel, block
<1> QED BY <1>1, <1>2, <1>3, SystemFrameOf

LEMMA SystemStepFrame ==
  ASSUME SyncTypeOK, SystemStep
  PROVE  Quiet \/ \E t \in Threads : Acts(t) /\ SignalWait(t)
<1>1. UNCHANGED call /\ UNCHANGED objects
  BY DEF SystemStep
<1>2. ASSUME NEW t \in Threads, SignalWait(t), Deassert({}) PROVE Acts(t)
  <2>1. t \in exec /\ Frame(t) /\ Other(t)
    BY <1>1, <1>2, SignalWaitFrame DEF SignalWait, Calls
  <2>2. Suspends(t)
    BY <1>2 DEF Suspends, Deassert
  <2> QED BY <2>1, <2>2 DEF Acts
<1> QED BY <1>1, <1>2, RoundEndFrame, TimerMatchFrame, SignalFrame, CompleteFrame DEF SystemStep

\* A step of the system or of a thread, or none.
LEMMA StepFrame ==
  ASSUME SyncTypeOK, [SyncNext]_allVars
  PROVE  Quiet \/ \E t \in Threads : Acts(t)
<1>1. ASSUME NEW t \in Threads, ThreadStep(t) PROVE Quiet \/ Acts(t)
  <2>1. ASSUME ObjectStep((MutexStep(t) \/ CondStep(t)) /\ UNCHANGED sem) PROVE Acts(t)
    BY <2>1, MutexStepFrame, CondStepFrame DEF ObjectStep
  <2>2. ASSUME ObjectStep(SemStep(t) /\ UNCHANGED <<mutex, holds>>) PROVE Acts(t)
    BY <2>2, SemStepFrame DEF ObjectStep
  <2> QED BY <1>1, <2>1, <2>2, AioStepFrame DEF ThreadStep
<1> QED BY <1>1, StutterFrame, SystemStepFrame DEF SyncNext

-----------------------------------------------------------------------------
(* What every step keeps                                                   *)

LEMMA ObjectKinds ==
  /\ NULL \notin Mutexes \cup Conds \cup Sems /\ Mutexes \cap Conds = {}
  /\ Sems \cap (Mutexes \cup Conds) = {}
  /\ \A t \in Threads : Args(t) \notin Mutexes \cup Conds \cup Sems \cup {NULL}
BY ConstantFacts, CondAssumption, SemAssumption, SyncAssumption

LEMMA SyncInitType == SyncInit => SyncTypeOK
<1> SUFFICES ASSUME SyncInit PROVE SyncTypeOK
  OBVIOUS
<1> USE DEF SyncInit
<1>1. [program |-> program, base |-> base] \in Scenarios
  <2>1. PICK s \in Scenarios : program = s.program /\ base = s.base
    BY DEF KernelInit
  <2>2. s = [program |-> s.program, base |-> s.base]
    BY KernelAssumption
  <2> QED BY <2>1, <2>2
<1>2. base \in [Threads -> Priorities]
  BY <1>1, ScenarioFacts
<1>3. KernelTypeOK(AllObjects)
  BY <1>1, <1>2 DEF KernelInit, KernelTypeOK, UnblockTypes
<1>4. TableTypeOK
  BY <1>3 DEF TableTypeOK, KernelInit
<1>5. MutexTypeOK
  BY ConstantFacts DEF MutexInit, MutexTypeOK
<1>6. SemTypeOK
  BY SMT DEF SemInit, SemTypeOK
<1>7. AioTypeOK
  BY DEF AioInit, AioTypeOK
<1>8. CallTypeOK
  BY DEF KernelInit, Idle, CallTypeOK, CallFits, CallOps, Subjects, LockCalls
<1> QED BY <1>4, <1>5, <1>6, <1>7, <1>8 DEF SyncTypeOK

LEMMA SyncNextType == SyncTypeOK /\ [SyncNext]_allVars => SyncTypeOK' /\ UNCHANGED fixed
BY StepFrame DEF Quiet, Acts, Frame

\* The task table, the objects and the calls in progress keep their types: a thread is
\* blocked on objects of its own program only, and a call is about what its program uses.
THEOREM SyncTypeCorrect == SyncSpec => []SyncTypeOK
BY SyncInitType, SyncNextType, PTL DEF SyncSpec

\* A recursive lock or unlock by the owner.
Counts(m) ==
  /\ m \in Recursive /\ owner[m] # NoThread /\ UNCHANGED <<owner, priority>>
  /\ \/ lock' = [lock EXCEPT ![m] = @ + 1]
     \/ lock[m] > 1 /\ lock' = [lock EXCEPT ![m] = @ - 1]

\* Priorities change where a mutex changes hands only.
LEMMA MutexChange ==
  ASSUME SyncTypeOK, [SyncNext]_allVars
  PROVE  \/ UNCHANGED <<owner, lock, priority>>
         \/ \E m \in Mutexes : Counts(m)
         \/ \E t \in Threads, m \in Mutexes : TakeFree(t, m)
         \/ \E t \in Threads, m \in Mutexes : owner[m] = t /\ HandOver(t, m, HighestPriorityBlocked(m, t))
<1> DEFINE Goal ==
      \/ UNCHANGED <<owner, lock, priority>>
      \/ \E m \in Mutexes : Counts(m)
      \/ \E t \in Threads, m \in Mutexes : TakeFree(t, m)
      \/ \E t \in Threads, m \in Mutexes : owner[m] = t /\ HandOver(t, m, HighestPriorityBlocked(m, t))
<1>1. ASSUME UNCHANGED mutex, UNCHANGED priority PROVE Goal
  BY <1>1 DEF mutex
<1>2. ASSUME NEW t \in Threads, NEW a, NEW ps, NEW caller, Callback(t, a, ps, caller) PROVE UNCHANGED priority
  BY <1>2 DEF Callback
<1>3. ASSUME NEW a, Complete(a) PROVE UNCHANGED priority
  BY <1>3 DEF Complete, Callback
<1>4. CASE SystemStep
  <2>1. UNCHANGED priority
    BY <1>3, <1>4 DEF SystemStep, RoundEnd, TimerMatch, Signal, SignalWait
  <2> QED BY <1>1, <1>4, <2>1 DEF SystemStep, objects
<1>5. CASE UNCHANGED allVars
  BY <1>1, <1>5 DEF allVars, objects, kernel
<1>6. ASSUME NEW t \in Threads, NEW m \in Mutexes, NEW op, MutexTrylock(t, m, op) PROVE Goal
  BY <1>6 DEF MutexTrylock, MutexBlock, kernel, mutex
<1>7. ASSUME NEW t \in Threads, MutexStep(t) PROVE Goal
  <2>1. ASSUME NEW m \in Mutexes, Unlock(t, m) PROVE Goal
    <3>1. CASE m \in Recursive /\ lock[m] > 1
      BY <2>1, <3>1, ConstantFacts DEF Unlock, Counts, kernel
    <3>2. CASE ~(m \in Recursive /\ lock[m] > 1)
      BY <2>1, <3>2 DEF Unlock, RootUnlock
    <3> QED BY <3>1, <3>2
  <2>2. ASSUME NEW m \in Mutexes, LockAgain(t, m) PROVE Goal
    BY <2>2, ConstantFacts DEF LockAgain, Counts, kernel
  <2>3. ASSUME LockLoop(t) PROVE Goal
    BY <2>3 DEF LockLoop, MutexUnblocked, mutex
  <2>4. ASSUME LockReturn(t) PROVE Goal
    BY <2>4 DEF LockReturn, kernel, mutex
  <2> QED BY <1>6, <1>7, <2>1, <2>2, <2>3, <2>4 DEF MutexStep, Lock
<1>8. ASSUME NEW t \in Threads, CondStep(t) PROVE Goal
  <2>1. ASSUME NEW c, NEW m \in Mutexes, NEW isTimed, CondWait(t, c, m, isTimed) PROVE Goal
    BY <2>1 DEF CondWait, SvcallCondWait, RootUnlock
  <2>2. ASSUME CondRelock(t) PROVE Goal
    <3>1. call[t].on \in Mutexes
      BY <1>8, <2>2 DEF CondRelock, InCall, SyncTypeOK, CallTypeOK, CallFits
    <3> QED BY <1>6, <2>2, <3>1 DEF CondRelock
  <2>3. ASSUME NEW c, CondSignal(t, c) \/ CondBroadcast(t, c) PROVE Goal
    BY <2>3 DEF CondSignal, ChooseWaiter, CondBroadcast, kernel, mutex
  <2>4. ASSUME SvcallCondSignal(t) PROVE Goal
    BY <2>4 DEF SvcallCondSignal, mutex
  <2> QED BY <1>8, <2>1, <2>2, <2>3, <2>4 DEF CondStep
<1>9. ASSUME NEW t \in Threads, SemStep(t) PROVE UNCHANGED priority
  BY <1>9 DEF SemStep, SemWait, SemWaitAgain, SvcallSemWait, SemTrywait, SemTimedwait,
              SemTimedwaitReturn, SemPostLoad, SemPostStore, SemPostSelect, SvcallSemPost, kernel
<1>10. ASSUME NEW t \in Threads, AioStep(t) PROVE UNCHANGED priority
  <2>1. ASSUME NEW a, data_transfer(t, a) PROVE UNCHANGED priority
    BY <1>2, <2>1 DEF data_transfer
  <2>2. ASSUME NEW isTimed, svcall_suspend(t, isTimed) PROVE UNCHANGED priority
    BY <2>2 DEF svcall_suspend, kernel
  <2> QED BY <1>3, <1>10, <2>1, <2>2
          DEF AioStep, aio_read, aio_cancel, lio_listio, ListNext, ListSuspend, aio_suspend,
              SuspendReturn, kernel
<1>11. ASSUME NEW t \in Threads, ThreadStep(t) PROVE Goal
  <2>1. CASE MutexStep(t) \/ CondStep(t)
    BY <1>7, <1>8, <2>1
  <2>2. CASE SemStep(t) /\ UNCHANGED <<mutex, holds>>
    BY <1>1, <1>9, <2>2
  <2>3. CASE AioStep(t) /\ UNCHANGED objects
    BY <1>1, <1>10, <2>3 DEF objects
  <2> HIDE DEF Goal
  <2> QED BY <1>11, <2>1, <2>2, <2>3 DEF ThreadStep, ObjectStep
<1> QED BY <1>4, <1>5, <1>11 DEF SyncNext

=============================================================================

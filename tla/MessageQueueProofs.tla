------------------------- MODULE MessageQueueProofs -------------------------
(***************************************************************************)
(* Theorems about MessageQueue for any number of threads, senders and       *)
(* receivers, any size of the queue and any flags it is opened with.  The   *)
(* invariants are those of MessageQueueSteps.                               *)
(***************************************************************************)
EXTENDS MessageQueueSteps, WellFoundedInduction

\* Most leaves are first-order: Zenon is the default, and the leaves it does
\* not find say SMT.
USE Zenon

-----------------------------------------------------------------------------
(* What the scheduler chooses                                              *)

\* A non-empty set of natural numbers has a least element.
LEMMA NatMin ==
  ASSUME NEW T \in SUBSET Nat, T # {}
  PROVE  \E x \in T : \A y \in T : x <= y
<1>1. PICK x \in T : \A y \in T : ~(<<y, x>> \in OpToRel(<, Nat))
  BY NatLessThanWellFounded, WFMin
<1>2. \A y \in T : ~(y < x)
  BY <1>1 DEF OpToRel
<1> QED BY <1>2, SMT

\* scheduler_get_highest_priority_blocked finds a thread if one is blocked.
LEMMA SomeoneIsChosen ==
  ASSUME NEW o, NEW c \in Threads, base \in [Threads -> Priorities], BlockedOn(o, c) # {}
  PROVE  HighestPriorityBlocked(o, c) # {}
<1> DEFINE B == BlockedOn(o, c)
<1>1. B \subseteq Threads
  BY DEF BlockedOn
<1>2. \A w \in B : Highest - base[w] \in Nat
  BY <1>1, KernelAssumption, SMT DEF Priorities
<1>3. PICK h \in B : \A w \in B : base[w] <= base[h]
  <2> DEFINE R == {Highest - base[w] : w \in B}
  <2>1. R \in SUBSET Nat /\ R # {}
    BY <1>2
  <2>2. PICK x \in R : \A y \in R : x <= y
    BY <2>1, NatMin
  <2>3. PICK h \in B : x = Highest - base[h]
    BY <2>2
  <2>4. \A w \in B : Highest - base[h] <= Highest - base[w]
    BY <2>2, <2>3
  <2>5. \A w \in B : base[w] \in Int /\ base[h] \in Int
    BY <1>1, ConstantFacts
  <2>6. \A w \in B : base[w] <= base[h]
    BY <2>4, <2>5, KernelAssumption, SMT
  <2> QED BY <2>6
<1> DEFINE T == {w \in B : base[w] = base[h]}
<1>4. \A w \in B : Distance(c, w) \in Nat
  BY <1>1, KernelAssumption, SMT DEF Distance, Threads
<1>5. PICK w \in T : \A v \in T : Distance(c, w) <= Distance(c, v)
  <2> DEFINE D == {Distance(c, v) : v \in T}
  <2>1. D \in SUBSET Nat /\ D # {}
    BY <1>3, <1>4
  <2>2. PICK x \in D : \A y \in D : x <= y
    BY <2>1, NatMin
  <2> QED BY <2>2
<1>6. \A v \in B : base[v] < base[w] \/ (base[v] = base[w] /\ Distance(c, w) <= Distance(c, v))
  <2>1. \A v \in B : base[v] \in Int /\ base[h] \in Int /\ base[w] = base[h]
    BY <1>1, <1>5, ConstantFacts
  <2>2. \A v \in B : base[v] < base[w] \/ v \in T
    BY <1>3, <2>1, SMT
  <2> QED BY <1>5, <2>1, <2>2
<1> QED BY <1>5, <1>6 DEF HighestPriorityBlocked

\* It finds one at most: two threads of one priority are at different distances.
LEMMA OneIsChosen ==
  ASSUME NEW o, NEW c \in Threads, base \in [Threads -> Priorities],
         NEW v \in HighestPriorityBlocked(o, c), NEW w \in HighestPriorityBlocked(o, c)
  PROVE  v = w
<1>1. v \in BlockedOn(o, c) /\ w \in BlockedOn(o, c)
  BY DEF HighestPriorityBlocked
<1>2. v \in Threads \ {c} /\ w \in Threads \ {c}
  BY <1>1 DEF BlockedOn
<1>3. base[v] \in Int /\ base[w] \in Int
  BY <1>2, ConstantFacts
<1>4. Distance(c, v) \in Int /\ Distance(c, w) \in Int
  BY <1>2, KernelAssumption, SMT DEF Distance, Threads
<1>5. Distance(c, w) <= Distance(c, v) /\ Distance(c, v) <= Distance(c, w)
  BY <1>1, <1>3, SMT DEF HighestPriorityBlocked
<1>6. Distance(c, w) = Distance(c, v)
  BY <1>4, <1>5, SMT
<1> QED BY <1>2, <1>6, KernelAssumption, SMT DEF Distance, Threads

\* What the scheduling functions leave behind, given the tables they read.
LEMMA StoppedType ==
  ASSUME active' \subseteq Threads, priority' \in [Threads -> Priorities], UpdateOnStopped
  PROVE  exec' \subseteq active' /\ curPrio' \in Priorities
BY DEF UpdateOnStopped, Switch

LEMMA WakeType ==
  ASSUME exec \subseteq active, active \subseteq active', curPrio \in Priorities,
         NEW p \in Priorities, UpdateOnWake(p)
  PROVE  exec' \subseteq active' /\ curPrio' \in Priorities
BY DEF UpdateOnWake, Switch, sched

LEMMA PriorityFacts == \A p \in Priorities : p \in Int /\ 0 <= p
BY SMT DEF Priorities

\* A thread has its own priority or that of the ceiling, and no more than that.
LEMMA PriorityBound ==
  ASSUME MqTypeOK, CeilingOnTop, PrioInv, NEW t \in Threads
  PROVE  /\ priority[t] \in Int /\ priority[t] <= Top
         /\ base[t] = Top => priority[t] = Top
         /\ priority[t] = Top => owner[QMutex] = t \/ base[t] = Top
<1>1. base[t] \in Priorities
  BY ScenarioFacts DEF MqTypeOK, KernelTypeOK
<1>2. Top \in Int /\ base[t] \in Int
  BY <1>1, QueueFacts, PriorityFacts
<1> QED BY SMT, <1>2 DEF CeilingOnTop, PrioInv

\* When the scheduler looks for the highest priority of all, the owner of a mutex
\* that is waited for is found.
LEMMA StoppedTop ==
  ASSUME MqTypeOK, CeilingOnTop, base' = base, active' \subseteq Threads,
         PrioInv', OwnerInv', WaitInv', UpdateOnStopped
  PROVE  TopInv'
<1>1. PICK p \in Priorities :
         /\ \A t \in active' : priority'[t] <= p
         /\ p = 0 \/ \E t \in active' : priority'[t] = p
         /\ curPrio' = p /\ exec' = {t \in active' : priority'[t] = p}
  BY DEF UpdateOnStopped, Switch
<1>2. Top \in Int /\ 0 <= Top /\ p \in Int
  BY QueueFacts, PriorityFacts
<1>3. \A t \in Threads : priority'[t] \in Int /\ priority'[t] <= Top
  <2>1. \A t \in Threads : base[t] \in Int /\ base[t] <= Top
    BY ScenarioFacts, PriorityFacts DEF MqTypeOK, KernelTypeOK, CeilingOnTop
  <2> QED BY SMT, <1>2, <2>1 DEF PrioInv
<1>4. p <= Top
  BY SMT, <1>1, <1>2, <1>3
<1>5. ASSUME TopNeeded' PROVE \E t \in active' : priority'[t] = Top
  <2>1. CASE \E t \in Threads : t \in active' /\ base'[t] = Top
    BY <2>1 DEF PrioInv
  <2>2. CASE \E t \in Threads : Waits(t)'
    <3>1. owner'[QMutex] # NoThread /\ owner'[QMutex] \in active'
      BY <2>2 DEF WaitInv, OwnerInv
    <3> QED BY <3>1 DEF PrioInv
  <2> QED BY <1>5, <2>1, <2>2 DEF TopNeeded
<1>6. TopNeeded' => p = Top
  BY SMT, <1>1, <1>2, <1>4, <1>5
<1> QED BY <1>1, <1>4, <1>6 DEF TopInv

\* A wake-up that adds no need for the highest priority, or is of that priority.
LEMMA WakeTop ==
  ASSUME TopInv, curPrio \in Priorities, NEW p \in Priorities, p <= Top, UpdateOnWake(p),
         p = Top \/ ((TopNeeded' => TopNeeded) /\ \A t \in exec : priority'[t] = priority[t])
  PROVE  TopInv'
<1>1. Top \in Int /\ p \in Int /\ curPrio \in Int
  BY QueueFacts, PriorityFacts
<1>2. CASE p < curPrio
  <2>1. p # Top
    BY SMT, <1>1, <1>2 DEF TopInv
  <2>2. exec' = exec /\ curPrio' = curPrio
    BY <1>2 DEF UpdateOnWake, sched
  <2> QED BY <2>1, <2>2 DEF TopInv
<1>3. CASE ~(p < curPrio)
  <2>1. curPrio' = p /\ \A t \in exec' : priority'[t] = p
    BY <1>3 DEF UpdateOnWake, Switch
  <2>2. TopNeeded' => p = Top
    BY SMT, <1>1, <1>3 DEF TopInv
  <2> QED BY <2>1, <2>2 DEF TopInv
<1> QED BY <1>2, <1>3

-----------------------------------------------------------------------------
(* The steps of the calls below the queue                                  *)

\* The threads ws are woken, none of which waits for the mutex; the one that wakes
\* them, if it is a thread, is at the end of pthread_cond_signal.
LEMMA WokenInv ==
  ASSUME ExclusionInv, NEW ws \in SUBSET Threads, \A w \in ws : ~Waits(w),
         NEW type \in UnblockTypes, AssertActive(ws, type),
         NEW p \in Priorities, IsHighest(p, priority, ws), UpdateOnWake(p),
         UNCHANGED <<fixed, priority, mutex, queue>>,
         \/ call' = call
         \/ \E t \in Threads : call[t].op = "condsignal" /\ Return(t)
  PROVE  ExclusionInv'
<1> USE DEF ExclusionInv
<1>1. /\ active' = active \cup ws /\ wake' = wake \ ws
      /\ unblockType' = Put(unblockType, ws, type) /\ blockObject' = Put(blockObject, ws, NULL)
  BY DEF AssertActive
<1>2. UNCHANGED <<program, base, priority, owner, mq>>
  BY DEF fixed, mutex, queue
<1>3. \A u \in Threads : /\ call'[u] \in MqCalls
                         /\ call'[u] = call[u] \/ (call'[u] = Idle /\ call[u].op = "condsignal")
  BY SMT DEF Return, MqTypeOK, MqCalls
<1>4. MqTypeOK'
  <2>1. active \subseteq Threads /\ exec \subseteq active /\ curPrio \in Priorities
    BY DEF MqTypeOK, KernelTypeOK
  <2>2. exec' \subseteq active' /\ curPrio' \in Priorities
    BY <1>1, <2>1, WakeType
  <2>3. active' \subseteq Threads /\ wake' \subseteq Threads
    BY <1>1, <2>1 DEF MqTypeOK, KernelTypeOK
  <2>4. blockObject' \in [Threads -> Mutexes \cup Conds \cup {NULL}]
    BY SMT, <1>1 DEF MqTypeOK, KernelTypeOK, Put
  <2>5. unblockType' \in [Threads -> UnblockTypes]
    BY SMT, <1>1 DEF MqTypeOK, KernelTypeOK, Put
  <2>6. KernelTypeOK(Mutexes \cup Conds)'
    BY <1>2, <2>2, <2>3, <2>4, <2>5 DEF MqTypeOK, KernelTypeOK
  <2>7. call' \in [Threads -> MqCalls]
    BY SMT DEF Return, MqTypeOK, MqCalls
  <2> QED BY <1>2, <2>6, <2>7 DEF MqTypeOK, MqPlaceOK
<1>5. \A u \in Threads : /\ u \in active' <=> u \in active \/ u \in ws
                         /\ blockObject'[u] = IF u \in ws THEN NULL ELSE blockObject[u]
  BY <1>1 DEF Put
<1>6. \A u \in Threads : Waits(u)' <=> Waits(u)
  BY <1>5, QueueFacts DEF Waits
<1>7. Unsignalled' /\ CeilingOnTop' /\ PrioInv' /\ OwnerInv'
  BY <1>1, <1>2 DEF Unsignalled, CeilingOnTop, PrioInv, OwnerInv
<1>8. WaitInv'
  <2> SUFFICES ASSUME NEW u \in Threads
               PROVE  /\ Waits(u)' => owner[QMutex] # NoThread /\ u \notin wake' /\ call'[u].op = "lock"
                      /\ call'[u].op = "lock" =>
                           IF u \in active' THEN owner[QMutex] = u ELSE blockObject'[u] = QMutex
    BY <1>2 DEF WaitInv
  <2>1. call'[u].op = "lock" <=> call[u].op = "lock"
    BY SMT, <1>3 DEF Idle
  <2>2. CASE u \in ws
    BY <1>5, <1>6, <2>1, <2>2 DEF WaitInv, Waits
  <2>3. CASE u \notin ws
    BY <1>1, <1>5, <1>6, <2>1, <2>3 DEF WaitInv
  <2> QED BY <2>2, <2>3
<1>9. \A u \in Threads : /\ call'[u].op \in {"lock", "relock", "condsignal"} => call'[u] = call[u]
                         /\ call'[u] = Idle => call[u] = Idle \/ call[u].op = "condsignal"
  BY SMT, <1>3 DEF Idle
<1>10. StageInv'
  BY <1>1, <1>2, <1>9 DEF StageInv
<1>11. TargetInv'
  BY <1>2, <1>6, <1>9, CallFacts DEF TargetInv
<1>12. TopInv'
  <2>1. Top \in Int /\ p \in Int
    BY QueueFacts, PriorityFacts
  <2>2. \A w \in ws : priority[w] \in Int /\ priority[w] <= Top /\ (base[w] = Top => priority[w] = Top)
    BY PriorityBound
  <2>3. ws # {} /\ p <= Top
    BY SMT, <2>1, <2>2, PriorityFacts DEF IsHighest
  <2>4. (\E w \in ws : base[w] = Top) => p = Top
    BY SMT, <2>1, <2>2, <2>3 DEF IsHighest
  <2>5. p # Top => (TopNeeded' => TopNeeded)
    BY <1>2, <1>5, <1>6, <2>4 DEF TopNeeded
  <2> QED BY <1>2, <2>3, <2>5, WakeTop DEF MqTypeOK, KernelTypeOK
<1> QED BY <1>4, <1>7, <1>8, <1>10, <1>11, <1>12

\* A thread in t's place of the loop takes the mutex, which is free.
LEMMA TakeFreeInv ==
  ASSUME ExclusionInv, NEW t \in exec, TakeFree(t, QMutex), Return(t), MqPlaceOK',
         \A u \in Threads \ {t} : mq'[u] = mq[u], mq'[t].at \in {"loop", "woken"}
  PROVE  ExclusionInv'
<1> USE DEF ExclusionInv
<1>1. t \in Threads /\ t \in active
  BY DEF MqTypeOK, KernelTypeOK
<1>2. /\ owner[QMutex] = NoThread /\ owner' = [owner EXCEPT ![QMutex] = t]
      /\ UNCHANGED <<program, base, active, exec, blockObject, unblockType, wake>>
  BY DEF TakeFree, fixed, block
<1>3. owner'[QMutex] = t /\ owner' \in [Mutexes -> Threads \cup {NoThread}]
  BY <1>1, <1>2, QueueFacts DEF MqTypeOK
<1>4. /\ call' \in [Threads -> MqCalls] /\ call'[t] = Idle
      /\ \A u \in Threads \ {t} : call'[u] = call[u]
  BY SMT, <1>1 DEF Return, MqTypeOK, MqCalls
<1>5. t # NoThread /\ \A u \in Threads : u # NoThread
  BY <1>1, ConstantFacts
<1>6. \A u \in Threads : ~Waits(u)
  BY <1>2 DEF WaitInv
<1>7. base[t] \in Int /\ Top \in Int /\ priority[t] = base[t] /\ base[t] <= Top
  BY <1>1, <1>2, <1>5, ScenarioFacts, PriorityFacts, QueueFacts
     DEF MqTypeOK, KernelTypeOK, PrioInv, CeilingOnTop
<1>8. /\ priority' \in [Threads -> Priorities]
      /\ \A u \in Threads : priority'[u] = IF u = t THEN Top ELSE priority[u]
      /\ curPrio' = curPrio \/ curPrio' = Top
      /\ base[t] = Top => curPrio' = curPrio
  <2>1. CASE Ceiling[QMutex] > priority[t]
    BY SMT, <1>1, <1>7, <2>1, QueueFacts DEF TakeFree, Top, MqTypeOK, KernelTypeOK
  <2>2. CASE ~(Ceiling[QMutex] > priority[t])
    BY SMT, <1>1, <1>7, <2>2 DEF TakeFree, Top, MqTypeOK, KernelTypeOK
  <2> QED BY <2>1, <2>2
<1>9. MqTypeOK'
  BY <1>2, <1>3, <1>4, <1>8, QueueFacts DEF MqTypeOK, KernelTypeOK
<1>10. PrioInv'
  BY <1>2, <1>3, <1>5, <1>8 DEF PrioInv
<1>11. \A u \in Threads : ~Waits(u)'
  BY <1>2, <1>6 DEF Waits
<1>12. TopInv'
  <2>1. curPrio' <= Top
    BY SMT, <1>7, <1>8 DEF TopInv
  <2>2. ASSUME TopNeeded' PROVE curPrio' = Top /\ \A u \in exec' : priority'[u] = Top
    <3>1. TopNeeded
      BY <1>2, <1>11, <2>2 DEF TopNeeded
    <3> QED BY <1>2, <1>8, <3>1 DEF TopInv, MqTypeOK, KernelTypeOK
  <2> QED BY <2>1, <2>2 DEF TopInv
<1>13. Unsignalled' /\ CeilingOnTop' /\ OwnerInv'
  BY SMT, <1>1, <1>2, <1>3 DEF Unsignalled, CeilingOnTop, OwnerInv
<1>14. WaitInv'
  <2>1. \A u \in Threads : call'[u].op = "lock" => u # t /\ call[u].op = "lock"
    BY SMT, <1>4 DEF Idle
  <2> QED BY <1>2, <1>5, <1>11, <2>1 DEF WaitInv
<1>15. StageInv'
  <2> SUFFICES ASSUME NEW u \in Threads
               PROVE  /\ call'[u].op \in {"lock", "relock"} => mq'[u].at \in {"loop", "woken"}
                      /\ call'[u].op = "condsignal" => mq'[u].at = "none" /\ u \in active
                      /\ call'[u] = Idle /\ mq'[u].at \in {"loop", "copy", "woken"} => t = u
                      /\ call'[u].op = "condsignal" \/ mq'[u].at = "signal" => t # u
    BY <1>2, <1>3 DEF StageInv
  <2>1. CASE u = t
    BY SMT, <1>4, <2>1 DEF Idle
  <2>2. CASE u # t
    BY SMT, <1>2, <1>4, <1>5, <2>2 DEF StageInv
  <2> QED BY <2>1, <2>2
<1>16. TargetInv'
  <2>1. \A u \in Threads : call'[u].op = "condsignal" => call'[u].on \in Threads
    BY SMT, <1>4, CallFacts DEF Idle
  <2> QED BY <1>11, <2>1 DEF TargetInv
<1> QED BY <1>9, <1>10, <1>12, <1>13, <1>14, <1>15, <1>16

\* A thread waits for the mutex, which another thread has.
LEMMA BlockInv ==
  ASSUME ExclusionInv, NEW t \in exec, owner[QMutex] \notin {t, NoThread},
         Block(t, QMutex, FALSE), Enter(t, "lock", QMutex),
         UNCHANGED <<fixed, priority, mutex>>, MqPlaceOK',
         \A u \in Threads \ {t} : mq'[u] = mq[u], mq'[t].at \in {"loop", "woken"}
  PROVE  ExclusionInv'
<1> USE DEF ExclusionInv
<1>1. t \in Threads /\ t \in active
  BY DEF MqTypeOK, KernelTypeOK
<1>2. /\ active' = active \ {t} /\ wake' = wake \ {t} /\ unblockType' = unblockType
      /\ blockObject' = [blockObject EXCEPT ![t] = QMutex] /\ UpdateOnStopped
      /\ UNCHANGED <<program, base, priority, owner>>
  BY DEF Block, fixed, mutex
<1>3. /\ call' \in [Threads -> MqCalls] /\ call'[t] = [op |-> "lock", on |-> QMutex]
      /\ \A u \in Threads \ {t} : call'[u] = call[u]
  BY SMT, <1>1 DEF Enter, MqTypeOK, MqCalls
<1>4. /\ blockObject' \in [Threads -> Mutexes \cup Conds \cup {NULL}] /\ blockObject'[t] = QMutex
      /\ \A u \in Threads \ {t} : blockObject'[u] = blockObject[u]
  BY SMT, <1>1, <1>2, QueueFacts DEF MqTypeOK, KernelTypeOK
<1>5. MqTypeOK'
  <2>1. active' \subseteq Threads /\ wake' \subseteq Threads /\ priority' \in [Threads -> Priorities]
    BY <1>2 DEF MqTypeOK, KernelTypeOK
  <2>2. exec' \subseteq active' /\ curPrio' \in Priorities
    BY <1>2, <2>1, StoppedType
  <2>3. KernelTypeOK(Mutexes \cup Conds)'
    BY <1>2, <1>4, <2>1, <2>2 DEF MqTypeOK, KernelTypeOK
  <2> QED BY <1>2, <1>3, <2>3 DEF MqTypeOK
<1>6. Unsignalled' /\ CeilingOnTop' /\ PrioInv' /\ OwnerInv'
  BY <1>2 DEF Unsignalled, CeilingOnTop, PrioInv, OwnerInv
<1>7. Waits(t)' /\ \A u \in Threads \ {t} : Waits(u)' <=> Waits(u)
  BY <1>2, <1>4 DEF Waits
<1>8. WaitInv'
  <2> SUFFICES ASSUME NEW u \in Threads
               PROVE  /\ Waits(u)' => owner[QMutex] # NoThread /\ u \notin wake' /\ call'[u].op = "lock"
                      /\ call'[u].op = "lock" =>
                           IF u \in active' THEN owner[QMutex] = u ELSE blockObject'[u] = QMutex
    BY <1>2 DEF WaitInv
  <2>1. CASE u = t
    BY SMT, <1>2, <1>3, <1>4, <2>1
  <2>2. CASE u # t
    BY <1>2, <1>3, <1>4, <1>7, <2>2 DEF WaitInv
  <2> QED BY <2>1, <2>2
<1>9. TopInv'
  BY <1>2, <1>5, <1>6, <1>8, StoppedTop DEF MqTypeOK, KernelTypeOK
<1>10. StageInv'
  <2> SUFFICES ASSUME NEW u \in Threads
               PROVE  /\ call'[u].op \in {"lock", "relock"} => mq'[u].at \in {"loop", "woken"}
                      /\ call'[u].op = "condsignal" => mq'[u].at = "none" /\ u \in active'
                      /\ call'[u] = Idle /\ mq'[u].at \in {"loop", "copy", "woken"} => owner[QMutex] = u
                      /\ call'[u].op = "condsignal" \/ mq'[u].at = "signal" => owner[QMutex] # u
    BY <1>2 DEF StageInv
  <2>1. CASE u = t
    BY SMT, <1>3, <2>1 DEF Idle
  <2>2. CASE u # t
    BY ZenonT(30), <1>2, <1>3, <2>2 DEF StageInv
  <2> QED BY <2>1, <2>2
<1>11. TargetInv'
  <2> SUFFICES ASSUME NEW u \in Threads, call'[u].op = "condsignal", base[u] = Top,
                      call'[u].on \notin active', blockObject'[call'[u].on] = QMutex
               PROVE  FALSE
    BY <1>2 DEF TargetInv, Waits
  <2>1. u # t /\ call'[u] = call[u]
    BY SMT, <1>3
  <2>2. call[u].on \in Threads /\ ~Waits(call[u].on) /\ u \in active
    BY <2>1, CallFacts DEF TargetInv, StageInv
  <2>3. call[u].on = t
    BY ZenonT(30), <1>2, <1>4, <2>1, <2>2 DEF Waits
  <2>4. priority[t] = Top
    BY <2>2 DEF TopInv, TopNeeded
  <2>5. base[t] = Top
    BY <1>1, <2>4, PriorityBound
  <2> QED BY <1>1, <2>1, <2>5 DEF CeilingOnTop
<1> QED BY <1>5, <1>6, <1>8, <1>9, <1>10, <1>11

\* To whom pthread_mutex_root_unlock gives the mutex.
LEMMA HandOverTo ==
  ASSUME ExclusionInv, NEW t \in Threads, owner[QMutex] = t,
         NEW ws, ws = HighestPriorityBlocked(QMutex, t), HandOver(t, QMutex, ws)
  PROVE  /\ \/ ws = {} /\ owner'[QMutex] = NoThread /\ \A u \in Threads : ~Waits(u)
            \/ \E w \in Threads \ {t} : ws = {w} /\ Waits(w) /\ owner'[QMutex] = w
         /\ owner' \in [Mutexes -> Threads \cup {NoThread}]
         /\ priority' \in [Threads -> Priorities]
         /\ \A u \in Threads : priority'[u] = IF u \in ws THEN Top ELSE base[u]
<1> USE DEF ExclusionInv
<1>1. t \in active /\ base \in [Threads -> Priorities]
  BY ScenarioFacts, ConstantFacts DEF MqTypeOK, KernelTypeOK, OwnerInv
<1>2. ws \subseteq BlockedOn(QMutex, t) /\ BlockedOn(QMutex, t) = {u \in Threads \ {t} : Waits(u)}
  BY DEF HighestPriorityBlocked, BlockedOn, Waits
<1>3. owner' = [owner EXCEPT ![QMutex] = IF ws = {} THEN NoThread ELSE CHOOSE w \in ws : TRUE]
  BY DEF HandOver
<1>4. \/ ws = {} /\ \A u \in Threads : ~Waits(u)
      \/ \E w \in Threads \ {t} : ws = {w} /\ Waits(w)
  <2>1. CASE ws = {}
    <3>1. BlockedOn(QMutex, t) = {}
      BY <1>1, <2>1, SomeoneIsChosen
    <3> QED BY <1>1, <1>2, <2>1, <3>1 DEF Waits
  <2>2. CASE ws # {}
    <3>1. PICK w \in ws : TRUE
      BY <2>2
    <3>2. \A v \in ws : v = w
      BY <1>1, <3>1, OneIsChosen
    <3>3. ws = {w}
      BY <3>1, <3>2
    <3> QED BY <1>2, <3>1, <3>3
  <2> QED BY <2>1, <2>2
<1>5. /\ \/ ws = {} /\ owner'[QMutex] = NoThread /\ \A u \in Threads : ~Waits(u)
         \/ \E w \in Threads \ {t} : ws = {w} /\ Waits(w) /\ owner'[QMutex] = w
      /\ owner' \in [Mutexes -> Threads \cup {NoThread}]
  <2>1. CASE ws = {} /\ \A u \in Threads : ~Waits(u)
    BY <1>3, <2>1, QueueFacts DEF MqTypeOK
  <2>2. CASE \E w \in Threads \ {t} : ws = {w} /\ Waits(w)
    <3>1. PICK w \in Threads \ {t} : ws = {w} /\ Waits(w)
      BY <2>2
    <3>2. (CHOOSE v \in ws : TRUE) = w
      BY <3>1
    <3>3. owner' = [owner EXCEPT ![QMutex] = w]
      BY <1>3, <3>1, <3>2
    <3> QED BY <3>1, <3>3, QueueFacts DEF MqTypeOK
  <2> QED BY <1>4, <2>1, <2>2
<1>6. t \notin ws /\ ws \subseteq Threads
  BY <1>4
<1>7. \A u \in Threads : base[u] \in Int /\ base[u] <= Top /\ Top \in Int
  BY <1>1, PriorityFacts, QueueFacts DEF CeilingOnTop
<1>8. \A u \in Threads \ {t} : priority[u] = base[u]
  BY DEF PrioInv
<1>9. \A u \in Threads : priority'[u] = IF u \in ws THEN Top ELSE base[u]
  BY SMT, <1>6, <1>7, <1>8 DEF HandOver, Top
<1>10. priority' \in [Threads -> Priorities]
  <2>1. \A u \in Threads : priority'[u] \in Priorities
    BY <1>1, <1>9, QueueFacts
  <2>2. priority' = [u \in Threads |-> priority'[u]]
    BY SMT DEF HandOver
  <2> QED BY <2>1, <2>2
<1> QED BY <1>5, <1>9, <1>10

\* The owner gives the mutex up: pthread_mutex_unlock, or pthread_cond_timedwait, which
\* leaves the thread asleep or, if the time limit has passed, awake.
LEMMA GiveUpInv ==
  ASSUME ExclusionInv, NEW t \in exec, owner[QMutex] = t, call[t] = Idle,
         NEW ws, ws = HighestPriorityBlocked(QMutex, t), HandOver(t, QMutex, ws),
         active' = active \cup ws \/ active' = (active \cup ws) \ {t},
         unblockType' = Put(unblockType, ws, "MUTEX"),
         NEW o \in Conds \cup {NULL}, blockObject' = [Put(blockObject, ws, NULL) EXCEPT ![t] = o],
         wake' \subseteq wake \cup {t}, UNCHANGED fixed,
         \/ UpdateOnStopped
         \/ /\ active' = active \cup ws
            /\ \/ \E w \in ws : UpdateOnWake(priority'[w])
               \/ ws = {} /\ ~(base[t] < curPrio) /\ UNCHANGED sched,
         MqPlaceOK', \A u \in Threads \ {t} : mq'[u] = mq[u],
         \/ call' = call /\ mq'[t].at \in {"none", "signal"}
         \/ Enter(t, "relock", QMutex) /\ mq'[t].at = "woken"
  PROVE  ExclusionInv'
<1> USE DEF ExclusionInv
<1>1. t \in Threads /\ t \in active /\ UNCHANGED <<program, base>>
  BY DEF MqTypeOK, KernelTypeOK, fixed
<1>2. /\ \/ ws = {} /\ owner'[QMutex] = NoThread /\ \A u \in Threads : ~Waits(u)
         \/ \E w \in Threads \ {t} : ws = {w} /\ Waits(w) /\ owner'[QMutex] = w
      /\ owner' \in [Mutexes -> Threads \cup {NoThread}]
      /\ priority' \in [Threads -> Priorities]
      /\ \A u \in Threads : priority'[u] = IF u \in ws THEN Top ELSE base[u]
  BY SMT, <1>1, HandOverTo
<1>3. /\ ws \subseteq Threads /\ t \notin ws /\ owner'[QMutex] # t
      /\ \A u \in Threads : u \in ws <=> owner'[QMutex] = u
      /\ \A w \in ws : Waits(w)
      /\ (\E u \in Threads : Waits(u)) => ws # {}
  BY <1>1, <1>2, ConstantFacts
<1>4. /\ blockObject' \in [Threads -> Mutexes \cup Conds \cup {NULL}] /\ blockObject'[t] = o
      /\ \A u \in Threads \ {t} : blockObject'[u] = IF u \in ws THEN NULL ELSE blockObject[u]
  BY SMTT(30), <1>1 DEF MqTypeOK, KernelTypeOK, Put
<1>5. \A u \in Threads \ {t} : u \in active' <=> u \in active \/ u \in ws
  OBVIOUS
<1>6. o # QMutex
  BY QueueFacts
<1>7. \A u \in Threads : Waits(u)' <=> Waits(u) /\ u \notin ws
  <2>1. ~Waits(t) /\ ~Waits(t)'
    BY <1>1, <1>4, <1>6 DEF Waits
  <2>2. \A u \in Threads \ {t} : Waits(u)' <=> Waits(u) /\ u \notin ws
    BY <1>3, <1>4, <1>5, QueueFacts DEF Waits
  <2> QED BY <2>1, <2>2
<1>8. /\ call' \in [Threads -> MqCalls] /\ \A u \in Threads \ {t} : call'[u] = call[u]
      /\ \/ call'[t] = Idle /\ mq'[t].at \in {"none", "signal"}
         \/ call'[t].op = "relock" /\ mq'[t].at = "woken"
  BY SMT, <1>1 DEF Enter, MqTypeOK, MqCalls
<1>9. PrioInv' /\ OwnerInv' /\ Unsignalled' /\ CeilingOnTop'
  <2>1. PrioInv'
    BY <1>1, <1>2, <1>3 DEF PrioInv
  <2>2. OwnerInv'
    BY <1>2, <1>3, <1>5 DEF OwnerInv
  <2> QED BY <1>1, <2>1, <2>2 DEF Unsignalled, CeilingOnTop
<1>10. WaitInv'
  <2> SUFFICES ASSUME NEW u \in Threads
               PROVE  /\ Waits(u)' => owner'[QMutex] # NoThread /\ u \notin wake' /\ call'[u].op = "lock"
                      /\ call'[u].op = "lock" =>
                           IF u \in active' THEN owner'[QMutex] = u ELSE blockObject'[u] = QMutex
    BY DEF WaitInv
  <2>1. CASE u = t
    BY SMTT(30), <1>3, <1>7, <1>8, <2>1 DEF WaitInv, Waits, Idle
  <2>2. CASE u # t /\ u \in ws
    BY <1>3, <1>5, <1>7, <2>2
  <2>3. CASE u # t /\ u \notin ws
    <3>1. call'[u] = call[u] /\ (u \in wake' => u \in wake)
      BY <1>8, <2>3
    <3>2. Waits(u)' => Waits(u) /\ owner'[QMutex] # NoThread
      BY <1>2, <1>3, <1>7, ConstantFacts
    <3>3. call[u].op = "lock" => u \notin active /\ blockObject[u] = QMutex
      BY <2>3 DEF WaitInv
    <3> QED BY ZenonT(30), <1>4, <1>5, <2>3, <3>1, <3>2, <3>3 DEF WaitInv
  <2> QED BY <2>1, <2>2, <2>3
<1>11. active' \subseteq Threads /\ wake' \subseteq Threads /\ unblockType' \in [Threads -> UnblockTypes]
  <2>1. active' \subseteq Threads /\ wake' \subseteq Threads
    BY <1>1, <1>3 DEF MqTypeOK, KernelTypeOK
  <2>2. unblockType' \in [Threads -> UnblockTypes]
    BY SMT DEF MqTypeOK, KernelTypeOK, Put, UnblockTypes
  <2> QED BY <2>1, <2>2
<1>12. /\ exec' \subseteq active' /\ curPrio' \in Priorities
       /\ TopInv'
  <2>1. CASE UpdateOnStopped
    BY <1>1, <1>2, <1>9, <1>10, <1>11, <2>1, StoppedTop, StoppedType
  <2>2. CASE active' = active \cup ws /\ \E w \in ws : UpdateOnWake(priority'[w])
    <3>1. PICK w \in ws : UpdateOnWake(priority'[w])
      BY <2>2
    <3>2. priority'[w] = Top /\ Top \in Priorities /\ Top <= Top
      BY SMTT(30), <1>2, <1>3, <3>1, QueueFacts, PriorityFacts
    <3>3. UpdateOnWake(Top)
      BY <3>1, <3>2
    <3>4. exec \subseteq active /\ curPrio \in Priorities /\ active \subseteq active'
      BY <2>2 DEF MqTypeOK, KernelTypeOK
    <3> QED BY <3>2, <3>3, <3>4, WakeTop, WakeType
  <2>3. CASE active' = active \cup ws /\ ws = {} /\ ~(base[t] < curPrio) /\ UNCHANGED sched
    <3>1. exec' = exec /\ curPrio' = curPrio /\ active' = active
      BY <2>3 DEF sched
    <3>2. exec \subseteq active /\ curPrio \in Priorities
      BY DEF MqTypeOK, KernelTypeOK
    <3>3. ASSUME TopNeeded' PROVE curPrio = Top /\ \A u \in exec : priority'[u] = Top
      <4>1. TopNeeded
        BY <1>1, <1>7, <3>1, <3>3 DEF TopNeeded
      <4>2. curPrio = Top /\ \A u \in exec : priority[u] = Top
        BY <4>1 DEF TopInv
      <4>3. base[t] = Top
        <5>1. base[t] \in Int /\ Top \in Int /\ base[t] <= Top
          BY <1>1, ScenarioFacts, PriorityFacts, QueueFacts DEF MqTypeOK, KernelTypeOK,
             CeilingOnTop
        <5> QED BY SMT, <2>3, <4>2, <5>1
      <4>4. \A u \in exec : u \in Threads /\ (u # t => base[u] = priority[u])
        BY DEF PrioInv, MqTypeOK, KernelTypeOK
      <4> QED BY <1>2, <2>3, <4>2, <4>3, <4>4
    <3> QED BY <3>1, <3>2, <3>3 DEF TopInv
  <2> QED BY <2>1, <2>2, <2>3
<1>13. MqTypeOK'
  BY <1>1, <1>2, <1>4, <1>8, <1>11, <1>12 DEF MqTypeOK, KernelTypeOK
<1>14. StageInv'
  <2> SUFFICES ASSUME NEW u \in Threads
               PROVE  /\ call'[u].op \in {"lock", "relock"} => mq'[u].at \in {"loop", "woken"}
                      /\ call'[u].op = "condsignal" => mq'[u].at = "none" /\ u \in active'
                      /\ call'[u] = Idle /\ mq'[u].at \in {"loop", "copy", "woken"} => owner'[QMutex] = u
                      /\ call'[u].op = "condsignal" \/ mq'[u].at = "signal" => owner'[QMutex] # u
    BY DEF StageInv
  <2>1. CASE u = t
    BY SMT, <1>3, <1>8, <2>1 DEF Idle
  <2>2. CASE u # t
    <3>1. call'[u] = call[u] /\ mq'[u] = mq[u]
      BY <1>8, <2>2
    <3>2. owner'[QMutex] = u => call[u].op = "lock" /\ mq[u].at \in {"loop", "woken"}
      BY <1>3 DEF WaitInv, StageInv
    <3> QED BY <1>5, <2>2, <3>1, <3>2 DEF StageInv
  <2> QED BY <2>1, <2>2
<1>15. TargetInv'
  <2>1. \A u \in Threads : call'[u].op = "condsignal" => call'[u] = call[u] /\ call[u].on \in Threads
    BY <1>8, CallFacts DEF Idle
  <2> QED BY <1>1, <1>7, <2>1 DEF TargetInv
<1> QED BY <1>9, <1>10, <1>12, <1>13, <1>14, <1>15

\* A step after which everybody sleeps, executes and owns what it did before.
LEMMA AwakeInv ==
  ASSUME ExclusionInv, UNCHANGED <<fixed, sched, active, blockObject, wake, priority, owner>>,
         unblockType' \in [Threads -> UnblockTypes],
         call' \in [Threads -> MqCalls], MqPlaceOK', StageInv',
         \A t \in Threads : /\ call'[t].op = "lock" => call[t].op = "lock"
                            /\ call[t].op = "lock" => call'[t].op = "lock" \/ t \in active
                            /\ call'[t].op = "condsignal" =>
                                 call'[t] = call[t] \/ ~Waits(call'[t].on)
  PROVE  ExclusionInv'
<1> USE DEF ExclusionInv
<1>1. UNCHANGED <<program, base, exec, curPrio>>
  BY DEF fixed, sched
<1>2. MqTypeOK'
  BY <1>1 DEF MqTypeOK, KernelTypeOK
<1>3. \A w : Waits(w)' <=> Waits(w)
  BY DEF Waits
<1>4. Unsignalled' /\ CeilingOnTop' /\ PrioInv' /\ OwnerInv'
  BY <1>1 DEF Unsignalled, CeilingOnTop, PrioInv, OwnerInv
<1>5. TopInv'
  BY <1>1, <1>3 DEF TopInv, TopNeeded
<1>6. WaitInv'
  <2> SUFFICES ASSUME NEW u \in Threads
               PROVE  /\ Waits(u)' => owner[QMutex] # NoThread /\ u \notin wake /\ call'[u].op = "lock"
                      /\ call'[u].op = "lock" =>
                           IF u \in active THEN owner[QMutex] = u ELSE blockObject[u] = QMutex
    BY DEF WaitInv
  <2>1. Waits(u) => u \notin active
    BY DEF Waits
  <2> QED BY SMT, <1>3, <2>1 DEF WaitInv
<1>7. TargetInv'
  <2> SUFFICES ASSUME NEW u \in Threads, call'[u].op = "condsignal", base[u] = Top,
                      call'[u].on \notin active, blockObject[call'[u].on] = QMutex
               PROVE  FALSE
    BY <1>1 DEF TargetInv, Waits
  <2>1. call'[u] = call[u]
    BY SMT DEF Waits
  <2> QED BY <2>1 DEF TargetInv, Waits
<1> QED BY <1>2, <1>4, <1>5, <1>6, <1>7

-----------------------------------------------------------------------------
(* The steps of mq_timedsend and mq_timedreceive                           *)

\* A step of the queue's own code that stays between lock and unlock, or leaves it
\* for an error or the unlock.
LEMMA InsideStep ==
  ASSUME ExclusionInv, NEW t \in exec, call[t] = Idle, mq[t].at \in {"loop", "copy", "woken"},
         UNCHANGED <<kernel, call, mutex>>,
         MqPlaceOK', \A u \in Threads \ {t} : mq'[u] = mq[u], mq'[t].at # "signal"
  PROVE  ExclusionInv'
<1>1. UNCHANGED <<fixed, sched, active, blockObject, unblockType, wake, priority, owner>>
  BY DEF kernel, block, mutex
<1>2. t \in Threads /\ owner[QMutex] = t
  BY DEF ExclusionInv, StageInv, MqTypeOK, KernelTypeOK
<1>3. StageInv'
  <2> SUFFICES ASSUME NEW u \in Threads
               PROVE  /\ call[u].op \in {"lock", "relock"} => mq'[u].at \in {"loop", "woken"}
                      /\ call[u].op = "condsignal" => mq'[u].at = "none" /\ u \in active
                      /\ call[u] = Idle /\ mq'[u].at \in {"loop", "copy", "woken"} => owner[QMutex] = u
                      /\ call[u].op = "condsignal" \/ mq'[u].at = "signal" => owner[QMutex] # u
    BY <1>1 DEF StageInv
  <2>1. CASE u = t
    BY SMT, <1>2, <2>1 DEF Idle
  <2>2. CASE u # t
    BY <2>2 DEF ExclusionInv, StageInv
  <2> QED BY <2>1, <2>2
<1> QED BY <1>1, <1>3, AwakeInv DEF ExclusionInv, MqTypeOK, KernelTypeOK

\* pthread_mutex_lock, at the start of a call and in pthread_cond_timedwait.
LEMMA LockStep ==
  ASSUME ExclusionInv, NEW t \in exec, MutexTrylock(t, QMutex, "lock"),
         MqPlaceOK', \A u \in Threads \ {t} : mq'[u] = mq[u], mq'[t].at \in {"loop", "woken"}
  PROVE  ExclusionInv'
<1>1. CASE TakeFree(t, QMutex) /\ Return(t)
  BY <1>1, TakeFreeInv
<1>2. CASE owner[QMutex] # NoThread /\ MutexBlock(t, QMutex, FALSE) /\ Enter(t, "lock", QMutex)
  BY <1>2, BlockInv DEF MutexBlock, MutexTrylock
<1>3. ("lock" = "timedlock") = FALSE /\ "lock" # "trylock"
  BY SMT
<1> QED BY <1>1, <1>2, <1>3 DEF MutexTrylock

\* pthread_cond_timedwait up to its service call.
LEMMA CondWaitStep ==
  ASSUME ExclusionInv, NEW t \in exec, owner[QMutex] = t, call[t] = Idle, NEW c \in Conds,
         NEW isTimed \in BOOLEAN, SvcallCondWait(t, c, QMutex, isTimed), Goto(t, "woken")
  PROVE  ExclusionInv'
<1> DEFINE ws == HighestPriorityBlocked(QMutex, t)
<1>1. t \in Threads
  BY DEF ExclusionInv, MqTypeOK, KernelTypeOK
<1>2. MqPlaceOK' /\ (\A u \in Threads \ {t} : mq'[u] = mq[u]) /\ mq'[t].at = "woken"
  BY <1>1, GotoFacts DEF Places, ExclusionInv
<1>3. Enter(t, "relock", QMutex)
  BY DEF SvcallCondWait
<1>4. CASE /\ HandOver(t, QMutex, ws)
           /\ active' = (active \cup ws) \ {t}
           /\ unblockType' = Put(unblockType, ws, "MUTEX")
           /\ blockObject' = [Put(blockObject, ws, NULL) EXCEPT ![t] = c]
           /\ wake' = IF isTimed THEN (wake \ ws) \cup {t} ELSE wake \ (ws \cup {t})
           /\ UpdateOnStopped
           /\ UNCHANGED fixed
  <2>1. wake' \subseteq wake \cup {t}
    BY <1>4
  <2> QED BY <1>2, <1>3, <1>4, <2>1, GiveUpInv
<1>5. CASE RootUnlock(t, QMutex, c)
  <2>1. /\ HandOver(t, QMutex, ws) /\ active' = active \cup ws
        /\ unblockType' = Put(unblockType, ws, "MUTEX")
        /\ blockObject' = [Put(blockObject, ws, NULL) EXCEPT ![t] = c]
        /\ wake' \subseteq wake \cup {t} /\ UNCHANGED fixed
        /\ \/ UpdateOnStopped
           \/ \E w \in ws : UpdateOnWake(priority'[w])
           \/ ws = {} /\ ~(base[t] < curPrio) /\ UNCHANGED sched
    BY <1>5 DEF RootUnlock
  <2> QED BY <1>2, <1>3, <2>1, GiveUpInv
<1> QED BY <1>4, <1>5 DEF SvcallCondWait

\* pthread_mutex_unlock by the owner.
LEMMA UnlockStep ==
  ASSUME ExclusionInv, NEW t \in exec, owner[QMutex] = t, call[t] = Idle,
         RootUnlock(t, QMutex, NULL), UNCHANGED call,
         MqPlaceOK', \A u \in Threads \ {t} : mq'[u] = mq[u], mq'[t].at \in {"none", "signal"}
  PROVE  ExclusionInv'
<1> DEFINE ws == HighestPriorityBlocked(QMutex, t)
<1>1. /\ HandOver(t, QMutex, ws) /\ active' = active \cup ws
      /\ unblockType' = Put(unblockType, ws, "MUTEX")
      /\ blockObject' = [Put(blockObject, ws, NULL) EXCEPT ![t] = NULL]
      /\ wake' \subseteq wake \cup {t} /\ UNCHANGED fixed
      /\ \/ UpdateOnStopped
         \/ \E w \in ws : UpdateOnWake(priority'[w])
         \/ ws = {} /\ ~(base[t] < curPrio) /\ UNCHANGED sched
  BY DEF RootUnlock
<1> QED BY <1>1, GiveUpInv

\* Every step of a behaviour keeps ExclusionInv.
LEMMA ExclusionKept == ExclusionInv /\ [MqNext]_mqVars => ExclusionInv'
<1> SUFFICES ASSUME ExclusionInv, [MqNext]_mqVars PROVE ExclusionInv'
  OBVIOUS
<1>0. /\ MqTypeOK /\ StageInv /\ active \subseteq Threads /\ exec \subseteq active
      /\ unblockType \in [Threads -> UnblockTypes] /\ call \in [Threads -> MqCalls] /\ MqPlaceOK
  BY DEF ExclusionInv, MqTypeOK, KernelTypeOK
<1>1. ASSUME KernelStep, UNCHANGED <<mutex, holds, queue>> PROVE ExclusionInv'
  <2>1. UNCHANGED <<call, mq, owner>>
    BY <1>1 DEF KernelStep, queue, mutex
  <2>2. CASE RoundEnd
    <3>1. /\ UNCHANGED <<fixed, curPrio, active, blockObject, unblockType, wake, priority>>
          /\ exec' = {t \in active : priority[t] = curPrio}
      BY <2>2 DEF RoundEnd, block
    <3>2. UNCHANGED <<program, base>>
      BY <3>1 DEF fixed
    <3>3. MqTypeOK'
      BY <2>1, <3>1, <3>2 DEF ExclusionInv, MqTypeOK, KernelTypeOK, MqPlaceOK
    <3>4. \A w : Waits(w)' <=> Waits(w)
      BY <3>1 DEF Waits
    <3>5. TopInv'
      BY <3>1, <3>2, <3>4 DEF ExclusionInv, TopInv, TopNeeded
    <3>6. Unsignalled' /\ CeilingOnTop' /\ PrioInv' /\ OwnerInv'
      BY <2>1, <3>1, <3>2 DEF ExclusionInv, Unsignalled, CeilingOnTop, PrioInv, OwnerInv
    <3>7. WaitInv' /\ StageInv'
      BY <2>1, <3>1, <3>4 DEF ExclusionInv, WaitInv, StageInv
    <3>8. TargetInv'
      BY <2>1, <3>1, <3>2 DEF ExclusionInv, TargetInv, Waits
    <3> QED BY <3>3, <3>5, <3>6, <3>7, <3>8 DEF ExclusionInv
  <2>3. ASSUME NEW ws \in SUBSET Threads, TimerMatch(ws) PROVE ExclusionInv'
    <3>1. \A w \in ws : ~Waits(w)
      BY <2>3 DEF TimerMatch, ExclusionInv, WaitInv
    <3>2. "SLEEP" \in UnblockTypes
      BY DEF UnblockTypes
    <3> QED BY <1>1, <2>1, <2>3, <3>1, <3>2, WokenInv DEF TimerMatch
  <2>4. ASSUME NEW t \in Threads, Signal(t) \/ SignalWait(t) PROVE FALSE
    <3>1. "signal" \notin program[t] /\ ("pause" \in program[t] => "signal" \in program[t])
      BY ScenarioFacts DEF ExclusionInv, Unsignalled, MqTypeOK, KernelTypeOK
    <3> QED BY <2>4, <3>1 DEF Signal, SignalWait, Calls
  <2> QED BY <1>1, <2>2, <2>3, <2>4 DEF KernelStep
<1>2. ASSUME NEW t \in Threads, MqStep(t) PROVE ExclusionInv'
  <2>1. ASSUME NEW op \in {"send", "receive"}, NEW p \in MsgPrios \cup {0},
               op = "send" => p \in MsgPrios, MqCall(t, op, p)
        PROVE  ExclusionInv'
    <3>1. t \in exec /\ MutexTrylock(t, QMutex, "lock")
      BY <2>1 DEF MqCall, Calls
    <3>2. MqPlaceOK' /\ (\A u \in Threads \ {t} : mq'[u] = mq[u]) /\ mq'[t].at = "loop"
      BY SMT, <1>0, <2>1 DEF MqCall, MqPlaceOK, Places
    <3> QED BY <3>1, <3>2, LockStep
  <2>2. ASSUME NEW c \in Conds, NEW op \in {"send", "receive"}, At(t, op, "loop"), MqWait(t, c)
        PROVE  ExclusionInv'
    <3>1. t \in exec /\ call[t] = Idle /\ mq[t].at = "loop"
      BY <2>2 DEF At
    <3>2. CASE Goto(t, "fail") /\ UNCHANGED <<kernel, call, mutex, holds>>
      <4>1. MqPlaceOK' /\ (\A u \in Threads \ {t} : mq'[u] = mq[u]) /\ mq'[t].at = "fail"
        BY <1>0, <3>2, GotoFacts DEF Places
      <4> QED BY <3>1, <3>2, <4>1, InsideStep
    <3>3. CASE Goto(t, "woken") /\ SvcallCondWait(t, c, QMutex, "timed" \in program[t])
      <4>1. owner[QMutex] = t
        BY <1>0, <3>1 DEF StageInv
      <4> DEFINE isTimed == "timed" \in program[t]
      <4>2. SvcallCondWait(t, c, QMutex, isTimed)
        BY <3>3
      <4>3. isTimed \in BOOLEAN
        BY SMT
      <4> HIDE DEF isTimed
      <4> QED BY <3>1, <3>3, <4>1, <4>2, <4>3, CondWaitStep
    <3> QED BY <2>2, <3>2, <3>3 DEF MqWait
  <2>3. ASSUME NEW i \in Entries, NEW op \in {"send", "receive"}, At(t, op, "loop"), GotoEntry(t, i),
               UNCHANGED <<kernel, call, mutex>>
        PROVE  ExclusionInv'
    <3>1. MqPlaceOK' /\ (\A u \in Threads \ {t} : mq'[u] = mq[u]) /\ mq'[t].at = "copy"
      BY <1>0, <2>3, GotoEntryFacts
    <3> QED BY <2>3, <3>1, InsideStep DEF At
  <2>4. ASSUME NEW op \in {"send", "receive"}, NEW at \in {"loop", "copy", "woken"}, At(t, op, at),
               NEW to \in {"loop", "fail", "unlock"}, Goto(t, to), UNCHANGED <<kernel, call, mutex>>
        PROVE  ExclusionInv'
    <3>1. MqPlaceOK' /\ (\A u \in Threads \ {t} : mq'[u] = mq[u]) /\ mq'[t].at = to
      BY <1>0, <2>4, GotoFacts DEF Places
    <3> QED BY <2>4, <3>1, InsideStep DEF At
  <2>5. CASE MqFindMessage(t)
    <3>1. At(t, "receive", "loop")
      BY <2>5 DEF MqFindMessage
    <3>2. CASE Full = {}
      BY <2>2, <2>5, <3>1, <3>2, QueueFacts DEF MqFindMessage
    <3>3. CASE Full # {}
      BY <2>3, <2>4, <2>5, <3>1, <3>3 DEF MqFindMessage
    <3> QED BY <3>2, <3>3
  <2>6. CASE MqFindFree(t)
    <3>1. At(t, "send", "loop")
      BY <2>6 DEF MqFindFree
    <3> QED BY <2>2, <2>3, <2>6, <3>1, QueueFacts DEF MqFindFree
  <2>7. CASE MqTake(t)
    BY <2>4, <2>7 DEF MqTake
  <2>8. CASE MqPut(t)
    BY <2>4, <2>8 DEF MqPut
  <2>9. CASE MqWoken(t)
    BY <2>4, <2>9 DEF MqWoken
  <2>10. CASE MqUnlock(t)
    <3>1. /\ t \in exec /\ call[t] = Idle /\ mq[t].at \in {"unlock", "fail"} /\ UNCHANGED call
      BY <2>10 DEF MqUnlock, At
    <3>2. /\ MqPlaceOK' /\ \A u \in Threads \ {t} : mq'[u] = mq[u]
          /\ mq'[t].at \in {"none", "signal"}
      BY <1>0, <2>10, GotoFacts, OutFacts DEF MqUnlock, Places
    <3>3. CASE owner[QMutex] = t
      BY <2>10, <3>1, <3>2, <3>3, UnlockStep DEF MqUnlock
    <3>4. CASE owner[QMutex] # t
      <4>1. UNCHANGED <<kernel, mutex>>
        BY <2>10, <3>4 DEF MqUnlock
      <4>2. UNCHANGED <<fixed, sched, active, blockObject, unblockType, wake, priority, owner>>
        BY <4>1 DEF kernel, block, mutex
      <4>3. StageInv'
        <5> SUFFICES ASSUME NEW u \in Threads
                     PROVE  /\ call[u].op \in {"lock", "relock"} => mq'[u].at \in {"loop", "woken"}
                            /\ call[u].op = "condsignal" => mq'[u].at = "none" /\ u \in active
                            /\ call[u] = Idle /\ mq'[u].at \in {"loop", "copy", "woken"} =>
                                 owner[QMutex] = u
                            /\ call[u].op = "condsignal" \/ mq'[u].at = "signal" => owner[QMutex] # u
          BY <3>1, <4>2 DEF StageInv
        <5>1. CASE u = t
          BY SMT, <3>1, <3>2, <3>4, <5>1 DEF Idle
        <5>2. CASE u # t
          BY <1>0, <3>2, <5>2 DEF StageInv
        <5> QED BY <5>1, <5>2
      <4> QED BY <1>0, <3>1, <3>2, <4>2, <4>3, AwakeInv
    <3> QED BY <3>3, <3>4
  <2>11. CASE MqSignal(t)
    <3>1. t \in exec /\ call[t] = Idle /\ mq[t].at = "signal" /\ owner[QMutex] # t
      BY <1>0, <2>11 DEF MqSignal, At, StageInv
    <3>2. MqPlaceOK' /\ (\A u \in Threads \ {t} : mq'[u] = mq[u]) /\ mq'[t].at = "none"
      BY <1>0, <2>11, OutFacts DEF MqSignal
    <3>3. PICK c \in Conds :
            \/ UNCHANGED <<kernel, call, mutex, holds>>
            \/ ChooseWaiter(t, c)
      BY <2>11, QueueFacts DEF MqSignal
    <3>4. UNCHANGED <<kernel, mutex>>
      BY <3>3 DEF ChooseWaiter
    <3>5. UNCHANGED <<fixed, sched, active, blockObject, unblockType, wake, priority, owner>>
      BY <3>4 DEF kernel, block, mutex
    <3>6. \/ call' = call
          \/ \E w \in Threads : ~Waits(w) /\ call' = [call EXCEPT ![t] = [op |-> "condsignal", on |-> w]]
      BY <3>3, QueueFacts DEF ChooseWaiter, Enter, HighestPriorityBlocked, BlockedOn, Waits
    <3>7. /\ call' \in [Threads -> MqCalls] /\ \A u \in Threads \ {t} : call'[u] = call[u]
          /\ \/ call'[t] = Idle
             \/ call'[t].op = "condsignal" /\ ~Waits(call'[t].on)
      BY SMT, <1>0, <3>1, <3>6 DEF MqCalls
    <3>8. StageInv'
      <4> SUFFICES ASSUME NEW u \in Threads
                   PROVE  /\ call'[u].op \in {"lock", "relock"} => mq'[u].at \in {"loop", "woken"}
                          /\ call'[u].op = "condsignal" => mq'[u].at = "none" /\ u \in active
                          /\ call'[u] = Idle /\ mq'[u].at \in {"loop", "copy", "woken"} =>
                               owner[QMutex] = u
                          /\ call'[u].op = "condsignal" \/ mq'[u].at = "signal" => owner[QMutex] # u
        BY <3>5 DEF StageInv
      <4>1. CASE u = t
        BY SMTT(30), <1>0, <3>1, <3>2, <3>7, <4>1 DEF Idle
      <4>2. CASE u # t
        BY <1>0, <3>2, <3>7, <4>2 DEF StageInv
      <4> QED BY <4>1, <4>2
    <3>9. \A u \in Threads : /\ call'[u].op = "lock" <=> call[u].op = "lock"
                             /\ call'[u].op = "condsignal" =>
                                  call'[u] = call[u] \/ ~Waits(call'[u].on)
      BY SMTT(30), <3>1, <3>7 DEF Idle
    <3> QED BY <1>0, <3>2, <3>5, <3>7, <3>8, <3>9, AwakeInv
  <2>12. CASE MqFlush(t)
    <3>1. UNCHANGED <<kernel, call, mutex, mq>>
      BY <2>12 DEF MqFlush
    <3>2. UNCHANGED <<fixed, sched, active, blockObject, unblockType, wake, priority, owner>>
      BY <3>1 DEF kernel, block, mutex
    <3>3. MqPlaceOK' /\ StageInv'
      BY <1>0, <3>1, <3>2 DEF MqPlaceOK, StageInv
    <3> QED BY <1>0, <3>1, <3>2, <3>3, AwakeInv
  <2>13. CASE LockLoop(t) /\ UNCHANGED queue
    <3>1. /\ t \in active /\ call[t].op \in LockCalls /\ UNCHANGED <<call, mq>>
          /\ MutexUnblocked(t, call[t].on, call[t].op = "timedlock")
      BY <1>0, <2>13 DEF LockLoop, InCall, queue
    <3>2. call[t].on = QMutex /\ owner[QMutex] = t
      BY <1>0, <3>1, CallFacts DEF LockCalls, ExclusionInv, WaitInv
    <3>3. /\ unblockType' = [unblockType EXCEPT ![t] = "MUTEX"]
          /\ UNCHANGED <<fixed, sched, active, blockObject, wake, priority, owner>>
      BY <3>1, <3>2 DEF MutexUnblocked, mutex
    <3>4. unblockType' \in [Threads -> UnblockTypes]
      BY <1>0, <3>3 DEF UnblockTypes
    <3>5. MqPlaceOK' /\ StageInv'
      BY <1>0, <3>1, <3>3 DEF MqPlaceOK, StageInv
    <3> QED BY <1>0, <3>1, <3>3, <3>4, <3>5, AwakeInv
  <2>14. CASE LockReturn(t) /\ UNCHANGED queue
    <3>1. /\ t \in active /\ call[t].op \in LockCalls /\ Return(t) /\ UNCHANGED <<kernel, mutex, mq>>
      BY <1>0, <2>14 DEF LockReturn, InCall, queue
    <3>2. call[t].op = "lock" /\ owner[QMutex] = t /\ mq[t].at \in {"loop", "woken"}
      BY <1>0, <3>1, CallFacts DEF LockCalls, ExclusionInv, WaitInv, StageInv
    <3>3. UNCHANGED <<fixed, sched, active, blockObject, unblockType, wake, priority, owner>>
      BY <3>1 DEF kernel, block, mutex
    <3>4. /\ call' \in [Threads -> MqCalls] /\ call'[t] = Idle
          /\ \A u \in Threads \ {t} : call'[u] = call[u]
      BY SMT, <1>0, <3>1 DEF Return, MqCalls
    <3>5. MqPlaceOK'
      BY <1>0, <3>1 DEF MqPlaceOK
    <3>6. StageInv'
      <4> SUFFICES ASSUME NEW u \in Threads
                   PROVE  /\ call'[u].op \in {"lock", "relock"} => mq[u].at \in {"loop", "woken"}
                          /\ call'[u].op = "condsignal" => mq[u].at = "none" /\ u \in active
                          /\ call'[u] = Idle /\ mq[u].at \in {"loop", "copy", "woken"} =>
                               owner[QMutex] = u
                          /\ call'[u].op = "condsignal" \/ mq[u].at = "signal" => owner[QMutex] # u
        BY <3>1, <3>3 DEF StageInv
      <4>1. CASE u = t
        BY SMT, <3>2, <3>4, <4>1 DEF Idle
      <4>2. CASE u # t
        BY <1>0, <3>4, <4>2 DEF StageInv
      <4> QED BY <4>1, <4>2
    <3>7. \A u \in Threads : /\ call'[u].op = "lock" => call[u].op = "lock"
                             /\ call[u].op = "lock" => call'[u].op = "lock" \/ u \in active
                             /\ call'[u].op = "condsignal" => call'[u] = call[u]
      BY SMT, <3>1, <3>4 DEF Idle
    <3> QED BY <1>0, <3>3, <3>4, <3>5, <3>6, <3>7, AwakeInv
  <2>15. CASE CondRelock(t) /\ UNCHANGED queue
    <3>1. t \in exec /\ call[t].op = "relock" /\ MutexTrylock(t, call[t].on, "lock") /\ mq' = mq
      BY <2>15 DEF CondRelock, InCall, queue
    <3>2. call[t].on = QMutex /\ mq[t].at \in {"loop", "woken"}
      BY <1>0, <3>1, CallFacts DEF StageInv
    <3>3. MqPlaceOK'
      BY <1>0, <3>1 DEF MqPlaceOK
    <3> QED BY <3>1, <3>2, <3>3, LockStep
  <2>16. CASE SvcallCondSignal(t) /\ UNCHANGED queue
    <3> DEFINE w == call[t].on
    <3>1. /\ t \in exec /\ call[t].op = "condsignal" /\ AssertActive({w}, "COND") /\ Return(t)
          /\ UpdateOnWake(priority[w]) /\ UNCHANGED <<fixed, priority, mutex, queue>>
      BY <2>16 DEF SvcallCondSignal, InCall
    <3>2. w \in Threads
      BY <1>0, <3>1, CallFacts
    <3>3. ~Waits(w)
      <4> SUFFICES ASSUME Waits(w) PROVE FALSE
        OBVIOUS
      <4>1. priority[t] = Top
        BY <3>1, <3>2 DEF ExclusionInv, TopInv, TopNeeded
      <4>2. owner[QMutex] # t
        BY <1>0, <3>1 DEF StageInv
      <4>3. base[t] = Top
        BY <4>1, <4>2, PriorityBound DEF ExclusionInv
      <4> QED BY <3>1, <4>3 DEF ExclusionInv, TargetInv
    <3>4. "COND" \in UnblockTypes /\ priority[w] \in Priorities
      BY <3>2 DEF UnblockTypes, ExclusionInv, MqTypeOK, KernelTypeOK
    <3>5. IsHighest(priority[w], priority, {w})
      BY SMT, <3>4, PriorityFacts DEF IsHighest
    <3> QED BY <3>1, <3>2, <3>3, <3>4, <3>5, WokenInv
  <2> QED
    BY <1>2, <2>1, <2>5, <2>6, <2>7, <2>8, <2>9, <2>10, <2>11, <2>12, <2>13, <2>14, <2>15, <2>16
       DEF MqStep, MqLower
<1>3. CASE UNCHANGED mqVars
  <2>1. /\ UNCHANGED <<fixed, sched, active, blockObject, unblockType, wake, priority, owner, call, mq>>
    BY <1>3 DEF mqVars, kernel, block, mutex, queue
  <2>2. MqPlaceOK' /\ StageInv'
    BY <1>0, <2>1 DEF MqPlaceOK, StageInv
  <2> QED BY <1>0, <2>1, <2>2, AwakeInv
<1> QED BY <1>1, <1>2, <1>3 DEF MqNext

-----------------------------------------------------------------------------
(* The contents of the table                                               *)

\* One thread at most has chosen an entry, because it is the owner of the mutex.
LEMMA OneCopies ==
  ASSUME ExclusionInv, NEW t \in Threads, NEW u \in Threads, mq[t].at = "copy", mq[u].at = "copy"
  PROVE  t = u
<1>1. \A v \in Threads : mq[v].at = "copy" => owner[QMutex] = v
  BY SMT, CallFacts DEF ExclusionInv, StageInv
<1> QED BY <1>1

\* A step that does not touch the table, and after which a thread has an entry only
\* if it had it before or has just found it.
LEMMA TableUntouched ==
  ASSUME DataInv, UNCHANGED <<msgTable, age, status, taken, discarded>>,
         \A u \in Threads : mq'[u].at = "copy" =>
           \/ mq'[u] = mq[u]
           \/ LET i == mq'[u].entry IN
              /\ mq'[u].op = "send" /\ "LOOP" \notin status => msgTable[i] = Empty
              /\ mq'[u].op = "receive" => OldestHighest(i)
  PROVE  DataInv'
<1>1. Full' = Full /\ Stored' = Stored
  BY DEF Full, Stored
<1>2. TableOK' /\ PlaceInv' /\ OrderInv'
  BY <1>1 DEF DataInv, TableOK, PlaceInv, OrderInv
<1>3. EntryInv'
  <2>1. ASSUME NEW u \in Threads, mq'[u].at = "copy"
        PROVE  LET i == mq'[u].entry IN
               /\ mq'[u].op = "send" /\ "LOOP" \notin status => msgTable[i] = Empty
               /\ mq'[u].op = "receive" => msgTable[i] = Empty \/ OldestHighest(i)
    <3>1. CASE mq'[u] = mq[u]
      BY <2>1, <3>1 DEF DataInv, EntryInv
    <3> QED BY <2>1, <3>1
  <2> QED BY <1>1, <2>1 DEF EntryInv, OldestHighest
<1> QED BY <1>2, <1>3 DEF DataInv

\* mq_timedreceive copies a message and frees its entry.
LEMMA TakeKeeps ==
  ASSUME ExclusionInv, DataInv, NEW t \in Threads, mq[t].at = "copy", mq[t].op = "receive",
         NEW i \in Entries, i = mq[t].entry, msgTable[i] # Empty,
         taken' = taken \cup {msgTable[i]}, msgTable' = [msgTable EXCEPT ![i] = Empty],
         UNCHANGED <<age, status, discarded>>,
         \A u \in Threads \ {t} : mq'[u] = mq[u], mq'[t].at # "copy"
  PROVE  DataInv'
<1> DEFINE m == msgTable[i]
<1>1. /\ msgTable' \in [Entries -> Messages \cup {Empty}] /\ msgTable'[i] = Empty
      /\ \A j \in Entries \ {i} : msgTable'[j] = msgTable[j]
  BY DEF DataInv, TableOK
<1>2. m \in Messages /\ i \in Full /\ m \in Stored /\ \A j \in Full : msgTable[j] \in Messages
  BY DEF DataInv, TableOK, Full, Stored
<1>3. Full' = Full \ {i}
  BY <1>1 DEF Full
<1>4. Stored' = Stored \ {m}
  <2>1. \A j \in Full \ {i} : msgTable'[j] = msgTable[j] /\ msgTable[j] # m
    BY <1>1, <1>2 DEF DataInv, PlaceInv, Full
  <2>2. \A j \in Full' : msgTable'[j] \in Stored \ {m}
    BY <1>3, <2>1 DEF Stored
  <2>3. \A x \in Stored \ {m} : \E j \in Full' : x = msgTable'[j]
    BY SMT, <1>3, <2>1 DEF Stored
  <2> QED BY SMT, <2>2, <2>3 DEF Stored
<1>5. TableOK'
  BY <1>1, <1>2 DEF DataInv, TableOK
<1>6. PlaceInv'
  <2>1. \A j, k \in Full' : msgTable'[j] = msgTable'[k] => j = k
    BY <1>1, <1>3 DEF DataInv, PlaceInv, Full
  <2>2. /\ Stored' \cap taken' = {} /\ Stored' \cap discarded = {} /\ taken' \cap discarded = {}
        /\ Stored' \cup taken' \cup discarded = Stored \cup taken \cup discarded
    BY <1>2, <1>4 DEF DataInv, PlaceInv
  <2> QED BY <2>1, <2>2 DEF DataInv, PlaceInv
<1>7. EntryInv'
  BY OneCopies DEF EntryInv
<1>8. OldestHighest(i)
  BY DEF DataInv, EntryInv
<1>9. OrderInv'
  <2> SUFFICES ASSUME NEW j \in Full', NEW k \in taken', msgTable'[j].prio = k.prio
               PROVE  k.age < msgTable'[j].age
    BY DEF OrderInv
  <2>1. j \in Full /\ j # i /\ msgTable'[j] = msgTable[j]
    BY <1>1, <1>3 DEF Full
  <2>2. CASE k \in taken
    BY <2>1, <2>2 DEF DataInv, OrderInv
  <2>3. CASE k = m
    <3>1. msgTable[j] # m /\ msgTable[j] \in Messages
      BY <1>2, <2>1 DEF DataInv, PlaceInv
    <3>2. msgTable[j].prio \in Int /\ m.prio \in Int /\ m.age \in Int /\ msgTable[j].age \in Int
      BY SMTT(30), <1>2, <3>1, MessageFacts
    <3>3. m.age <= msgTable[j].age
      BY SMTT(30), <1>8, <2>1, <2>3, <3>2 DEF OldestHighest
    <3>4. m.age # msgTable[j].age
      BY SMTT(30), <1>2, <2>1, <2>3, <3>1, MessageFacts
    <3> QED BY SMTT(30), <2>1, <2>3, <3>2, <3>3, <3>4
  <2> QED BY <2>2, <2>3
<1> QED BY <1>5, <1>6, <1>7, <1>9 DEF DataInv

\* mq_timedsend writes a message into its entry.
LEMMA PutKeeps ==
  ASSUME ExclusionInv, DataInv, NEW t \in Threads, mq[t].at = "copy", mq[t].op = "send",
         NEW i \in Entries, i = mq[t].entry, age < MaxAge, age' = age + 1,
         NEW new, new = [prio |-> mq[t].prio, age |-> age],
         msgTable' = [msgTable EXCEPT ![i] = new],
         discarded' = IF "LOOP" \in status THEN discarded \cup ({msgTable[i]} \ {Empty})
                                           ELSE discarded,
         UNCHANGED <<status, taken>>,
         \A u \in Threads \ {t} : mq'[u] = mq[u], mq'[t].at # "copy"
  PROVE  DataInv'
<1> DEFINE old == {msgTable[i]} \ {Empty}
<1>0. age \in Nat /\ age + 1 \in 0..MaxAge /\ age \in 0..MaxAge - 1 /\ MaxAge \in Nat
  BY SMT, MessageQueueAssumption DEF DataInv, TableOK
<1>1. new \in Messages /\ new # Empty /\ new.age = age
  <2>1. mq[t].prio \in MsgPrios
    BY DEF ExclusionInv, MqTypeOK, MqPlaceOK
  <2> QED BY SMT, <1>0, <2>1, MessageFacts
<1>2. /\ msgTable' \in [Entries -> Messages \cup {Empty}] /\ msgTable'[i] = new
      /\ \A j \in Entries \ {i} : msgTable'[j] = msgTable[j]
  BY <1>1 DEF DataInv, TableOK
<1>3. discarded' = discarded \cup old
  BY DEF DataInv, EntryInv
<1>4. Full' = Full \cup {i} /\ \A x \in old : i \in Full /\ x = msgTable[i]
  <2>1. \A j \in Entries : j \in Full' <=> j \in Full \/ j = i
    BY <1>1, <1>2 DEF Full
  <2>2. Full' \subseteq Entries /\ Full \subseteq Entries
    BY DEF Full
  <2>3. Full' = Full \cup {i}
    BY <2>1, <2>2
  <2> QED BY <2>3 DEF Full
<1>5. /\ old \subseteq Stored /\ old \subseteq Messages /\ Stored \subseteq Messages
      /\ \A j \in Full \ {i} : msgTable'[j] = msgTable[j] /\ msgTable[j] \notin old
  <2>1. Stored \subseteq Messages
    BY DEF DataInv, TableOK, Full, Stored
  <2>2. old \subseteq Stored
    BY <1>4 DEF Stored
  <2>3. \A j \in Full \ {i} : msgTable'[j] = msgTable[j]
    BY <1>2 DEF Full
  <2>4. \A j \in Full \ {i} : msgTable[j] \notin old
    BY <1>4 DEF DataInv, PlaceInv
  <2> QED BY <2>1, <2>2, <2>3, <2>4
<1>6. Stored' = (Stored \ old) \cup {new}
  <2>1. \A j \in Full' : msgTable'[j] \in (Stored \ old) \cup {new}
    BY <1>2, <1>4, <1>5 DEF Stored
  <2>2. \A x \in (Stored \ old) \cup {new} : \E j \in Full' : x = msgTable'[j]
    <3> SUFFICES ASSUME NEW x \in Stored \ old PROVE \E j \in Full' : x = msgTable'[j]
      BY <1>2, <1>4
    <3>1. PICK j \in Full : x = msgTable[j]
      BY DEF Stored
    <3>2. j # i
      BY <3>1 DEF Full
    <3> QED BY <1>4, <1>5, <3>1, <3>2
  <2> QED BY SMTT(30), <2>1, <2>2 DEF Stored
<1>7. \A x \in Stored \cup taken \cup discarded : x.age \in 0..age - 1
  BY DEF DataInv, PlaceInv
<1>8. new \notin Stored \cup taken \cup discarded
  <2>1. age \notin 0..age - 1
    BY SMT, <1>0
  <2> QED BY <1>1, <1>7, <2>1
<1>9. TableOK'
  BY <1>0, <1>2, <1>3, <1>5 DEF DataInv, TableOK
<1>10. PlaceInv'
  <2>1. \A j, k \in Full' : msgTable'[j] = msgTable'[k] => j = k
    <3>1. \A j \in Full \ {i} : msgTable'[j] = msgTable[j] /\ msgTable[j] # new
      BY <1>5, <1>8 DEF Stored
    <3> SUFFICES ASSUME NEW j \in Full', NEW k \in Full', msgTable'[j] = msgTable'[k], j # k
                 PROVE  FALSE
      OBVIOUS
    <3>2. j \in Full \ {i} \/ k \in Full \ {i}
      BY <1>4
    <3>3. j # i /\ k # i
      BY SMTT(30), <1>2, <1>4, <3>1, <3>2
    <3> QED BY SMT, <1>4, <3>1, <3>3 DEF DataInv, PlaceInv
  <2>2. Stored' \cap taken = {} /\ Stored' \cap discarded' = {} /\ taken \cap discarded' = {}
    <3>1. Stored \cap taken = {} /\ Stored \cap discarded = {} /\ taken \cap discarded = {}
      BY DEF DataInv, PlaceInv
    <3>2. new \notin old
      BY <1>5, <1>8
    <3> HIDE DEF old
    <3> QED BY SMT, <1>3, <1>5, <1>6, <1>8, <3>1, <3>2
  <2>3. Stored' \cup taken \cup discarded' = (Stored \cup taken \cup discarded) \cup {new}
    BY <1>3, <1>5, <1>6
  <2>4. {m.age : m \in (Stored \cup taken \cup discarded) \cup {new}} = (0..age - 1) \cup {age}
    BY <1>1 DEF DataInv, PlaceInv
  <2>5. (0..age - 1) \cup {age} = 0..(age + 1) - 1
    BY SMT, <1>0
  <2> QED BY <2>1, <2>2, <2>3, <2>4, <2>5 DEF PlaceInv
<1>11. EntryInv'
  BY OneCopies DEF EntryInv
<1>12. OrderInv'
  <2> SUFFICES ASSUME NEW j \in Full', NEW k \in taken, msgTable'[j].prio = k.prio
               PROVE  k.age < msgTable'[j].age
    BY DEF OrderInv
  <2>1. CASE j = i
    <3>1. k.age \in 0..age - 1
      BY <1>7
    <3> QED BY SMT, <1>0, <1>1, <1>2, <2>1, <3>1
  <2>2. CASE j # i
    BY <1>4, <1>5, <2>2 DEF DataInv, OrderInv
  <2> QED BY <2>1, <2>2
<1> QED BY <1>9, <1>10, <1>11, <1>12 DEF DataInv

\* mq_flush empties the table, whoever has chosen an entry.
LEMMA FlushKeeps ==
  ASSUME ExclusionInv, DataInv, msgTable' = [i \in Entries |-> Empty],
         discarded' = discarded \cup Stored, UNCHANGED <<age, status, mq, taken>>
  PROVE  DataInv'
<1>1. \A i \in Entries : msgTable'[i] = Empty
  OBVIOUS
<1>2. Full' = {} /\ Stored' = {}
  BY <1>1 DEF Full, Stored
<1>3. Stored \subseteq Messages
  BY DEF DataInv, TableOK, Stored, Full
<1>4. TableOK'
  BY <1>3 DEF DataInv, TableOK
<1>5. PlaceInv'
  <2>1. /\ Stored' \cap taken = {} /\ Stored' \cap discarded' = {} /\ taken \cap discarded' = {}
        /\ Stored' \cup taken \cup discarded' = Stored \cup taken \cup discarded
    BY <1>2 DEF DataInv, PlaceInv
  <2> QED BY <1>2, <2>1 DEF DataInv, PlaceInv
<1>6. EntryInv'
  BY <1>1 DEF EntryInv, ExclusionInv, MqTypeOK, MqPlaceOK
<1>7. OrderInv'
  BY <1>2 DEF OrderInv
<1> QED BY <1>4, <1>5, <1>6, <1>7 DEF DataInv

LEMMA DataKept == ExclusionInv /\ DataInv /\ [MqNext]_mqVars => DataInv'
<1> SUFFICES ASSUME ExclusionInv, DataInv, [MqNext]_mqVars PROVE DataInv'
  OBVIOUS
<1>0. MqTypeOK /\ MqPlaceOK
  BY DEF ExclusionInv, MqTypeOK
<1>1. ASSUME UNCHANGED queue PROVE DataInv'
  <2>1. UNCHANGED <<msgTable, age, status, mq, taken, discarded>>
    BY <1>1 DEF queue
  <2> QED BY <2>1, TableUntouched
<1>2. ASSUME NEW t \in Threads, MqStep(t) PROVE DataInv'
  <2>1. ASSUME UNCHANGED <<msgTable, age, status, taken, discarded>>,
               \A u \in Threads \ {t} : mq'[u] = mq[u], mq'[t].at # "copy"
        PROVE  DataInv'
    BY <2>1, TableUntouched
  <2>2. ASSUME NEW to \in {"loop", "woken", "fail", "unlock", "signal"}, Goto(t, to)
        PROVE  (\A u \in Threads \ {t} : mq'[u] = mq[u]) /\ mq'[t].at # "copy"
    <3>1. to \in Places \ {"copy"}
      BY DEF Places
    <3> QED BY <1>0, <2>2, <3>1, GotoFacts
  <2>3. ASSUME NEW c, MqWait(t, c) PROVE DataInv'
    <3>1. Goto(t, "fail") \/ Goto(t, "woken")
      BY <2>3 DEF MqWait
    <3>2. (\A u \in Threads \ {t} : mq'[u] = mq[u]) /\ mq'[t].at # "copy"
      BY <2>2, <3>1
    <3> QED BY <2>1, <2>3, <3>2 DEF MqWait
  <2>4. ASSUME NEW op \in {"send", "receive"}, NEW p \in MsgPrios \cup {0}, MqCall(t, op, p)
        PROVE  DataInv'
    <3>1. mq' = [mq EXCEPT ![t] = [op |-> op, at |-> "loop", prio |-> p, entry |-> 0]]
      BY <2>4 DEF MqCall
    <3>2. (\A u \in Threads \ {t} : mq'[u] = mq[u]) /\ mq'[t].at # "copy"
      BY SMT, <1>0, <3>1 DEF MqPlaceOK
    <3> QED BY <2>1, <2>4, <3>2 DEF MqCall
  <2>5. CASE MqFindMessage(t)
    <3>1. CASE Full = {}
      BY <2>3, <2>5, <3>1 DEF MqFindMessage
    <3>2. CASE Full # {} /\ "small" \in program[t]
      <4>1. Goto(t, "fail") /\ UNCHANGED <<msgTable, age, status, taken, discarded>>
        BY <2>5, <3>2 DEF MqFindMessage
      <4> QED BY <2>1, <2>2, <4>1
    <3>3. CASE Full # {} /\ "small" \notin program[t]
      <4>1. PICK i \in Entries : OldestHighest(i) /\ GotoEntry(t, i)
        BY <2>5, <3>3 DEF MqFindMessage
      <4>2. /\ \A u \in Threads \ {t} : mq'[u] = mq[u]
            /\ mq'[t].entry = i /\ mq'[t].op = "receive"
        BY <1>0, <2>5, <4>1, GotoEntryFacts DEF MqFindMessage, At
      <4>3. UNCHANGED <<msgTable, age, status, taken, discarded>>
        BY <2>5, <3>3 DEF MqFindMessage
      <4> QED BY <4>1, <4>2, <4>3, TableUntouched
    <3> QED BY <3>1, <3>2, <3>3
  <2>6. CASE MqFindFree(t)
    <3>1. CASE Full = Entries /\ "LOOP" \notin status
      BY <2>3, <2>6, <3>1 DEF MqFindFree
    <3>2. CASE ~(Full = Entries /\ "LOOP" \notin status)
      <4>1. PICK i \in Entries : /\ IF Full = Entries THEN OldestHighest(i) ELSE FirstFree(i)
                                 /\ GotoEntry(t, i)
        BY <2>6, <3>2 DEF MqFindFree
      <4>2. /\ \A u \in Threads \ {t} : mq'[u] = mq[u]
            /\ mq'[t].entry = i /\ mq'[t].op = "send"
        BY <1>0, <2>6, <4>1, GotoEntryFacts DEF MqFindFree, At
      <4>3. UNCHANGED <<msgTable, age, status, taken, discarded>>
        BY <2>6, <3>2 DEF MqFindFree
      <4>4. "LOOP" \notin status => msgTable[i] = Empty
        BY <3>2, <4>1 DEF FirstFree, Full
      <4> QED BY <4>2, <4>3, <4>4, TableUntouched
    <3> QED BY <3>1, <3>2
  <2>7. CASE MqTake(t)
    <3> DEFINE i == mq[t].entry
    <3>1. mq[t].at = "copy" /\ mq[t].op = "receive" /\ i \in Entries
      BY <1>0, <2>7 DEF MqTake, At, MqPlaceOK
    <3>2. CASE msgTable[i] = Empty
      <4>1. Goto(t, "loop") /\ UNCHANGED <<msgTable, age, status, taken, discarded>>
        BY <2>7, <3>2 DEF MqTake
      <4> QED BY <2>1, <2>2, <4>1
    <3>3. CASE msgTable[i] # Empty
      <4>1. (\A u \in Threads \ {t} : mq'[u] = mq[u]) /\ mq'[t].at # "copy"
        BY <2>2, <2>7, <3>3 DEF MqTake
      <4>2. /\ taken' = taken \cup {msgTable[i]} /\ msgTable' = [msgTable EXCEPT ![i] = Empty]
            /\ UNCHANGED <<age, status, discarded>>
        BY <2>7, <3>3 DEF MqTake
      <4> HIDE DEF i
      <4> QED BY <3>1, <3>3, <4>1, <4>2, TakeKeeps DEF i
    <3> QED BY <3>2, <3>3
  <2>8. CASE MqPut(t)
    <3>1. mq[t].at = "copy" /\ mq[t].op = "send" /\ mq[t].entry \in Entries
      BY <1>0, <2>8 DEF MqPut, At, MqPlaceOK
    <3>2. (\A u \in Threads \ {t} : mq'[u] = mq[u]) /\ mq'[t].at # "copy"
      BY <2>2, <2>8 DEF MqPut
    <3> QED BY <2>8, <3>1, <3>2, PutKeeps DEF MqPut
  <2>9. CASE MqWoken(t)
    <3>1. Goto(t, "fail") \/ Goto(t, "loop")
      BY <2>9 DEF MqWoken
    <3>2. (\A u \in Threads \ {t} : mq'[u] = mq[u]) /\ mq'[t].at # "copy"
      BY <2>2, <3>1
    <3> QED BY <2>1, <2>9, <3>2 DEF MqWoken
  <2>10. CASE MqUnlock(t)
    <3>1. (\A u \in Threads \ {t} : mq'[u] = mq[u]) /\ mq'[t].at # "copy"
      <4>1. Goto(t, "signal") \/ mq' = [mq EXCEPT ![t] = Out]
        BY <2>10 DEF MqUnlock
      <4> QED BY <1>0, <2>2, <4>1, OutFacts
    <3> QED BY <2>1, <2>10, <3>1 DEF MqUnlock
  <2>11. CASE MqSignal(t)
    <3>1. (\A u \in Threads \ {t} : mq'[u] = mq[u]) /\ mq'[t].at # "copy"
      BY <1>0, <2>11, OutFacts DEF MqSignal
    <3> QED BY <2>1, <2>11, <3>1 DEF MqSignal
  <2>12. CASE MqFlush(t)
    BY <2>12, FlushKeeps DEF MqFlush, Stored
  <2>13. CASE MqLower(t)
    BY <1>1, <2>13 DEF MqLower
  <2> QED
    BY <1>2, <2>4, <2>5, <2>6, <2>7, <2>8, <2>9, <2>10, <2>11, <2>12, <2>13 DEF MqStep
<1> QED BY <1>1, <1>2 DEF MqNext, mqVars

LEMMA MqInitially == MqInit /\ Unsignalled /\ CeilingOnTop => ExclusionInv /\ DataInv
<1> SUFFICES ASSUME MqInit, Unsignalled, CeilingOnTop PROVE ExclusionInv /\ DataInv
  OBVIOUS
<1>1. ExclusionInv
  <2>1. PICK s \in Scenarios : program = s.program /\ base = s.base
    BY DEF MqInit, KernelInit
  <2>2. s = [program |-> s.program, base |-> s.base]
    BY KernelAssumption
  <2>3. [program |-> program, base |-> base] \in Scenarios
    BY <2>1, <2>2
  <2>4. base \in [Threads -> Priorities]
    BY <2>3, ScenarioFacts
  <2>5. KernelTypeOK(Mutexes \cup Conds)
    BY <2>3, <2>4 DEF MqInit, KernelInit, KernelTypeOK, UnblockTypes
  <2>6. MqPlaceOK /\ \A t \in Threads : mq[t].at = "none"
    BY SMT DEF MqInit, MqPlaceOK, Out, Places
  <2>7. call \in [Threads -> MqCalls] /\ \A t \in Threads : call[t].op = "none"
    BY SMT DEF MqInit, KernelInit, MqCalls, Idle
  <2>8. /\ owner \in [Mutexes -> Threads \cup {NoThread}] /\ owner[QMutex] = NoThread
        /\ \A t \in Threads : owner[QMutex] # t
    BY QueueFacts, ConstantFacts DEF MqInit, MutexInit
  <2>9. active = Threads /\ priority = base
    BY DEF MqInit, KernelInit
  <2>10. PrioInv /\ OwnerInv
    BY <2>8, <2>9 DEF PrioInv, OwnerInv
  <2>11. WaitInv /\ StageInv /\ TargetInv
    BY <2>6, <2>7, <2>9 DEF WaitInv, StageInv, TargetInv, Waits
  <2>12. TopInv
    <3>1. PICK u \in Threads : base[u] = curPrio /\ \A t \in Threads : base[t] <= curPrio
      <4>1. 1 \in Threads
        BY SMT, KernelAssumption DEF Threads
      <4> QED BY <4>1 DEF MqInit, KernelInit, IsHighest
    <3>2. curPrio <= Top
      BY <3>1 DEF CeilingOnTop
    <3>3. ASSUME TopNeeded PROVE curPrio = Top
      <4>1. PICK t \in Threads : base[t] = Top
        BY <2>9, <3>3 DEF TopNeeded, Waits
      <4>2. Top <= curPrio /\ Top \in Int /\ curPrio \in Int
        BY <2>4, <3>1, <4>1, QueueFacts, PriorityFacts
      <4> QED BY SMT, <3>2, <4>2
    <3>4. \A t \in exec : priority[t] = curPrio
      BY <2>9 DEF MqInit, KernelInit
    <3> QED BY <3>2, <3>3, <3>4 DEF TopInv
  <2> QED BY <2>5, <2>6, <2>7, <2>8, <2>10, <2>11, <2>12 DEF ExclusionInv, MqTypeOK
<1>2. DataInv
  <2>1. Full = {} /\ Stored = {} /\ taken = {} /\ discarded = {} /\ age = 0
    BY DEF MqInit, Full, Stored
  <2>2. 0..0 - 1 = {} /\ 0 \in 0..MaxAge
    BY SMT, MessageQueueAssumption
  <2>3. TableOK
    BY <2>1, <2>2 DEF MqInit, TableOK
  <2>4. PlaceInv
    BY <2>1, <2>2 DEF PlaceInv
  <2>5. \A t \in Threads : mq[t].at = "none"
    BY SMT DEF MqInit, Out
  <2> QED BY <2>1, <2>3, <2>4, <2>5 DEF DataInv, EntryInv, OrderInv
<1> QED BY <1>1, <1>2

-----------------------------------------------------------------------------
(* The theorems                                                            *)

LEMMA QueueInvariant == MqSpec /\ Unsignalled /\ CeilingOnTop => [](ExclusionInv /\ DataInv)
<1>1. (ExclusionInv /\ DataInv) /\ [MqNext]_mqVars => (ExclusionInv /\ DataInv)'
  BY ExclusionKept, DataKept
<1> QED BY <1>1, MqInitially, PTL DEF MqSpec

\* One thread at a time has chosen an entry and not used it yet, although a thread that
\* was woken by mq_timedsend or mq_timedreceive goes on whether it got the mutex or not.
THEOREM OneThreadChooses ==
  MqSpec /\ Unsignalled /\ CeilingOnTop =>
    [](\A t, u \in Threads : mq[t].at = "copy" /\ mq[u].at = "copy" => t = u)
<1>1. ExclusionInv => \A t, u \in Threads : mq[t].at = "copy" /\ mq[u].at = "copy" => t = u
  BY OneCopies
<1> QED BY <1>1, QueueInvariant, PTL

\* The table has as many messages as entries in use.
LEMMA StoredCardinality ==
  ASSUME DataInv
  PROVE  Cardinality(Stored) = Cardinality(Full)
<1>1. IsFiniteSet(Full)
  <2>1. IsFiniteSet(Entries)
    BY SMT, FS_Interval, MessageQueueAssumption DEF Entries
  <2> QED BY <2>1, FS_Subset DEF Full
<1>2. ExistsBijection(Full, Stored)
  <2> DEFINE f == [i \in Full |-> msgTable[i]]
  <2>1. f \in [Full -> Stored] /\ \A i \in Full : f[i] = msgTable[i]
    BY DEF Stored
  <2>2. f \in Injection(Full, Stored)
    <3>1. \A i, j \in Full : f[i] = f[j] => i = j
      BY <2>1 DEF DataInv, PlaceInv
    <3> HIDE DEF f
    <3> QED BY <2>1, <3>1 DEF Injection, IsInjective
  <2>3. f \in Surjection(Full, Stored)
    BY <2>1 DEF Surjection, Stored
  <2> QED BY <2>2, <2>3 DEF ExistsBijection, Bijection
<1> QED BY <1>1, <1>2, FS_Bijection

\* No message is lost, duplicated or both, whichever threads send, receive and
\* flush, and although the entry is chosen in one step and used in another.
THEOREM MessagesConserved == MqSpec /\ Unsignalled /\ CeilingOnTop => []MqConservation
<1>1. ExclusionInv /\ DataInv => MqConservation
  BY StoredCardinality DEF MqConservation, DataInv, PlaceInv, Stored
<1> QED BY <1>1, QueueInvariant, PTL

\* Messages of one priority are received in the order they were sent.
THEOREM MessagesInOrder == MqSpec /\ Unsignalled /\ CeilingOnTop => MqOrder
<1> DEFINE Ordered == \A m \in taken' \ taken, k \in taken : m.prio = k.prio => k.age < m.age
<1>1. ExclusionInv /\ DataInv /\ [MqNext]_mqVars => [Ordered]_mqVars
  <2> SUFFICES ASSUME ExclusionInv, DataInv, MqNext, NEW m \in taken' \ taken, NEW k \in taken,
                      m.prio = k.prio
               PROVE  k.age < m.age
    OBVIOUS
  <2>1. PICK t \in Threads : MqTake(t)
    BY DEF MqNext, MqStep, MqCall, MqFindMessage, MqWait, MqFindFree, MqPut, MqWoken, MqUnlock,
           MqSignal, MqFlush, MqLower, queue
  <2>2. mq[t].entry \in Entries
    BY <2>1 DEF MqTake, At, ExclusionInv, MqTypeOK, MqPlaceOK
  <2>3. PICK i \in Full : m = msgTable[i]
    BY <2>1, <2>2 DEF MqTake, Full
  <2> QED BY <2>3 DEF DataInv, OrderInv
<1> QED BY <1>1, QueueInvariant, PTL DEF MqSpec, MqOrder

-----------------------------------------------------------------------------
(* Nobody is forgotten                                                     *)

LEMMA ServiceInitially == MqInit => ServiceInv
<1> SUFFICES ASSUME MqInit PROVE ServiceInv
  OBVIOUS
<1>1. active = Threads /\ wake = {} /\ \A t \in Threads : blockObject[t] = NULL
  BY DEF MqInit, KernelInit
<1>2. \A t \in Threads : unblockType[t] = "NONE" /\ call[t] = Idle /\ mq[t] = Out
  BY DEF MqInit, KernelInit
<1>3. Idle.op = "none" /\ Out.op = "none" /\ Out.at = "none"
  BY SMT DEF Idle, Out
<1>4. NULL \notin Conds /\ RecvCond \in Conds
  BY QueueFacts, CondAssumption
<1>5. \A t \in Threads, op \in Sides : ~Asleep(t, op) /\ call[t].op # "condsignal"
  BY <1>1, <1>2, <1>3 DEF Asleep
<1>6. RoleInv
  BY <1>1, <1>2, <1>3, <1>4, <1>5 DEF RoleInv, RoleOf
<1> QED BY <1>5, <1>6 DEF ServiceInv, AloneInv, ChosenInv, TokenInv

\* The programs of the threads do not change.
LEMMA ProgramFixed ==
  ASSUME [MqNext]_mqVars
  PROVE  UNCHANGED program
<1>1. UNCHANGED kernel \/ UNCHANGED fixed => UNCHANGED program
  BY DEF kernel, fixed
<1>2. CASE UNCHANGED mqVars
  BY <1>1, <1>2 DEF mqVars
<1>3. CASE KernelStep
  BY <1>1, <1>3 DEF KernelStep, RoundEnd, TimerMatch, Signal, SignalWait
<1>4. ASSUME NEW t \in Threads, MqStep(t) PROVE UNCHANGED program
  <2>1. ASSUME NEW m, NEW op, MutexTrylock(t, m, op) PROVE UNCHANGED program
    BY <1>1, <2>1 DEF MutexTrylock, TakeFree, MutexBlock
  <2>2. ASSUME NEW c, MqWait(t, c) PROVE UNCHANGED program
    BY <1>1, <2>2 DEF MqWait, SvcallCondWait, RootUnlock
  <2>3. ASSUME NEW op, NEW p, MqCall(t, op, p) PROVE UNCHANGED program
    BY <2>1, <2>3 DEF MqCall
  <2>4. CASE MqFindMessage(t) \/ MqFindFree(t)
    BY <1>1, <2>2, <2>4 DEF MqFindMessage, MqFindFree
  <2>5. CASE MqTake(t) \/ MqPut(t) \/ MqWoken(t) \/ MqFlush(t)
    BY <1>1, <2>5 DEF MqTake, MqPut, MqWoken, MqFlush
  <2>6. CASE MqUnlock(t) \/ MqSignal(t)
    BY <1>1, <2>6 DEF MqUnlock, MqSignal, RootUnlock, ChooseWaiter
  <2>7. CASE MqLower(t)
    <3>1. CASE LockLoop(t)
      BY <1>1, <3>1 DEF LockLoop, MutexUnblocked, TakeFree, MutexBlock
    <3>2. CASE LockReturn(t) \/ CondRelock(t) \/ SvcallCondSignal(t)
      BY <1>1, <2>1, <3>2 DEF LockReturn, CondRelock, SvcallCondSignal
    <3> QED BY <2>7, <3>1, <3>2 DEF MqLower
  <2> QED BY <1>4, <2>3, <2>4, <2>5, <2>6, <2>7 DEF MqStep
<1> QED BY <1>2, <1>3, <1>4 DEF MqNext

\* The invariant says what MqNotForgotten says.
LEMMA ServiceSuffices ==
  ASSUME ExclusionInv, OneWaker, ServiceInv, NEW op \in Sides, NEW t \in Threads,
         Asleep(t, op), Items(op) # {}
  PROVE  Working(op, Other(op)) # {}
<1> USE DEF ServiceInv
<1>1. ASSUME NEW u \in Threads, Notifies(u, op) PROVE u \in Working(op, Other(op))
  <2>1. CASE mq[u].at \in {"unlock", "signal"}
    <3>1. mq[u].op \in program[u] /\ mq[u].op # "none"
      BY <2>1 DEF RoleInv, RoleOf
    <3>2. mq[u].op \in Sides
      BY <3>1 DEF ExclusionInv, MqTypeOK, MqPlaceOK, Sides
    <3>3. mq[u].op = Other(op)
      BY <1>1, <3>1, <3>2, SideApart, SideFacts DEF Notifies
    <3> QED BY <2>1, <3>3 DEF Working
  <2> QED BY <1>1, <2>1 DEF Working, Notifies
<1>2. CASE Alone(op)
  BY <1>1, <1>2 DEF AloneInv
<1>3. CASE Alone(Other(op)) /\ Untimed(op)
  <2>1. Cardinality(Items(op)) <= Cardinality(Workers(op))
    BY <1>3 DEF TokenInv
  <2>2. IsFiniteSet(Items(op)) /\ IsFiniteSet(Workers(op))
    BY FiniteFacts DEF Items, Workers, Full
  <2>3. /\ Cardinality(Items(op)) \in Nat /\ Cardinality(Items(op)) # 0
        /\ Workers(op) = {} => Cardinality(Workers(op)) = 0
    BY <2>2, FS_CardinalityType, FS_EmptySet
  <2>4. Workers(op) # {}
    BY SMT, <2>1, <2>3
  <2>5. PICK u \in Threads : Notifies(u, op) \/ Comes(u, op)
    BY <2>4 DEF Workers
  <2>6. ASSUME Comes(u, op) PROVE u \in Working(op, Other(op))
    <3>1. mq[u].op = op /\ op \in program[u] /\ ~Asleep(u, op) /\ RoleOf(u)
      BY <2>6, SideFacts DEF Comes, RoleInv, RoleOf
    <3>2. "timed" \notin program[u]
      BY <1>3, <3>1 DEF Untimed
    <3>3. ~Asleep(u, Other(op))
      <4>1. Other(op) \in Sides /\ Other(op) # op
        BY SideFacts
      <4> QED BY <3>1, <4>1 DEF RoleOf
    <3>4. \A c \in {SendCond, RecvCond} : c = CondOf(op) \/ c = CondOf(Other(op))
      BY SideFacts DEF Sides
    <3>5. blockObject[u] \notin Conds
      BY <3>1, <3>2, <3>3, <3>4 DEF RoleOf, Asleep
    <3> QED BY <3>1, <3>5 DEF Working
  <2> QED BY <1>1, <2>5, <2>6
<1> QED BY <1>2, <1>3 DEF OneWaker

\* A receiver sleeps beside a message, or a sender beside a free entry, only while another
\* thread is on its way to use it or to wake a sleeper.  Of threads that are on one side
\* each and have one waker.
THEOREM NobodyForgotten ==
  MqSpec /\ Unsignalled /\ CeilingOnTop /\ OneWaker => []MqNotForgotten
<1> DEFINE J == OneWaker /\ (NothingDropped => ServiceInv)
<1>1. ExclusionInv /\ DataInv /\ J /\ [MqNext]_mqVars => J'
  <2> SUFFICES ASSUME ExclusionInv, DataInv, J, [MqNext]_mqVars PROVE J'
    OBVIOUS
  <2>1. UNCHANGED program
    BY ProgramFixed
  <2>2. OneWaker' /\ (NothingDropped' => NothingDropped)
    BY <2>1 DEF OneWaker, Alone, Untimed, Other, NothingDropped
  <2> QED BY <2>2, ServiceKept
<1>2. MqInit /\ OneWaker => J
  BY ServiceInitially
<1>3. ExclusionInv /\ J => MqNotForgotten
  <2> SUFFICES ASSUME ExclusionInv, J, NothingDropped, NEW t \in Threads \ active
               PROVE  /\ blockObject[t] = SendCond /\ Full # {} => Working("receive", "send") # {}
                      /\ blockObject[t] = RecvCond /\ Full # Entries => Working("send", "receive") # {}
    BY DEF MqNotForgotten, NothingDropped
  <2>1. ASSUME blockObject[t] = SendCond, Full # {} PROVE Working("receive", "send") # {}
    <3>1. "receive" \in Sides /\ Asleep(t, "receive") /\ Items("receive") # {}
      BY <2>1, SideFacts DEF Sides, Asleep, Items
    <3> QED BY <3>1, ServiceSuffices, SideFacts
  <2>2. ASSUME blockObject[t] = RecvCond, Full # Entries PROVE Working("send", "receive") # {}
    <3>1. Entries \ Full # {}
      BY <2>2 DEF Full
    <3>2. "send" \in Sides /\ Asleep(t, "send") /\ Items("send") # {}
      BY <2>2, <3>1, SideFacts DEF Sides, Asleep, Items
    <3> QED BY <3>2, ServiceSuffices, SideFacts
  <2> QED BY <2>1, <2>2
<1> QED BY <1>1, <1>2, <1>3, QueueInvariant, PTL DEF MqSpec
=============================================================================

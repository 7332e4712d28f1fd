-------------------------- MODULE SchedulerProofs --------------------------
(***************************************************************************)
(* Theorems about Scheduler for any number of tasks, priorities and         *)
(* processes.  The two assumptions on Ops name the two things the code does *)
(* that break them: events that reach a slot between its two creating       *)
(* service calls ("unready"), and svcall_contpid ("cont").                  *)
(***************************************************************************)
EXTENDS Scheduler, FiniteSetTheorems, TLAPS

\* Most leaves are first-order: Zenon is the default, and the leaves it does
\* not find say SMT.
USE Zenon

\* The tasks PendSV gives the exec flag.
Executable == {t \in Runnable : priority[t] = curPrio}

\* What is known of slots that are filled and not activated: each has at most
\* one creator, which is alive; none is active; a thread of them shares its
\* process with its creator, a process has its id to itself.
CreationInv ==
  /\ unready \subseteq used \ active
  /\ \A c \in Slots : child[c] # 0 =>
        /\ child[c] \in unready
        /\ c \in used \cup {0}
        /\ step[c] \in {"run", "boot"}
        /\ child[c] \in thread => pid[child[c]] = pid[c]
  /\ \A c, d \in Slots : c # d /\ child[c] = child[d] => child[c] = 0
  /\ \A i \in unready \ thread : \A u \in Slots \ {i} : pid[u] # pid[i]
  /\ step[0] = "boot" => used \subseteq {child[0]}
  /\ child[0] # 0 => step[0] = "boot" /\ child[0] \in thread
  /\ \A i \in (Tasks \ used) \cup unready : step[i] = "run"

\* The current priority bounds every runnable task; when no context switch is
\* pending the exec flags are exactly those PendSV would set, and a current
\* task other than 0 has one.
PriorityInv ==
  /\ \A t \in Runnable : priority[t] <= curPrio
  /\ ~pendSV => exec = Executable
  /\ ~pendSV /\ current # 0 => current \in exec

\* The current priority is the priority of a runnable task, if there is one.
AttainedInv ==
  /\ curPrio = Lowest \/ \E t \in Runnable : priority[t] = curPrio
  /\ Runnable # {} => \E t \in Runnable : priority[t] = curPrio
  /\ ~pendSV /\ execCount = 0 => exec = {}

-----------------------------------------------------------------------------
(* Types                                                                   *)

\* What the proofs use of the bounds of the table and of the priorities.
LEMMA ConstantFacts ==
  /\ Tasks \subseteq Slots /\ 0 \in Slots /\ Slots \ {0} \subseteq Tasks /\ 0 \notin Tasks
  /\ 0 \in 0..RRMax /\ RRMax \in 0..RRMax /\ 0 \in 0..N /\ 0 \in Pids
  /\ Highest \in Priorities /\ Lowest \in Priorities
  /\ Priorities \subseteq Int /\ \A p \in Priorities : Lowest <= p
  /\ Policies \subseteq BOOLEAN /\ Lowest - 1..Highest + 1 \subseteq Int
<1>1. /\ Tasks \subseteq Slots /\ 0 \in Slots /\ Slots \ {0} \subseteq Tasks /\ 0 \notin Tasks
      /\ 0 \in 0..RRMax /\ RRMax \in 0..RRMax /\ 0 \in 0..N /\ 0 \in Pids
  BY SchedulerAssumption, SMT DEF Tasks, Slots
<1>2. /\ Highest \in Priorities /\ Lowest \in Priorities
      /\ Priorities \subseteq Int /\ \A p \in Priorities : Lowest <= p
      /\ Lowest - 1..Highest + 1 \subseteq Int
  BY SchedulerAssumption, SMT DEF Priorities, Lowest
<1>3. Policies \subseteq BOOLEAN
  BY DEF Policies
<1> QED BY <1>1, <1>2, <1>3

\* A set of tasks is finite and has at most N members (m_task_exec_count).
LEMMA TaskSetSize ==
  ASSUME NEW S \in SUBSET Tasks
  PROVE  IsFiniteSet(S) /\ Cardinality(S) \in 0..N
<1>1. IsFiniteSet(Tasks) /\ Cardinality(Tasks) = N
  BY FS_Interval, SchedulerAssumption, SMT DEF Tasks
<1>2. IsFiniteSet(S) /\ Cardinality(S) <= Cardinality(Tasks)
  BY <1>1, FS_Subset
<1>3. Cardinality(S) \in Nat
  BY <1>2, FS_CardinalityType
<1> QED BY <1>1, <1>2, <1>3, SchedulerAssumption, SMT

\* Saving the round robin time and pending PendSV keeps the types
\* (task_root_switch_context).
LEMMA SwitchContextType ==
  ASSUME TypeOK, SwitchContext
  PROVE  rr' \in [Slots -> 0..RRMax] /\ pendSV' = TRUE
  BY SMT DEF TypeOK, SwitchContext

\* scheduler_root_update_on_stopped picks a priority of the system.
LEMMA UpdateOnStoppedType ==
  ASSUME TypeOK, UpdateOnStopped
  PROVE  rr' \in [Slots -> 0..RRMax] /\ pendSV' = TRUE /\ curPrio' \in Priorities
  BY SwitchContextType DEF UpdateOnStopped

\* scheduler_root_update_on_wake keeps the current priority one of the system.
LEMMA UpdateOnWakeType ==
  ASSUME TypeOK, NEW woken \in SUBSET Tasks, UpdateOnWake(woken),
         priority' \in [Tasks -> Priorities]
  PROVE  rr' \in [Slots -> 0..RRMax] /\ pendSV' \in BOOLEAN /\ curPrio' \in Priorities
<1>1. CASE {t \in woken : t \notin stopped' /\ priority'[t] >= curPrio} = {}
  BY <1>1 DEF UpdateOnWake, TypeOK
<1>2. CASE {t \in woken : t \notin stopped' /\ priority'[t] >= curPrio} # {}
  BY <1>2, SwitchContextType DEF UpdateOnWake, TypeOK
<1> QED BY <1>1, <1>2

\* switch_contexts chooses a slot of the table and keeps the times in range.
LEMMA SwitchContextsType ==
  ASSUME NEW e \in SUBSET Tasks, NEW r \in [Slots -> 0..RRMax], TypeOK,
         SwitchContexts(e, r)
  PROVE  /\ rr' \in [Slots -> 0..RRMax]
         /\ current' \in e \cup {0}
         /\ systick' \in BOOLEAN
<1> DEFINE next == {t \in e : t > current /\ (r[t] > 0 \/ t \in fifo)}
<1>1. CASE next # {}
  BY <1>1, SchedulerAssumption DEF SwitchContexts, TypeOK, Slots, Tasks
<1>2. CASE next = {}
  <2>1. rr' = [t \in Slots |->
                  IF t = 0
                  THEN IF r[0] = 0 THEN RRMax ELSE r[0]
                  ELSE IF t \in e /\ \A u \in e : r[u] = 0
                       THEN RRMax ELSE r[t]] /\ current' = 0
    BY <1>2 DEF SwitchContexts
  <2>2. RRMax \in 0..RRMax /\ 0 \in Slots
    BY SchedulerAssumption, SMT DEF Slots
  <2> QED BY <2>1, <2>2 DEF SwitchContexts
<1> QED BY <1>1, <1>2

\* Every step of the scheduler keeps the types.
LEMMA TypeStep ==
  ASSUME TypeOK, [Next]_vars
  PROVE  TypeOK'
<1> USE ConstantFacts
<1>1. CASE PendSV
  <2> DEFINE e == {t \in Runnable : priority[t] = curPrio}
  <2>1. e \in SUBSET Tasks
    BY DEF TypeOK, Runnable
  <2>2. Cardinality(e) \in 0..N
    BY <2>1, TaskSetSize
  <2>3. /\ rr' \in [Slots -> 0..RRMax]
        /\ current' \in Slots
        /\ systick' \in BOOLEAN
    <3>1. CASE current = 0 \/ current \notin e \/ yield
      <4>1. SwitchContexts(e, rr) /\ rr \in [Slots -> 0..RRMax]
        BY <1>1, <3>1 DEF PendSV, TypeOK
      <4>2. rr' \in [Slots -> 0..RRMax] /\ current' \in e \cup {0} /\ systick' \in BOOLEAN
        BY <2>1, <4>1, SwitchContextsType
      <4> QED BY <2>1, <4>2
    <3>2. CASE ~(current = 0 \/ current \notin e \/ yield)
      BY <1>1, <3>2 DEF PendSV, TypeOK
    <3> QED BY <3>1, <3>2
  <2> QED BY <1>1, <2>1, <2>2, <2>3 DEF PendSV, TypeOK, table, seq
<1>2. CASE SysTick
  <2>1. [rr EXCEPT ![current] = 0] \in [Slots -> 0..RRMax]
    BY DEF TypeOK
  <2>2. SwitchContexts(exec, [rr EXCEPT ![current] = 0]) /\ exec \in SUBSET Tasks
    BY <1>2 DEF SysTick, TypeOK
  <2>3. rr' \in [Slots -> 0..RRMax] /\ current' \in exec \cup {0} /\ systick' \in BOOLEAN
    BY <2>1, <2>2, SwitchContextsType
  <2> QED BY <1>2, <2>2, <2>3 DEF SysTick, TypeOK, flags, table, seq
<1>3. CASE SchedulerLoop
  BY <1>3, SwitchContextType DEF SchedulerLoop, TypeOK, flags, table, seq
<1>4. ASSUME NEW t \in Tasks, SchedYield(t) PROVE TypeOK'
  BY <1>4, SwitchContextType DEF SchedYield, TypeOK, flags, table, seq
<1>5. ASSUME NEW t \in Tasks, Sleep(t) PROVE TypeOK'
  BY <1>5, UpdateOnStoppedType DEF Sleep, TypeOK, table, cpu, seq
<1>6. ASSUME NEW t \in Tasks, ElevatePriority(t) PROVE TypeOK'
  BY <1>6, UpdateOnStoppedType DEF ElevatePriority, TypeOK, cpu, Steps
<1>7. ASSUME NEW t \in Tasks, ZombieProcess(t) PROVE TypeOK'
  BY <1>7, UpdateOnStoppedType DEF ZombieProcess, TypeOK, table, cpu, Steps
<1>8. ASSUME NEW t \in Tasks, StopPid(t) PROVE TypeOK'
  BY <1>8, UpdateOnStoppedType DEF StopPid, TypeOK, table, cpu, seq
<1>9. ASSUME NEW t \in Tasks, ContPid(t) PROVE TypeOK'
  <2> DEFINE same == IF t \in thread THEN {t} ELSE {u \in Tasks : pid[u] = pid[t]}
  <2>1. same \in SUBSET Tasks /\ UpdateOnWake(same) /\ priority' \in [Tasks -> Priorities]
    BY <1>9 DEF ContPid, TypeOK, table
  <2>2. rr' \in [Slots -> 0..RRMax] /\ pendSV' \in BOOLEAN /\ curPrio' \in Priorities
    BY <2>1, UpdateOnWakeType
  <2> QED BY <1>9, <2>2 DEF ContPid, TypeOK, table, cpu, seq
<1>10. ASSUME NEW t \in Tasks, WaitChild(t) PROVE TypeOK'
  BY <1>10, UpdateOnStoppedType DEF WaitChild, TypeOK, table, cpu, seq
<1>11. ASSUME NEW t \in Tasks, NEW id \in Tasks, NEW q \in Int, NEW f \in BOOLEAN,
              SetSchedParam(t, id, q, f)
       PROVE TypeOK'
  <2>0. Clamp(q) \in Priorities
    BY SchedulerAssumption, SMT DEF Clamp, Priorities, Lowest
  <2>1. rr' \in [Slots -> 0..RRMax] /\ pendSV' \in BOOLEAN /\ curPrio' \in Priorities
    BY <1>11, UpdateOnStoppedType DEF SetSchedParam, TypeOK
  <2> QED BY <1>11, <2>0, <2>1 DEF SetSchedParam, TypeOK, cpu, seq
<1>12. ASSUME NEW t \in Tasks, NEW s \in SUBSET Tasks, Cleanup(t, s) PROVE TypeOK'
  BY <1>12, UpdateOnStoppedType DEF Cleanup, TypeOK, table, cpu, Steps
<1>13. ASSUME NEW t \in Tasks, NEW p \in Pids, NEW s \in SUBSET Tasks, StopThreads(t, p, s)
       PROVE TypeOK'
  <2>1. UpdateOnWake(s) /\ priority' \in [Tasks -> Priorities]
    BY <1>13 DEF StopThreads, TypeOK, table
  <2>2. rr' \in [Slots -> 0..RRMax] /\ pendSV' \in BOOLEAN /\ curPrio' \in Priorities
    BY <2>1, UpdateOnWakeType
  <2>3. step' \in [Slots -> Steps] /\ child' \in [Slots -> Slots]
    BY <1>13 DEF StopThreads, TypeOK, Steps
  <2> QED BY <1>13, <2>2, <2>3 DEF StopThreads, TypeOK, table, cpu
<1>14. ASSUME NEW t \in Tasks, NEW z \in Tasks, ReapZombie(t, z) PROVE TypeOK'
  BY <1>14 DEF ReapZombie, TypeOK, table, cpu, Steps
<1>15. ASSUME NEW t \in Tasks, SignalActivate(t) PROVE TypeOK'
  <2>1. rr' \in [Slots -> 0..RRMax] /\ pendSV' \in BOOLEAN /\ curPrio' \in Priorities
    BY <1>15, UpdateOnWakeType DEF SignalActivate, TypeOK, table
  <2> QED BY <1>15, <2>1 DEF SignalActivate, TypeOK, table, cpu, seq
<1>16. ASSUME NEW s \in SUBSET Tasks, Wake(s) PROVE TypeOK'
  <2>1. rr' \in [Slots -> 0..RRMax] /\ pendSV' \in BOOLEAN /\ curPrio' \in Priorities
    BY <1>16, UpdateOnWakeType DEF Wake, TypeOK, table
  <2> QED BY <1>16, <2>1 DEF Wake, TypeOK, table, cpu
<1>17. ASSUME NEW c \in Slots, NEW isThread \in BOOLEAN, NEW p \in Pids, NewTask(c, isThread, p)
       PROVE TypeOK'
  <2>1. PICK i \in Tasks \ used :
           /\ used' = used \cup {i}
           /\ thread' = IF isThread THEN thread \cup {i} ELSE thread \ {i}
           /\ active' = active \ {i}
           /\ stopped' = stopped \ {i}
           /\ exec' = exec \ {i}
           /\ fifo' = fifo \ {i}
           /\ pid' = [pid EXCEPT ![i] = p]
           /\ rr' = [rr EXCEPT ![i] = RRMax]
           /\ child' = [child EXCEPT ![c] = i]
           /\ unready' = unready \cup {i}
    BY <1>17 DEF NewTask
  <2> QED BY <1>17, <2>1, SMT DEF NewTask, TypeOK, cpu
<1>18. ASSUME NEW c \in Slots, NEW p \in Priorities, NEW f \in BOOLEAN, ActivateThread(c, p, f)
       PROVE TypeOK'
  <2>1. child[c] \in Tasks
    BY <1>18 DEF ActivateThread, TypeOK
  <2>2. priority' \in [Tasks -> Priorities] /\ UpdateOnWake({child[c]})
    BY <1>18, <2>1 DEF ActivateThread, TypeOK
  <2>3. rr' \in [Slots -> 0..RRMax] /\ pendSV' \in BOOLEAN /\ curPrio' \in Priorities
    BY <2>1, <2>2, UpdateOnWakeType
  <2> QED BY <1>18, <2>1, <2>2, <2>3 DEF ActivateThread, TypeOK, cpu, Steps
<1>19. ASSUME NEW c \in Slots, ActivateProcess(c) PROVE TypeOK'
  <2>1. child[c] \in Tasks /\ Lowest \in Priorities
    BY <1>19 DEF ActivateProcess, TypeOK
  <2>2. priority' \in [Tasks -> Priorities] /\ UpdateOnWake({child[c]})
    BY <1>19, <2>1 DEF ActivateProcess, TypeOK
  <2>3. rr' \in [Slots -> 0..RRMax] /\ pendSV' \in BOOLEAN /\ curPrio' \in Priorities
    BY <2>1, <2>2, UpdateOnWakeType
  <2> QED BY <1>19, <2>1, <2>3 DEF ActivateProcess, TypeOK, cpu
<1>20. CASE UNCHANGED vars
  BY <1>20 DEF vars, flags, table, cpu, seq, TypeOK
<1> QED
  BY <1>1, <1>2, <1>3, <1>4, <1>5, <1>6, <1>7, <1>8, <1>9, <1>10, <1>11, <1>12, <1>13,
     <1>14, <1>15, <1>16, <1>17, <1>18, <1>19, <1>20, SMT DEF Next, TaskStep, CreateStep


-----------------------------------------------------------------------------
(* Slots that are filled and not activated                                 *)

\* With no context switch pending, a current task other than 0 is runnable at
\* the current priority.
LEMMA CurrentRuns ==
  ASSUME TypeOK, PriorityInv, ~pendSV, NEW t \in Tasks, current = t
  PROVE  t \in Runnable /\ t \in used /\ t \in active /\ priority[t] = curPrio
  BY ConstantFacts DEF PriorityInv, Executable, Runnable

\* Activating tasks that are not in creation, and nothing else, keeps what is
\* known of the slots in creation.
LEMMA CreationFrame ==
  ASSUME CreationInv, UNCHANGED <<used, thread, pid, step, child, unready>>,
         active' \subseteq active \cup (used \ unready)
  PROVE  CreationInv'
  BY SMT DEF CreationInv

\* The step of a task that is creating nothing may change, if it stays used.
LEMMA CreationStepFrame ==
  ASSUME TypeOK, CreationInv, UNCHANGED <<thread, pid, child, unready>>,
         NEW t \in Tasks, child[t] = 0, t \notin unready,
         \A u \in Slots \ {t} : step'[u] = step[u],
         used' \subseteq used, used \ {t} \subseteq used',
         t \notin used' => step'[t] = "run",
         active' \subseteq active \cup (used \ unready)
  PROVE  CreationInv'
  BY ConstantFacts, SMT DEF CreationInv, TypeOK

\* task_svcall_new_task adds a slot in creation.
LEMMA CreationNewTask ==
  ASSUME TypeOK, CreationInv, PriorityInv,
         NEW c \in Slots, NEW isThread \in BOOLEAN, NEW p \in Pids, NewTask(c, isThread, p)
  PROVE  CreationInv'
<1>1. PICK i \in Tasks \ used :
         /\ used' = used \cup {i}
         /\ thread' = IF isThread THEN thread \cup {i} ELSE thread \ {i}
         /\ active' = active \ {i}
         /\ pid' = [pid EXCEPT ![i] = p]
         /\ child' = [child EXCEPT ![c] = i]
         /\ unready' = unready \cup {i}
  BY DEF NewTask
<1>2. step' = step /\ child[c] = 0 /\ c # i /\ c \notin unready /\ c \in used \cup {0} /\ i # 0
      /\ i \notin unready
  <2>1. CASE c = 0
    BY <1>1, <2>1, ConstantFacts, SMT DEF NewTask, TypeOK, CreationInv
  <2>2. CASE c # 0
    BY <1>1, <2>2, CurrentRuns, ConstantFacts, SMT DEF NewTask, CreationInv
  <2> QED BY <2>1, <2>2
<1>3. unready' \subseteq used' \ active'
  BY <1>1 DEF CreationInv
<1>4. step[c] \in {"run", "boot"} /\ (c = 0 => step[0] = "boot") /\ (c # 0 => step[c] = "run")
  BY DEF NewTask, Svc
<1>5. \A d \in Slots : child'[d] # 0 => child'[d] \in unready' /\ d \in used' \cup {0}
                                     /\ step'[d] \in {"run", "boot"}
  BY <1>1, <1>2, <1>4, SMT DEF CreationInv, TypeOK
<1>6. \A d \in Slots : child'[d] # 0 /\ child'[d] \in thread' => pid'[child'[d]] = pid'[d]
  <2> SUFFICES ASSUME NEW d \in Slots, child'[d] # 0, child'[d] \in thread'
               PROVE  pid'[child'[d]] = pid'[d]
    OBVIOUS
  <2>1. CASE d = c
    <3>1. child'[d] = i /\ isThread
      BY <1>1, <2>1 DEF TypeOK
    <3>2. p = pid[c]
      BY <3>1 DEF NewTask
    <3> QED BY <1>1, <1>2, <2>1, <3>1, <3>2, ConstantFacts DEF TypeOK
  <2>2. CASE d # c
    <3>1. child'[d] = child[d] /\ child[d] \in unready /\ d \in used \cup {0}
      BY <1>1, <2>2, SMT DEF TypeOK, CreationInv
    <3>2. child[d] # i /\ d # i /\ child[d] \in thread
      BY <1>1, <1>2, <3>1, SMT
    <3> QED BY <1>1, <3>1, <3>2, SMT DEF TypeOK, CreationInv
  <2> QED BY <2>1, <2>2
<1>7. \A d, e \in Slots : d # e /\ child'[d] = child'[e] => child'[d] = 0
  BY <1>1, <1>2, SMT DEF CreationInv, TypeOK
<1>8. \A k \in unready' \ thread' : \A u \in Slots \ {k} : pid'[u] # pid'[k]
  <2> SUFFICES ASSUME NEW k \in unready' \ thread', NEW u \in Slots \ {k}
               PROVE  pid'[u] # pid'[k]
    OBVIOUS
  <2>1. CASE k = i
    <3>1. ~isThread
      BY <1>1, <2>1
    <3>2. pid[u] # p
      BY <3>1, SMT DEF NewTask
    <3> QED BY <1>1, <2>1, <3>2, ConstantFacts DEF TypeOK
  <2>2. CASE k # i
    <3>1. k \in unready \ thread /\ pid'[k] = pid[k] /\ k \in Tasks
      BY <1>1, <2>2, ConstantFacts DEF TypeOK
    <3>2. CASE u # i
      BY <1>1, <3>1, <3>2, SMT DEF CreationInv, TypeOK
    <3>3. CASE u = i
      <4>1. p # pid[k]
        <5>1. CASE isThread
          <6>1. p = pid[c]
            BY <5>1 DEF NewTask
          <6> QED BY <1>2, <3>1, <6>1, SMT DEF CreationInv
        <5>2. CASE ~isThread
          BY <3>1, <5>2, ConstantFacts, SMT DEF NewTask
        <5> QED BY <5>1, <5>2
      <4> QED BY <1>1, <3>1, <3>3, <4>1, ConstantFacts DEF TypeOK
    <3> QED BY <3>2, <3>3
  <2> QED BY <2>1, <2>2
<1>9. (step'[0] = "boot" => used' \subseteq {child'[0]}) 
      /\ (child'[0] # 0 => step'[0] = "boot" /\ child'[0] \in thread')
  <2>1. CASE c = 0
    <3>1. child'[0] = i /\ isThread
      BY <1>1, <2>1, ConstantFacts DEF NewTask, TypeOK
    <3>2. used = {}
      BY <1>2, <1>4, <2>1, ConstantFacts, SMT DEF CreationInv, TypeOK
    <3> QED BY <1>1, <1>2, <1>4, <2>1, <3>1, <3>2, SMT
  <2>2. CASE c # 0
    <3>1. step[0] # "boot"
      BY <1>2, <2>2, ConstantFacts, SMT DEF CreationInv
    <3> QED BY <1>1, <1>2, <2>2, <3>1, ConstantFacts DEF CreationInv, TypeOK
  <2> QED BY <2>1, <2>2
<1>10. \A k \in (Tasks \ used') \cup unready' : step'[k] = "run"
  BY <1>1, <1>2, SMT DEF CreationInv
<1> QED BY <1>3, <1>5, <1>6, <1>7, <1>8, <1>9, <1>10 DEF CreationInv

\* svcall_activate_thread and svcall_init_sched_task end the creation of a slot.
LEMMA CreationActivate ==
  ASSUME TypeOK, CreationInv, NEW c \in Slots, child[c] # 0,
         UNCHANGED <<used, thread, pid>>,
         active' = active \cup {child[c]},
         child' = [child EXCEPT ![c] = 0],
         unready' = unready \ {child[c]},
         step' = step \/ step' = [step EXCEPT ![c] = "run"],
         c = 0 => step' = [step EXCEPT ![c] = "run"]
  PROVE  CreationInv'
<1>1. \A d \in Slots : child'[d] # 0 => d # c /\ child'[d] = child[d] /\ child[d] # child[c]
                                      /\ step'[d] = step[d]
  BY SMT DEF CreationInv, TypeOK
<1>2. child'[0] = 0 \/ c # 0
  BY SMT DEF TypeOK
<1>3. (step'[0] = "boot" => used' \subseteq {child'[0]}) 
      /\ (child'[0] # 0 => step'[0] = "boot" /\ child'[0] \in thread')
  <2>1. CASE c = 0
    BY <2>1, ConstantFacts, SMT DEF TypeOK
  <2>2. CASE c # 0
    BY <2>2, ConstantFacts, SMT DEF TypeOK, CreationInv
  <2> QED BY <2>1, <2>2
<1>4. unready' \subseteq used' \ active'
  BY DEF CreationInv
<1>5. \A k \in (Tasks \ used') \cup unready' : step'[k] = "run"
  BY ConstantFacts, SMT DEF CreationInv, TypeOK
<1> QED BY <1>1, <1>3, <1>4, <1>5, SMT DEF CreationInv

\* svcall_stop_threads takes creators and their slots together.
LEMMA CreationStopThreads ==
  ASSUME TypeOK, CreationInv, PriorityInv, "unready" \notin Ops,
         NEW t \in Tasks, NEW p \in Pids, NEW s \in SUBSET Tasks, StopThreads(t, p, s)
  PROVE  CreationInv'
<1> DEFINE others == {u \in Tasks \ {t} : pid[u] = pid[t]}
<1>1. /\ used' = used \ others /\ unready' = unready \ others
      /\ active' = active \cup s /\ s \cap unready = {}
      /\ pid' = pid /\ thread' = thread
      /\ child' = [u \in Slots |-> IF u \in others \cup {t} THEN 0 ELSE child[u]]
      /\ \A u \in Slots \ (others \cup {t}) : step'[u] = step[u]
      /\ \A u \in others : step'[u] = "run"
  BY ConstantFacts DEF StopThreads, table, Signalable
<1>2. t \in used \ unready /\ step[0] # "boot" /\ child[0] = 0
  <2>1. t \in used \ unready
    BY CurrentRuns DEF StopThreads, CreationInv
  <2>2. step[0] # "boot"
    BY <2>1, ConstantFacts, SMT DEF CreationInv
  <2> QED BY <2>1, <2>2 DEF CreationInv
<1>3. ASSUME NEW c \in Slots, child'[c] # 0
      PROVE  c \notin others \cup {t, 0} /\ child'[c] = child[c] /\ child[c] \notin others
  <2>1. c \notin others \cup {t, 0} /\ child'[c] = child[c]
    BY <1>1, <1>2, <1>3
  <2>2. child[c] \in unready /\ child[c] # t
    BY <1>2, <1>3, <2>1, SMT DEF CreationInv
  <2>3. CASE child[c] \in thread
    BY <1>3, <2>1, <2>3, ConstantFacts DEF CreationInv
  <2>4. CASE child[c] \notin thread
    <3>1. t \in Slots \ {child[c]} /\ child[c] \in unready \ thread
      BY <2>2, <2>4, ConstantFacts
    <3>2. pid[t] # pid[child[c]]
      BY <3>1 DEF CreationInv
    <3> QED BY <2>1, <3>2
  <2> QED BY <2>1, <2>3, <2>4
<1>4. /\ step'[0] = step[0] /\ child'[0] = 0
  BY <1>1, <1>2, ConstantFacts
<1>5. unready' \subseteq used' \ active'
  BY <1>1 DEF CreationInv
<1>6. \A c \in Slots : child'[c] # 0 =>
        /\ child'[c] \in unready'
        /\ c \in used' \cup {0}
        /\ step'[c] \in {"run", "boot"}
        /\ child'[c] \in thread' => pid'[child'[c]] = pid'[c]
  BY <1>1, <1>3 DEF CreationInv
<1>7. \A c, d \in Slots : c # d /\ child'[c] = child'[d] => child'[c] = 0
  BY <1>1, <1>3, SMT DEF CreationInv
<1>8. \A k \in (Tasks \ used') \cup unready' : step'[k] = "run"
  BY <1>1, <1>2, ConstantFacts, SMT DEF CreationInv, TypeOK
<1> QED BY <1>1, <1>2, <1>4, <1>5, <1>6, <1>7, <1>8, SMT DEF CreationInv

\* Every step keeps what is known of the slots in creation.
LEMMA CreationStep ==
  ASSUME TypeOK, CreationInv, PriorityInv, "unready" \notin Ops, [Next]_vars
  PROVE  CreationInv'
<1>1. CASE PendSV \/ SysTick \/ SchedulerLoop
  BY <1>1, CreationFrame DEF PendSV, SysTick, SchedulerLoop, flags, table, seq
<1>2. ASSUME NEW t \in Tasks,
             SchedYield(t) \/ Sleep(t) \/ StopPid(t) \/ ContPid(t) \/ WaitChild(t)
      PROVE  CreationInv'
  BY <1>2, CreationFrame
     DEF SchedYield, Sleep, StopPid, ContPid, WaitChild, flags, table, seq
<1>3. ASSUME NEW t \in Tasks, NEW id \in Tasks, NEW q \in Int, NEW f \in Policies,
             SetSchedParam(t, id, q, f)
      PROVE  CreationInv'
  BY <1>3, CreationFrame DEF SetSchedParam, seq
<1>4. ASSUME NEW t \in Tasks, SignalActivate(t) PROVE CreationInv'
  BY <1>4, CreationFrame DEF SignalActivate, Signalable, table, seq
<1>5. ASSUME NEW s \in SUBSET Tasks, Wake(s) PROVE CreationInv'
  BY <1>5, CreationFrame DEF Wake, Wakeable, Signalable, table
<1>6. ASSUME NEW t \in Tasks, ElevatePriority(t) PROVE CreationInv'
  <2>1. t \notin unready
    BY <1>6, CurrentRuns DEF ElevatePriority, Svc, CreationInv
  <2>2. step' = [step EXCEPT ![t] = "elevated"] /\ child[t] = 0
    BY <1>6 DEF ElevatePriority, Svc
  <2>3. t \in used
    BY <1>6, CurrentRuns DEF ElevatePriority, Svc
  <2> QED BY <1>6, <2>1, <2>2, <2>3, CreationStepFrame DEF ElevatePriority, TypeOK
<1>7. ASSUME NEW t \in Tasks, ZombieProcess(t) PROVE CreationInv'
  <2>1. t \notin unready
    BY <1>7, CurrentRuns DEF ZombieProcess, CreationInv
  <2>2. child[t] = 0
    BY <1>7, ConstantFacts DEF ZombieProcess, CreationInv
  <2>3. \A u \in Slots \ {t} : step'[u] = step[u]
    BY <1>7 DEF ZombieProcess, TypeOK
  <2>4. t \notin used' => step'[t] = "run"
    BY <1>7, CurrentRuns, ConstantFacts DEF ZombieProcess, TypeOK
  <2> QED BY <1>7, <2>1, <2>2, <2>3, <2>4, CreationStepFrame DEF ZombieProcess, table
<1>8. ASSUME NEW t \in Tasks, NEW s \in SUBSET Tasks, Cleanup(t, s) PROVE CreationInv'
  <2>1. t \notin unready
    BY <1>8, CurrentRuns DEF Cleanup, CreationInv
  <2>2. child[t] = 0
    BY <1>8, ConstantFacts DEF Cleanup, CreationInv
  <2>3. step'[t] = "run" /\ \A u \in Slots \ {t} : step'[u] = step[u]
    BY <1>8, ConstantFacts DEF Cleanup, TypeOK
  <2> QED BY <1>8, <2>1, <2>2, <2>3, CreationStepFrame DEF Cleanup, Wakeable, Signalable, table
<1>9. ASSUME NEW t \in Tasks, NEW z \in Tasks, ReapZombie(t, z) PROVE CreationInv'
  <2>1. child[z] = 0
    BY <1>9, ConstantFacts DEF ReapZombie, CreationInv
  <2>2. step'[z] = "run" /\ \A u \in Slots \ {z} : step'[u] = step[u]
    BY <1>9, ConstantFacts DEF ReapZombie, TypeOK
  <2>3. z \notin unready
    BY <1>9 DEF ReapZombie, CreationInv
  <2> QED BY <1>9, <2>1, <2>2, <2>3, CreationStepFrame DEF ReapZombie, table
<1>10. ASSUME NEW t \in Tasks, NEW p \in Pids, NEW s \in SUBSET Tasks, StopThreads(t, p, s)
       PROVE CreationInv'
  BY <1>10, CreationStopThreads
<1>11. ASSUME NEW c \in Slots, NEW isThread \in BOOLEAN, NEW p \in Pids, NewTask(c, isThread, p)
       PROVE CreationInv'
  BY <1>11, CreationNewTask
<1>12. ASSUME NEW c \in Slots, NEW p \in Priorities, NEW f \in Policies, ActivateThread(c, p, f)
       PROVE CreationInv'
  BY <1>12, CreationActivate DEF ActivateThread
<1>13. ASSUME NEW c \in Slots, ActivateProcess(c) PROVE CreationInv'
  <2>1. c # 0 /\ child[c] # 0
    BY <1>13 DEF ActivateProcess, CreationInv
  <2> QED BY <1>13, <2>1, CreationActivate DEF ActivateProcess
<1>14. CASE UNCHANGED vars
  BY <1>14, CreationFrame DEF vars, flags, table, seq
<1> QED
  BY <1>1, <1>2, <1>3, <1>4, <1>5, <1>6, <1>7, <1>8, <1>9, <1>10, <1>11, <1>12, <1>13, <1>14,
     ConstantFacts DEF Next, TaskStep, CreateStep

-----------------------------------------------------------------------------
(* The current priority                                                    *)

\* After scheduler_root_update_on_stopped the current priority is the highest
\* priority of a runnable task.
LEMMA AfterUpdateOnStopped ==
  ASSUME TypeOK, TypeOK', UpdateOnStopped
  PROVE  PriorityInv' /\ AttainedInv'
<1>1. PICK p \in Priorities :
         /\ \A t \in Runnable' : priority'[t] <= p
         /\ p = Lowest \/ \E t \in Runnable' : priority'[t] = p
         /\ curPrio' = p
  BY DEF UpdateOnStopped
<1>2. pendSV' = TRUE
  BY DEF UpdateOnStopped, SwitchContext
<1>3. PriorityInv'
  BY <1>1, <1>2 DEF PriorityInv
<1>4. Runnable' # {} => \E t \in Runnable' : priority'[t] = curPrio'
  <2> SUFFICES ASSUME NEW t \in Runnable'
               PROVE  \E u \in Runnable' : priority'[u] = curPrio'
    OBVIOUS
  <2>1. priority'[t] \in Priorities /\ priority'[t] <= p
    BY <1>1 DEF TypeOK, Runnable
  <2>2. CASE p = Lowest
    <3>1. priority'[t] = p
      BY <2>1, <2>2, SchedulerAssumption, SMT DEF Priorities, Lowest
    <3> QED BY <1>1, <3>1
  <2>3. CASE p # Lowest
    BY <1>1, <2>3
  <2> QED BY <2>2, <2>3
<1>5. AttainedInv'
  BY <1>1, <1>2, <1>4 DEF AttainedInv
<1> QED BY <1>3, <1>5

\* scheduler_root_update_on_wake keeps the bound, and the exec flags where it
\* decides that no switch is needed: the tasks made runnable are below the
\* current priority or stopped.
LEMMA AfterUpdateOnWake ==
  ASSUME TypeOK, TypeOK', PriorityInv, NEW woken \in SUBSET Tasks, UpdateOnWake(woken),
         Runnable' \subseteq Runnable \cup woken,
         Runnable \cap used' \subseteq Runnable',
         \A t \in Runnable : priority'[t] = priority[t],
         current' = current,
         ~pendSV => exec' = exec \cap used',
         ~pendSV /\ current # 0 => current \in used'
  PROVE  PriorityInv'
<1> DEFINE up == {t \in woken : t \notin stopped' /\ priority'[t] >= curPrio}
<1>0. /\ \A t \in Tasks : priority'[t] \in Int
      /\ curPrio \in Int /\ Runnable' \subseteq Tasks
      /\ Runnable' \cap stopped' = {} /\ Runnable' \subseteq used'
  BY ConstantFacts DEF TypeOK, Runnable
<1>1. CASE up = {}
  <2>1. curPrio' = curPrio /\ pendSV' = pendSV
    BY <1>1 DEF UpdateOnWake
  <2>2. \A t \in Runnable' : t \in Runnable \/ priority'[t] < curPrio
    BY <1>0, <1>1, SMT
  <2>3. \A t \in Runnable' : priority'[t] <= curPrio'
    BY <1>0, <2>1, <2>2, SMT DEF PriorityInv
  <2>4. ASSUME ~pendSV PROVE exec' = Executable'
    <3>1. exec = Executable
      BY <2>4 DEF PriorityInv
    <3>2. ASSUME NEW t \in exec' PROVE t \in Executable'
      BY <2>1, <2>4, <3>1, <3>2 DEF Executable
    <3>3. ASSUME NEW t \in Executable' PROVE t \in exec'
      <4>1. t \in Runnable' /\ priority'[t] = curPrio
        BY <2>1, <3>3 DEF Executable
      <4>2. t \in Runnable
        BY <1>0, <2>2, <4>1, SMT
      <4> QED BY <1>0, <2>4, <3>1, <4>1, <4>2 DEF Executable
    <3> QED BY <3>2, <3>3
  <2>5. ~pendSV' /\ current' # 0 => current' \in exec'
    BY <2>1 DEF PriorityInv
  <2> QED BY <2>1, <2>3, <2>4, <2>5 DEF PriorityInv
<1>2. CASE up # {}
  <2>1. PICK t \in up : (\A u \in up : priority'[u] <= priority'[t]) /\ curPrio' = priority'[t]
    BY <1>2 DEF UpdateOnWake
  <2>2. pendSV' = TRUE
    BY <1>2 DEF UpdateOnWake, SwitchContext
  <2>3. ASSUME NEW u \in Runnable' PROVE priority'[u] <= curPrio'
    <3>1. CASE u \in up
      BY <2>1, <3>1
    <3>2. CASE u \notin up
      <4>1. u \in Runnable \/ priority'[u] < curPrio
        BY <1>0, <2>3, <3>2, SMT
      <4>2. priority'[u] <= curPrio
        BY <1>0, <4>1, SMT DEF PriorityInv
      <4> QED BY <1>0, <2>1, <4>2, SMT
    <3> QED BY <3>1, <3>2
  <2> QED BY <2>2, <2>3 DEF PriorityInv
<1> QED BY <1>1, <1>2

\* The same update keeps the current priority attained if every task woken and
\* not stopped is runnable and some task stays runnable at that priority.
LEMMA AttainedAfterUpdateOnWake ==
  ASSUME TypeOK, TypeOK', AttainedInv, NEW woken \in SUBSET Tasks, UpdateOnWake(woken),
         woken \ stopped' \subseteq Runnable',
         Runnable' \subseteq Runnable \cup woken,
         \A t \in Runnable : priority'[t] = priority[t],
         Runnable \subseteq Runnable' \/ \E t \in Runnable' : priority'[t] = curPrio,
         exec' \subseteq exec, execCount' = execCount
  PROVE  AttainedInv'
<1> DEFINE up == {t \in woken : t \notin stopped' /\ priority'[t] >= curPrio}
<1>1. CASE up = {}
  <2>1. curPrio' = curPrio /\ pendSV' = pendSV
    BY <1>1 DEF UpdateOnWake
  <2>2. curPrio = Lowest \/ \E t \in Runnable' : priority'[t] = curPrio
    BY DEF AttainedInv
  <2>3. ASSUME NEW u \in Runnable' PROVE \E t \in Runnable' : priority'[t] = curPrio
    <3>1. CASE u \in Runnable
      BY <3>1 DEF AttainedInv
    <3>2. CASE u \notin Runnable
      <4>1. u \in woken /\ u \notin stopped' /\ priority'[u] \in Priorities
        BY <2>3, <3>2 DEF Runnable, TypeOK
      <4>2. priority'[u] \in Int /\ curPrio \in Int /\ Lowest \in Int /\ Lowest <= priority'[u]
        BY <4>1, ConstantFacts DEF TypeOK
      <4>3. ~(priority'[u] >= curPrio)
        BY <1>1, <4>1
      <4>4. curPrio # Lowest
        BY <4>2, <4>3
      <4> QED BY <2>2, <4>4
    <3> QED BY <3>1, <3>2
  <2> QED BY <2>1, <2>2, <2>3 DEF AttainedInv
<1>2. CASE up # {}
  <2>1. PICK t \in up : curPrio' = priority'[t]
    BY <1>2 DEF UpdateOnWake
  <2>2. pendSV' = TRUE
    BY <1>2 DEF UpdateOnWake, SwitchContext
  <2> QED BY <2>1, <2>2 DEF AttainedInv
<1> QED BY <1>1, <1>2

\* What stays the same in a step that wakes tasks and deletes none.
WakeFrame(woken) ==
  /\ used' = used /\ exec' = exec /\ current' = current /\ execCount' = execCount
  /\ active' \subseteq active \cup woken /\ active \subseteq active'
  /\ stopped' \subseteq stopped /\ stopped \subseteq stopped' \cup woken
  /\ \A t \in Runnable : priority'[t] = priority[t]

\* Such a step keeps the bound on the runnable tasks and the exec flags.
LEMMA PriorityWake ==
  ASSUME TypeOK, TypeOK', PriorityInv, NEW woken \in SUBSET Tasks, UpdateOnWake(woken),
         WakeFrame(woken)
  PROVE  PriorityInv'
<1>1. Runnable' \subseteq Runnable \cup woken /\ Runnable \cap used' \subseteq Runnable'
  BY DEF WakeFrame, Runnable
<1>2. ~pendSV => exec' = exec \cap used' /\ (current # 0 => current \in used')
  BY DEF PriorityInv, WakeFrame, Executable, Runnable
<1> QED BY <1>1, <1>2, AfterUpdateOnWake DEF WakeFrame

\* It keeps the current priority attained if the tasks woken become runnable.
LEMMA AttainedWake ==
  ASSUME TypeOK, TypeOK', AttainedInv, NEW woken \in SUBSET Tasks, UpdateOnWake(woken),
         WakeFrame(woken), woken \subseteq used, woken \subseteq active'
  PROVE  AttainedInv'
<1>1. /\ Runnable' \subseteq Runnable \cup woken /\ Runnable \subseteq Runnable'
      /\ woken \ stopped' \subseteq Runnable'
  BY DEF WakeFrame, Runnable
<1> QED BY <1>1, AttainedAfterUpdateOnWake DEF WakeFrame

\* svcall_stop_threads frees slots of other tasks only: the caller stays the
\* current task and runnable at the current priority.
LEMMA PriorityStopThreads ==
  ASSUME TypeOK, TypeOK', PriorityInv,
         NEW t \in Tasks, NEW p \in Pids, NEW s \in SUBSET Tasks, StopThreads(t, p, s)
  PROVE  PriorityInv' /\ (AttainedInv => AttainedInv')
<1> DEFINE others == {u \in Tasks \ {t} : pid[u] = pid[t]}
<1>1. /\ used' = used \ others /\ exec' = exec \ others /\ active' = active \cup s
      /\ stopped' = stopped \ s /\ priority' = priority /\ current' = current
      /\ execCount' = execCount /\ UpdateOnWake(s) /\ ~pendSV /\ current = t
      /\ s \subseteq used \ others
  BY DEF StopThreads, table, cpu, Signalable
<1>2. t \in Runnable /\ priority[t] = curPrio /\ exec = Executable
  BY <1>1, CurrentRuns, ConstantFacts DEF PriorityInv
<1>3. /\ Runnable' \subseteq Runnable \cup s
      /\ Runnable \cap used' \subseteq Runnable'
      /\ s \ stopped' \subseteq Runnable'
      /\ t \in Runnable'
  BY <1>1, <1>2 DEF Runnable
<1>4. exec' = exec \cap used' /\ current \in used'
  BY <1>1, <1>2 DEF Executable, Runnable
<1>5. PriorityInv'
  BY <1>1, <1>3, <1>4, AfterUpdateOnWake
<1>6. ASSUME AttainedInv PROVE AttainedInv'
  <2>1. \E u \in Runnable' : priority'[u] = curPrio
    BY <1>1, <1>2, <1>3
  <2> QED BY <1>1, <1>3, <1>6, <2>1, AttainedAfterUpdateOnWake
<1> QED BY <1>5, <1>6

\* cortexm_pendsv_handler sets the exec flags and leaves a current task that
\* has one.
LEMMA PriorityPendSV ==
  ASSUME TypeOK, PriorityInv, PendSV
  PROVE  PriorityInv' /\ (AttainedInv => AttainedInv')
<1>1. Executable' = Executable /\ exec' = Executable /\ Runnable' = Runnable
      /\ priority' = priority /\ curPrio' = curPrio
  BY DEF PendSV, Executable, Runnable, table
<1>2. Executable \in SUBSET Tasks
  BY DEF Executable, Runnable, TypeOK
<1>3. current' # 0 => current' \in Executable
  <2>1. CASE current = 0 \/ current \notin Executable \/ yield
    <3>1. SwitchContexts(Executable, rr) /\ rr \in [Slots -> 0..RRMax]
      BY <2>1 DEF PendSV, Executable, TypeOK
    <3> QED BY <1>2, <3>1, SwitchContextsType
  <2>2. CASE ~(current = 0 \/ current \notin Executable \/ yield)
    BY <2>2 DEF PendSV, Executable
  <2> QED BY <2>1, <2>2
<1>4. execCount' = 0 => exec' = {}
  <2>1. IsFiniteSet(Executable) /\ execCount' = Cardinality(Executable)
    BY <1>2, TaskSetSize DEF PendSV, Executable
  <2> QED BY <1>1, <2>1, FS_EmptySet
<1>5. PriorityInv'
  BY <1>1, <1>3 DEF PriorityInv
<1>6. AttainedInv => AttainedInv'
  BY <1>1, <1>4 DEF AttainedInv
<1> QED BY <1>5, <1>6

\* Every step keeps the bound on the runnable tasks and, without
\* svcall_contpid, keeps the current priority attained.
LEMMA PriorityStep ==
  ASSUME TypeOK, TypeOK', CreationInv, PriorityInv, "unready" \notin Ops, [Next]_vars
  PROVE  PriorityInv' /\ (AttainedInv /\ "cont" \notin Ops => AttainedInv')
<1>1. CASE PendSV
  BY <1>1, PriorityPendSV
<1>2. CASE SysTick
  <2>1. SwitchContexts(exec, [rr EXCEPT ![current] = 0]) /\ exec \in SUBSET Tasks
    BY <1>2 DEF SysTick, TypeOK
  <2>2. [rr EXCEPT ![current] = 0] \in [Slots -> 0..RRMax]
    BY ConstantFacts DEF TypeOK
  <2>3. current' \in exec \cup {0}
    BY <2>1, <2>2, SwitchContextsType
  <2>4. /\ Runnable' = Runnable /\ exec' = exec /\ Executable' = Executable
        /\ UNCHANGED <<priority, curPrio, pendSV, execCount>>
    BY <1>2 DEF SysTick, Runnable, Executable, flags, table
  <2> QED BY <2>3, <2>4 DEF PriorityInv, AttainedInv
<1>3. CASE SchedulerLoop \/ \E t \in Tasks : SchedYield(t)
  <2>1. Runnable' = Runnable /\ UNCHANGED <<priority, curPrio>> /\ pendSV' = TRUE
    BY <1>3 DEF SchedulerLoop, SchedYield, SwitchContext, Runnable, flags, table
  <2> QED BY <2>1 DEF PriorityInv, AttainedInv
<1>4. ASSUME NEW t \in Tasks,
             Sleep(t) \/ ElevatePriority(t) \/ ZombieProcess(t) \/ StopPid(t) \/ WaitChild(t)
               \/ \E s \in SUBSET Tasks : Cleanup(t, s)
      PROVE  PriorityInv' /\ AttainedInv'
  BY <1>4, AfterUpdateOnStopped
     DEF Sleep, ElevatePriority, ZombieProcess, StopPid, WaitChild, Cleanup
<1>5. ASSUME NEW t \in Tasks, NEW id \in Tasks, NEW q \in Int, NEW f \in Policies,
             SetSchedParam(t, id, q, f)
      PROVE  PriorityInv' /\ (AttainedInv => AttainedInv')
  <2>1. CASE id \in Runnable
    BY <1>5, <2>1, AfterUpdateOnStopped DEF SetSchedParam
  <2>2. CASE id \notin Runnable
    <3>1. Runnable' = Runnable /\ UNCHANGED <<curPrio, pendSV, exec, current, execCount>>
      BY <1>5, <2>2 DEF SetSchedParam, Runnable, cpu
    <3>2. \A u \in Runnable : priority'[u] = priority[u]
      BY <1>5, <2>2 DEF SetSchedParam, TypeOK, Runnable
    <3>3. Executable' = Executable
      BY <3>1, <3>2 DEF Executable
    <3> QED BY <3>1, <3>2, <3>3 DEF PriorityInv, AttainedInv
  <2> QED BY <2>1, <2>2
<1>6. ASSUME NEW t \in Tasks, NEW p \in Pids, NEW s \in SUBSET Tasks, StopThreads(t, p, s)
      PROVE  PriorityInv' /\ (AttainedInv => AttainedInv')
  BY <1>6, PriorityStopThreads
<1>7. ASSUME NEW t \in Tasks, NEW z \in Tasks, ReapZombie(t, z)
      PROVE  PriorityInv' /\ (AttainedInv => AttainedInv')
  <2>1. /\ t \in Runnable /\ priority[t] = curPrio /\ exec = Executable /\ ~pendSV
        /\ current = t /\ t # z
    BY <1>7, CurrentRuns, ConstantFacts DEF ReapZombie, Svc, PriorityInv
  <2>2. /\ Runnable' = Runnable \ {z} /\ exec' = exec \ {z}
        /\ UNCHANGED <<priority, curPrio, pendSV, current, execCount>>
    BY <1>7 DEF ReapZombie, Runnable, table, cpu
  <2>3. Executable' = Executable \ {z}
    BY <2>2 DEF Executable
  <2> QED BY <2>1, <2>2, <2>3 DEF PriorityInv, AttainedInv, Executable
<1>8. ASSUME NEW t \in Tasks, SignalActivate(t)
      PROVE  PriorityInv' /\ (AttainedInv => AttainedInv')
  <2>1. WakeFrame({t}) /\ UpdateOnWake({t}) /\ t \in used /\ t \in active'
    BY <1>8 DEF SignalActivate, Signalable, WakeFrame, table, cpu
  <2> QED BY <2>1, PriorityWake, AttainedWake
<1>9. ASSUME NEW s \in SUBSET Tasks, Wake(s)
      PROVE  PriorityInv' /\ (AttainedInv => AttainedInv')
  <2>1. WakeFrame(s) /\ UpdateOnWake(s) /\ s \subseteq used /\ s \subseteq active'
    BY <1>9 DEF Wake, Wakeable, Signalable, WakeFrame, table, cpu
  <2> QED BY <2>1, PriorityWake, AttainedWake
<1>10. ASSUME NEW t \in Tasks, ContPid(t)
       PROVE  PriorityInv' /\ "cont" \in Ops
  <2> DEFINE same == IF t \in thread THEN {t} ELSE {u \in Tasks : pid[u] = pid[t]}
  <2>1. WakeFrame(same) /\ UpdateOnWake(same) /\ same \in SUBSET Tasks /\ "cont" \in Ops
    BY <1>10 DEF ContPid, WakeFrame, table, cpu
  <2> QED BY <2>1, PriorityWake
<1>11. ASSUME NEW c \in Slots, NEW isThread \in BOOLEAN, NEW p \in Pids, NewTask(c, isThread, p)
       PROVE  PriorityInv' /\ (AttainedInv => AttainedInv')
  <2>1. PICK i \in Tasks \ used :
           /\ used' = used \cup {i}
           /\ active' = active \ {i}
           /\ stopped' = stopped \ {i}
           /\ exec' = exec \ {i}
    BY <1>11 DEF NewTask
  <2>2. Runnable' = Runnable /\ UNCHANGED <<priority, curPrio, pendSV, current, execCount>>
    BY <1>11, <2>1, SMT DEF NewTask, Runnable, cpu
  <2>3. ~pendSV => exec' = exec /\ Executable' = Executable
    BY <2>1, <2>2 DEF PriorityInv, Executable, Runnable
  <2> QED BY <2>1, <2>2, <2>3 DEF PriorityInv, AttainedInv
<1>12. ASSUME NEW c \in Slots, NEW p \in Priorities, NEW f \in Policies, ActivateThread(c, p, f)
       PROVE  PriorityInv' /\ (AttainedInv => AttainedInv')
  <2>1. child[c] \in Tasks /\ child[c] \in used /\ child[c] \notin active
    BY <1>12 DEF ActivateThread, CreationInv, TypeOK
  <2>2. /\ UpdateOnWake({child[c]}) /\ active' = active \cup {child[c]}
        /\ UNCHANGED <<used, stopped, exec, current, execCount>>
        /\ priority' = [priority EXCEPT ![child[c]] = p]
    BY <1>12 DEF ActivateThread, cpu
  <2>3. \A t \in Runnable : t \in Tasks /\ t # child[c]
    BY <2>1 DEF Runnable, TypeOK
  <2>4. \A t \in Runnable : priority'[t] = priority[t]
    BY <2>2, <2>3 DEF TypeOK
  <2>5. WakeFrame({child[c]})
    BY <2>2, <2>4 DEF WakeFrame
  <2> QED BY <2>1, <2>2, <2>5, PriorityWake, AttainedWake
<1>13. ASSUME NEW c \in Slots, ActivateProcess(c)
       PROVE  PriorityInv' /\ (AttainedInv => AttainedInv')
  <2>1. child[c] \in Tasks /\ child[c] \in used /\ child[c] \notin active
    BY <1>13 DEF ActivateProcess, CreationInv, TypeOK
  <2>2. WakeFrame({child[c]}) /\ UpdateOnWake({child[c]}) /\ child[c] \in active'
    BY <1>13, <2>1 DEF ActivateProcess, WakeFrame, cpu
  <2> QED BY <2>1, <2>2, PriorityWake, AttainedWake
<1>14. CASE UNCHANGED vars
  <2>1. /\ Runnable' = Runnable /\ Executable' = Executable
        /\ UNCHANGED <<priority, curPrio, pendSV, current, exec, execCount>>
    BY <1>14 DEF vars, flags, table, cpu, Runnable, Executable
  <2> QED BY <2>1 DEF PriorityInv, AttainedInv
<1> QED
  BY <1>1, <1>2, <1>3, <1>4, <1>5, <1>6, <1>7, <1>8, <1>9, <1>10, <1>11, <1>12, <1>13, <1>14,
     ConstantFacts DEF Next, TaskStep, CreateStep

\* The initial state has nothing runnable, nothing in creation, PendSV pending.
LEMMA InitInv ==
  ASSUME Init
  PROVE  TypeOK /\ CreationInv /\ PriorityInv /\ AttainedInv
<1>1. TypeOK
  <2> USE ConstantFacts DEF Init
  <2>1. rr \in [Slots -> 0..RRMax]
    OBVIOUS
  <2>2. pid \in [Slots -> Pids] /\ child \in [Slots -> Slots] /\ step \in [Slots -> Steps]
    BY DEF Steps
  <2>3. priority \in [Tasks -> Priorities] /\ base \in [Tasks -> Priorities]
    OBVIOUS
  <2> QED BY <2>1, <2>2, <2>3 DEF TypeOK
<1>2. Runnable = {}
  BY DEF Init, Runnable
<1>3. CreationInv
  BY ConstantFacts DEF Init, CreationInv
<1>4. PriorityInv /\ AttainedInv
  BY <1>2 DEF Init, PriorityInv, AttainedInv
<1> QED BY <1>1, <1>3, <1>4

\* The task table and the scheduler's state keep their types in every run.
THEOREM TypeCorrect == Spec => []TypeOK
<1>1. Init => TypeOK
  BY InitInv
<1> QED BY <1>1, TypeStep, PTL DEF Spec

\* As long as no event reaches a slot between its two creating service calls,
\* the current task is a runnable task of the highest priority whenever no
\* context switch is pending, whatever the tasks and interrupts do.
THEOREM HighestPriorityAlwaysRuns ==
  ASSUME "unready" \notin Ops
  PROVE  Spec => []HighestPriorityRuns
<1> DEFINE IInv == TypeOK /\ CreationInv /\ PriorityInv
<1>1. Init => IInv
  BY InitInv
<1>2. IInv /\ [Next]_vars => IInv'
  BY TypeStep, CreationStep, PriorityStep
<1>3. IInv => HighestPriorityRuns
  <2> SUFFICES ASSUME IInv, ~pendSV, current # 0
               PROVE  /\ current \in Runnable
                      /\ \A t \in Runnable : priority[t] <= priority[current]
    BY DEF HighestPriorityRuns
  <2>1. current \in Runnable /\ priority[current] = curPrio
    BY DEF PriorityInv, Executable
  <2> QED BY <2>1 DEF PriorityInv
<1> QED BY <1>1, <1>2, <1>3, PTL DEF Spec

\* If moreover no program handles SIGCONT, task 0 idles only when no task is
\* runnable: no wake-up is lost by comparing it with a current priority that
\* nobody has.
THEOREM IdleIsJustified ==
  ASSUME "unready" \notin Ops, "cont" \notin Ops
  PROVE  Spec => []IdleOnlyWhenNothingRunnable
<1> DEFINE IInv == TypeOK /\ CreationInv /\ PriorityInv /\ AttainedInv
<1>1. Init => IInv
  BY InitInv
<1>2. IInv /\ [Next]_vars => IInv'
  BY TypeStep, CreationStep, PriorityStep
<1>3. IInv => IdleOnlyWhenNothingRunnable
  <2> SUFFICES ASSUME IInv, ~pendSV, execCount = 0, Runnable # {}
               PROVE  FALSE
    BY DEF IdleOnlyWhenNothingRunnable
  <2>1. exec = {} /\ exec = Executable
    BY DEF PriorityInv, AttainedInv
  <2>2. PICK t \in Runnable : priority[t] = curPrio
    BY DEF AttainedInv
  <2> QED BY <2>1, <2>2 DEF Executable
<1> QED BY <1>1, <1>2, <1>3, PTL DEF Spec

=============================================================================

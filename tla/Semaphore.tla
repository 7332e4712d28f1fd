----------------------------- MODULE Semaphore -----------------------------
(***************************************************************************)
(* sys/semaphore/sem.c.  Taking is one service call.  Posting is user code: *)
(* load and store of the value, a scan of the table for a thread to wake,  *)
(* and then the service call that wakes it, each a step of its own.        *)
(***************************************************************************)
EXTENDS Kernel

CONSTANTS
  Sems,
  MaxValue    \* bound: no post beyond this value

ASSUME SemAssumption == NULL \notin Sems /\ MaxValue \in Nat \ {0}

VARIABLES
  value,     \* sem->value
  register,  \* what a thread has loaded of the value it increments
  tokens     \* history: the initial value, plus the posts, minus the waits served

sem == <<value, register, tokens>>

\* Decrement: the caller has the semaphore.
Take(s) ==
  /\ value' = [value EXCEPT ![s] = @ - 1]
  /\ tokens' = [tokens EXCEPT ![s] = @ - 1]
  /\ UNCHANGED register

\* svcall_sem_wait: the block object is set in either case, the wake time in
\* neither.
SvcallSemWait(t, s) ==
  /\ blockObject' = [blockObject EXCEPT ![t] = s]
  /\ UNCHANGED <<fixed, priority, unblockType, wake>>
  /\ IF value[s] <= 0
     THEN active' = active \ {t} /\ UpdateOnStopped /\ Enter(t, "semwait", s) /\ UNCHANGED sem
     ELSE Take(s) /\ Return(t) /\ UNCHANGED <<active, sched>>

\* sem_wait: call again until it is served.
SemWait(t, s) == Calls(t, "semwait") /\ SvcallSemWait(t, s)
SemWaitAgain(t) == InCall(t, {"semwait"}) /\ SvcallSemWait(t, call[t].on)

\* svcall_sem_trywait; with no token left the call returns EAGAIN.
SemTrywait(t, s) ==
  /\ Calls(t, "semtrywait")
  /\ value[s] > 0
  /\ Take(s)
  /\ UNCHANGED <<kernel, call>>

\* sem_timedwait, svcall_sem_timedwait
SemTimedwait(t, s) ==
  /\ Calls(t, "semtimedwait")
  /\ IF value[s] <= 0
     THEN /\ UNCHANGED <<fixed, priority, sem>>
          /\ Block(t, s, TRUE) \/ (BlockExpired(t, s) /\ UNCHANGED unblockType)
          /\ Enter(t, "semtimedwait", s)
     ELSE Take(s) /\ UNCHANGED <<kernel, call>>

\* Mutant: a thread woken by a post takes it for granted.
SemTimedwaitReturn_NoTrywait(t) ==
  LET s == call[t].on IN
  /\ InCall(t, {"semtimedwait"})
  /\ IF unblockType[t] = "SEMAPHORE" THEN Take(s) ELSE UNCHANGED sem
  /\ Return(t)
  /\ UNCHANGED kernel

\* The rest of sem_timedwait: a time out, or sem_trywait.
SemTimedwaitReturn(t) ==
  LET s == call[t].on IN
  /\ InCall(t, {"semtimedwait"})
  /\ IF unblockType[t] # "SLEEP" /\ value[s] > 0 THEN Take(s) ELSE UNCHANGED sem
  /\ Return(t)
  /\ UNCHANGED kernel

-----------------------------------------------------------------------------
\* sem_post: sem->value++ is a load ...
SemPostLoad(t, s) ==
  /\ Calls(t, "sempost")
  /\ value[s] < MaxValue
  /\ register' = [register EXCEPT ![t] = value[s]]
  /\ Enter(t, "semload", s)
  /\ UNCHANGED <<kernel, value, tokens>>

\* ... and a store ...
SemPostStore(t) ==
  LET s == call[t].on IN
  /\ InCall(t, {"semload"})
  /\ value' = [value EXCEPT ![s] = register[t] + 1]
  /\ tokens' = [tokens EXCEPT ![s] = @ + 1]
  /\ register' = [register EXCEPT ![t] = 0]
  /\ Enter(t, "semstore", s)
  /\ UNCHANGED kernel

\* Mutant: nobody is woken.
SemPostSelect_None(t) ==
  /\ InCall(t, {"semstore"})
  /\ Return(t)
  /\ UNCHANGED <<kernel, sem>>

\* ... the thread to wake is looked up ...
SemPostSelect(t) ==
  LET ws == HighestPriorityBlocked(call[t].on, t) IN
  /\ InCall(t, {"semstore"})
  /\ IF ws = {} THEN Return(t) ELSE \E w \in ws : Enter(t, "sempost", w)
  /\ UNCHANGED <<kernel, sem>>

\* ... and woken: svcall_sem_post.
SvcallSemPost(t) ==
  LET w == call[t].on IN
  /\ InCall(t, {"sempost"})
  /\ AssertActive({w}, "SEMAPHORE")
  /\ UNCHANGED <<fixed, priority, sem>>
  /\ UpdateOnWake(priority[w])
  /\ Return(t)

SemInit ==
  /\ value \in [Sems -> 0..1]
  /\ tokens = value
  /\ register = [t \in Threads |-> 0]

SemStep(t) ==
  \/ \E s \in Sems \cap program[t] :
       SemWait(t, s) \/ SemTrywait(t, s) \/ SemTimedwait(t, s) \/ SemPostLoad(t, s)
  \/ SemWaitAgain(t) \/ SemTimedwaitReturn(t)
  \/ SemPostStore(t) \/ SemPostSelect(t) \/ SvcallSemPost(t)

-----------------------------------------------------------------------------
\* No post and no wait is lost or counted twice: the value is the initial value,
\* plus the posts, minus the waits that were served.
SemCount ==
  \A s \in Sems : value[s] = tokens[s] /\ value[s] >= 0

\* Threads asleep in sem_wait on s; posts of s and woken threads under way to it.
Sleepers(s) == {t \in Threads \ active : call[t] = [op |-> "semwait", on |-> s]}
Posting == {t \in Threads : call[t].op \in {"semstore", "sempost"}}
Retrying(s) ==
  {t \in active : /\ call[t].on = s
                  /\ \/ call[t].op = "semwait"
                     \/ call[t].op = "semtimedwait" /\ unblockType[t] # "SLEEP"}

\* While a thread sleeps in sem_wait, every token of the semaphore has somebody
\* on the way to it: a post that is about to wake a thread, or a thread that was
\* woken and tries again ("the semaphore will be available and one of the threads
\* will lock the semaphore", sem_post).
PostWakesWaiter ==
  \A s \in Sems : Sleepers(s) # {} =>
    value[s] <= Cardinality(Posting) + Cardinality(Retrying(s))
=============================================================================

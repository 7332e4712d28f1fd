---------------------------- MODULE MessageQueue ----------------------------
(***************************************************************************)
(* sys/mqueue/mqueue.c: a message queue that threads send to and receive    *)
(* from.  The queue is a table in shared memory, guarded by a mutex with a  *)
(* priority ceiling; senders wait for recv_cond and receivers for           *)
(* send_cond, and each signals the other condition after it has unlocked    *)
(* the mutex.  All of it is user code over PthreadCond.                     *)
(***************************************************************************)
EXTENDS PthreadCond

CONSTANTS
  QMutex, SendCond, RecvCond,   \* the mutex and the conditions of the queue
  MaxMsgs,                      \* attr->mq_maxmsg
  MsgPrios,                     \* the priorities messages are sent with; above 0
                                \* by the programs with "urgent"
  MaxAge,                       \* bound: the messages sent in a behaviour
  Statuses                      \* the flags a queue may be opened with

ASSUME MessageQueueAssumption ==
  /\ QMutex \in Mutexes \ Recursive
  /\ SendCond \in Conds /\ RecvCond \in Conds /\ SendCond # RecvCond
  /\ MaxMsgs \in Nat \ {0} /\ MaxAge \in Nat /\ MsgPrios \subseteq Nat
  /\ \A s \in Statuses : s \subseteq {"NONBLOCK", "RDWR", "LOOP"}

VARIABLES
  msgTable,  \* mq->msg_table: a message or Empty (a size of 0) in each entry
  age,       \* mq->age
  status,    \* the flags of mq->status
  mq,        \* where a thread is in mq_timedsend or mq_timedreceive
  taken,     \* the messages received so far
  discarded  \* the messages overwritten in loop mode or flushed

queue == <<msgTable, age, status, mq, taken, discarded>>
mqVars == <<kernel, call, mutex, holds, queue>>

Entries == 1..MaxMsgs
Messages == [prio : MsgPrios, age : 0..MaxAge - 1]
Empty == [prio |-> -1, age |-> -1]
Out == [op |-> "none", at |-> "none", prio |-> 0, entry |-> 0]

Full == {i \in Entries : msgTable[i] # Empty}

\* Mutant: the age of the messages is not looked at.
OldestHighest_AnyAge(i) ==
  /\ i \in Full
  /\ \A j \in Full : msgTable[j].prio <= msgTable[i].prio
  /\ \A j \in Full : msgTable[j].prio = msgTable[i].prio => i >= j

\* mq_find_oldest_highest
OldestHighest(i) ==
  /\ i \in Full
  /\ \A j \in Full : \/ msgTable[j].prio < msgTable[i].prio
                     \/ msgTable[j].prio = msgTable[i].prio /\ msgTable[i].age <= msgTable[j].age

\* mq_find_free_msg
FirstFree(i) == i \in Entries \ Full /\ \A j \in Entries \ Full : i <= j

At(t, op, at) == t \in exec /\ call[t] = Idle /\ mq[t].op = op /\ mq[t].at = at
Goto(t, at) == mq' = [mq EXCEPT ![t].at = at]
GotoEntry(t, i) ==
  mq' = [mq EXCEPT ![t] = [op |-> @.op, at |-> "copy", prio |-> @.prio, entry |-> i]]

-----------------------------------------------------------------------------
\* Mutant: the mutex is not locked.
MqCall_NoLock(t, op, p) ==
  /\ Calls(t, op) /\ mq[t] = Out
  /\ op = "send" => "RDWR" \in status
  /\ mq' = [mq EXCEPT ![t] = [op |-> op, at |-> "loop", prio |-> p, entry |-> 0]]
  /\ UNCHANGED <<kernel, call, mutex, holds, msgTable, age, status, taken, discarded>>

\* mq_timedsend, mq_timedreceive and their other forms up to the lock of the
\* mutex; a queue that is not opened for writing is not sent to.  The try forms
\* have a time limit that has passed.
MqCall(t, op, p) ==
  /\ Calls(t, op) /\ mq[t] = Out
  /\ op = "send" => "RDWR" \in status
  /\ MutexTrylock(t, QMutex, "lock")
  /\ mq' = [mq EXCEPT ![t] = [op |-> op, at |-> "loop", prio |-> p, entry |-> 0]]
  /\ UNCHANGED <<msgTable, age, status, taken, discarded>>

\* Nothing to do for the caller: fail at once, or wait for the condition c.  A
\* caller that does not own the mutex fails too.
MqWait(t, c) ==
  /\ IF "NONBLOCK" \in status \/ owner[QMutex] # t
     THEN Goto(t, "fail") /\ UNCHANGED <<kernel, call, mutex, holds>>
     ELSE Goto(t, "woken") /\ SvcallCondWait(t, c, QMutex, "timed" \in program[t])
  /\ UNCHANGED <<msgTable, age, status, taken, discarded>>

\* The loop of mq_timedreceive, up to the choice of the entry.  For a program
\* with "small" the messages are longer than its buffer (EMSGSIZE).
MqFindMessage(t) ==
  /\ At(t, "receive", "loop")
  /\ IF Full = {} THEN MqWait(t, SendCond)
     ELSE /\ IF "small" \in program[t] THEN Goto(t, "fail")
             ELSE \E i \in Entries : OldestHighest(i) /\ GotoEntry(t, i)
          /\ UNCHANGED <<kernel, call, mutex, holds, msgTable, age, status, taken, discarded>>

\* The message is copied and its entry freed; an entry without a message makes
\* another round.
MqTake(t) ==
  LET i == mq[t].entry IN
  /\ At(t, "receive", "copy")
  /\ IF msgTable[i] = Empty
     THEN Goto(t, "loop") /\ UNCHANGED <<msgTable, taken>>
     ELSE /\ Goto(t, "unlock")
          /\ taken' = taken \cup {msgTable[i]}
          /\ msgTable' = [msgTable EXCEPT ![i] = Empty]
  /\ UNCHANGED <<kernel, call, mutex, holds, age, status, discarded>>

\* The loop of mq_timedsend, up to the choice of the entry: a free one, or in
\* loop mode the one a receiver would get.
MqFindFree(t) ==
  /\ At(t, "send", "loop")
  /\ IF Full = Entries /\ "LOOP" \notin status THEN MqWait(t, RecvCond)
     ELSE /\ \E i \in Entries : /\ IF Full = Entries THEN OldestHighest(i) ELSE FirstFree(i)
                                /\ GotoEntry(t, i)
          /\ UNCHANGED <<kernel, call, mutex, holds, msgTable, age, status, taken, discarded>>

\* The message is written into the entry.
MqPut(t) ==
  LET i == mq[t].entry IN
  /\ At(t, "send", "copy")
  /\ age < MaxAge
  /\ Goto(t, "unlock")
  /\ discarded' = IF "LOOP" \in status THEN discarded \cup ({msgTable[i]} \ {Empty}) ELSE discarded
  /\ msgTable' = [msgTable EXCEPT ![i] = [prio |-> mq[t].prio, age |-> age]]
  /\ age' = age + 1
  /\ UNCHANGED <<kernel, call, mutex, holds, status, taken>>

\* pthread_cond_timedwait has returned: an error if the last reason the thread
\* was activated for is the time limit or a signal.
MqWoken(t) ==
  /\ \E op \in {"send", "receive"} : At(t, op, "woken")
  /\ Goto(t, IF unblockType[t] \in {"SLEEP", "SIGNAL"} THEN "fail" ELSE "loop")
  /\ UNCHANGED <<kernel, call, mutex, holds, msgTable, age, status, taken, discarded>>

\* pthread_mutex_unlock, which does nothing for a thread that is not the owner.
MqUnlock(t) ==
  /\ \E op \in {"send", "receive"}, at \in {"unlock", "fail"} : At(t, op, at)
  /\ IF mq[t].at = "unlock" THEN Goto(t, "signal") ELSE mq' = [mq EXCEPT ![t] = Out]
  /\ IF owner[QMutex] = t
     THEN RootUnlock(t, QMutex, NULL) /\ holds' = [holds EXCEPT ![t] = @ \ {QMutex}]
     ELSE UNCHANGED <<kernel, mutex, holds>>
  /\ UNCHANGED <<call, msgTable, age, status, taken, discarded>>

\* Mutant: nobody is signalled.
MqSignal_None(t) ==
  /\ \E op \in {"send", "receive"} : At(t, op, "signal")
  /\ mq' = [mq EXCEPT ![t] = Out]
  /\ UNCHANGED <<kernel, call, mutex, holds, msgTable, age, status, taken, discarded>>

\* pthread_cond_signal at the end of a call that succeeded.
MqSignal(t) ==
  LET c == IF mq[t].op = "send" THEN SendCond ELSE RecvCond IN
  /\ \E op \in {"send", "receive"} : At(t, op, "signal")
  /\ IF BlockedOn(c, t) = {} THEN UNCHANGED <<kernel, call, mutex, holds>> ELSE ChooseWaiter(t, c)
  /\ mq' = [mq EXCEPT ![t] = Out]
  /\ UNCHANGED <<msgTable, age, status, taken, discarded>>

\* mq_flush, without the mutex.
MqFlush(t) ==
  /\ Calls(t, "flush") /\ mq[t] = Out
  /\ msgTable' = [i \in Entries |-> Empty]
  /\ discarded' = discarded \cup {msgTable[i] : i \in Full}
  /\ UNCHANGED <<kernel, call, mutex, holds, age, status, mq, taken>>

-----------------------------------------------------------------------------
\* mq_open of a new queue.
MqInit ==
  /\ KernelInit /\ MutexInit
  /\ msgTable = [i \in Entries |-> Empty]
  /\ age = 0
  /\ status \in Statuses
  /\ mq = [t \in Threads |-> Out]
  /\ taken = {} /\ discarded = {}

\* The steps of the calls below the queue that a thread is in.
MqLower(t) ==
  (LockLoop(t) \/ LockReturn(t) \/ CondRelock(t) \/ SvcallCondSignal(t)) /\ UNCHANGED queue

MqStep(t) ==
  \/ \E p \in MsgPrios : (p = 0 \/ "urgent" \in program[t]) /\ MqCall(t, "send", p)
  \/ MqCall(t, "receive", 0)
  \/ MqFindMessage(t) \/ MqTake(t) \/ MqFindFree(t) \/ MqPut(t)
  \/ MqWoken(t) \/ MqUnlock(t) \/ MqSignal(t) \/ MqFlush(t)
  \/ MqLower(t)

MqNext ==
  \/ KernelStep /\ UNCHANGED <<mutex, holds, queue>>
  \/ \E t \in Threads : MqStep(t)

MqSpec == MqInit /\ [][MqNext]_mqVars

-----------------------------------------------------------------------------
\* Every message that was sent is in one entry of the table, was received once
\* or was overwritten or flushed: none is lost, duplicated or both, although the
\* entry is chosen in one step of mq_timedsend or mq_timedreceive and used in
\* another.
MqConservation ==
  LET stored == {msgTable[i] : i \in Full} IN
  /\ Cardinality(stored) = Cardinality(Full)
  /\ stored \cap taken = {} /\ stored \cap discarded = {} /\ taken \cap discarded = {}
  /\ {m.age : m \in stored \cup taken \cup discarded} = 0..age - 1

\* Messages of one priority are received in the order they were sent
\* (mq_find_oldest_highest), whichever threads send and receive them.
MqOrder ==
  [][\A m \in taken' \ taken, k \in taken : m.prio = k.prio => k.age < m.age]_mqVars

\* The threads that will look at the table, or wake one that will, before the
\* queue comes to rest.
Working(op, other) ==
  {t \in Threads : \/ mq[t].op = op /\ blockObject[t] \notin Conds
                   \/ mq[t].op = other /\ mq[t].at \in {"unlock", "signal"}
                   \/ call[t].op = "condsignal"}

\* A receiver sleeps beside a message, or a sender beside a free entry, only
\* while another thread is on its way to use it or to wake a sleeper: the wake-up
\* that mq_timedsend and mq_timedreceive send after unlocking is not lost.  Of
\* queues that nobody flushes and whose messages fit the receivers' buffers.
MqNotForgotten ==
  (\A t \in Threads : program[t] \cap {"flush", "small"} = {}) =>
    \A t \in Threads \ active :
      /\ blockObject[t] = SendCond /\ Full # {} => Working("receive", "send") # {}
      /\ blockObject[t] = RecvCond /\ Full # Entries => Working("send", "receive") # {}
=============================================================================

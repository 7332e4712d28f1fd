------------------------- MODULE MessageQueueSteps --------------------------
(***************************************************************************)
(* The invariants of MessageQueue, what a step does to the threads on the   *)
(* two sides of the queue (MqFrame), and that such a step keeps what the    *)
(* service of the sleepers rests on (ServiceInv).                           *)
(***************************************************************************)
EXTENDS MessageQueue, FiniteSetTheorems, TLAPS

\* Most leaves are first-order: Zenon is the default, and the leaves it does
\* not find say SMT.
USE Zenon

-----------------------------------------------------------------------------
(* What is asked of the programs                                           *)

\* The ceiling of the mutex of the queue.
Top == Ceiling[QMutex]

\* No thread is sent signals.  One that is blocks on a free mutex after a signal,
\* and a wake-up meant for its condition then makes pthread_mutex_lock return 0.
Unsignalled == \A t \in Threads : "signal" \notin program[t]

\* No priority is above the ceiling of the mutex (25 in mq_open), and one thread
\* at most has that of the ceiling.  Two senders that do can choose one receiver
\* to wake; the second wakes it when it waits for the mutex already.
CeilingOnTop ==
  /\ \A t \in Threads : base[t] <= Top
  /\ \A t, u \in Threads : base[t] = Top /\ base[u] = Top => t = u

-----------------------------------------------------------------------------
(* The inductive invariant                                                 *)

MqCalls ==
  {Idle} \cup [op : {"lock", "relock"}, on : {QMutex}] \cup [op : {"condsignal"}, on : Threads]

Places == {"none", "loop", "copy", "woken", "fail", "unlock", "signal"}

MqPlaceOK ==
  /\ mq \in [Threads -> [op : {"none", "send", "receive"}, at : Places,
                         prio : MsgPrios \cup {0}, entry : Entries \cup {0}]]
  /\ \A t \in Threads : mq[t].op = "send" => mq[t].prio \in MsgPrios
  /\ \A t \in Threads : mq[t].at = "copy" => mq[t].entry \in Entries

MqTypeOK ==
  /\ KernelTypeOK(Mutexes \cup Conds)
  /\ owner \in [Mutexes -> Threads \cup {NoThread}]
  /\ call \in [Threads -> MqCalls]
  /\ MqPlaceOK

\* A thread sleeps until the mutex of the queue is handed over to it.
Waits(t) == t \notin active /\ blockObject[t] = QMutex

\* The owner of the mutex has the priority of the ceiling, the others their own.
PrioInv ==
  \A t \in Threads : priority[t] = IF owner[QMutex] = t THEN Top ELSE base[t]

\* Somebody is awake who has the priority of the ceiling without the mutex, or waits
\* for the mutex.  Then nobody of a lower priority executes.
TopNeeded == \E t \in Threads : (t \in active /\ base[t] = Top) \/ Waits(t)
TopInv ==
  /\ curPrio <= Top
  /\ TopNeeded => curPrio = Top /\ \A t \in exec : priority[t] = Top

\* The owner is awake.
OwnerInv == owner[QMutex] # NoThread => owner[QMutex] \in active

\* A thread waits only for a mutex that is taken, in pthread_mutex_lock and without
\* a time limit.  If it is awake in that call the mutex is its own.
WaitInv ==
  \A t \in Threads :
    /\ Waits(t) => owner[QMutex] # NoThread /\ t \notin wake /\ call[t].op = "lock"
    /\ call[t].op = "lock" => IF t \in active THEN owner[QMutex] = t ELSE blockObject[t] = QMutex

\* Where a thread is in its call on the queue and in the calls below: between
\* locking and unlocking it is the owner, while it signals it is not.
StageInv ==
  \A t \in Threads :
    /\ call[t].op \in {"lock", "relock"} => mq[t].at \in {"loop", "woken"}
    /\ call[t].op = "condsignal" => mq[t].at = "none" /\ t \in active
    /\ call[t] = Idle /\ mq[t].at \in {"loop", "copy", "woken"} => owner[QMutex] = t
    /\ call[t].op = "condsignal" \/ mq[t].at = "signal" => owner[QMutex] # t

\* The thread with the priority of the ceiling does not signal a thread that has been
\* woken meanwhile and waits for the mutex.
TargetInv ==
  \A t \in Threads : call[t].op = "condsignal" /\ base[t] = Top => ~Waits(call[t].on)

ExclusionInv ==
  /\ MqTypeOK /\ Unsignalled /\ CeilingOnTop
  /\ PrioInv /\ TopInv /\ OwnerInv /\ WaitInv /\ StageInv /\ TargetInv

-----------------------------------------------------------------------------
\* The contents of the table: messages with ages below the next one.
TableOK ==
  /\ msgTable \in [Entries -> Messages \cup {Empty}]
  /\ age \in 0..MaxAge /\ status \in Statuses
  /\ taken \subseteq Messages /\ discarded \subseteq Messages

Stored == {msgTable[i] : i \in Full}

\* Every message that was sent is in one place.
PlaceInv ==
  /\ \A i, j \in Full : msgTable[i] = msgTable[j] => i = j
  /\ Stored \cap taken = {} /\ Stored \cap discarded = {} /\ taken \cap discarded = {}
  /\ {m.age : m \in Stored \cup taken \cup discarded} = 0..age - 1

\* The entry a thread has chosen is still as it found it, or was flushed.
EntryInv ==
  \A t \in Threads : mq[t].at = "copy" =>
    LET i == mq[t].entry IN
    /\ mq[t].op = "send" /\ "LOOP" \notin status => msgTable[i] = Empty
    /\ mq[t].op = "receive" => msgTable[i] = Empty \/ OldestHighest(i)

\* What is still in the table is younger than what was received.
OrderInv ==
  \A i \in Full, k \in taken : msgTable[i].prio = k.prio => k.age < msgTable[i].age

DataInv == TableOK /\ PlaceInv /\ EntryInv /\ OrderInv

-----------------------------------------------------------------------------
(* Who is served: the two sides of the queue                               *)

Sides == {"send", "receive"}
Other(op) == IF op = "send" THEN "receive" ELSE "send"

\* What the callers on one side wait for, and the condition they wait for it with.
Items(op) == IF op = "send" THEN Entries \ Full ELSE Full
CondOf(op) == IF op = "send" THEN RecvCond ELSE SendCond

Alone(op) == \A t, u \in Threads : op \in program[t] /\ op \in program[u] => t = u
Untimed(op) == \A t \in Threads : op \in program[t] => "timed" \notin program[t]

\* No thread is on both sides; of the threads on one side there is one, or they are
\* woken by one and have no time limits.  Two wakers can choose the same thread, and a
\* thread whose time is up returns without looking at the table.
OneWaker ==
  /\ \A t \in Threads : ~(Sides \subseteq program[t])
  /\ \A op \in Sides : Alone(op) \/ (Alone(Other(op)) /\ Untimed(op))

\* What MqNotForgotten supposes.
NothingDropped == \A t \in Threads : program[t] \cap {"flush", "small"} = {}

Asleep(t, op) == t \notin active /\ blockObject[t] = CondOf(op)

\* What a thread does belongs to its side, and an error has its reason.
RoleOf(t) ==
  /\ mq[t].op \in {"none"} \cup program[t]
  /\ mq[t].op = "none" <=> mq[t].at = "none"
  /\ \A op \in Sides : Asleep(t, op) => mq[t].op = op /\ mq[t].at = "woken"
  /\ call[t].op = "condsignal" =>
       \E op \in Sides : Other(op) \in program[t] /\ op \in program[call[t].on]
  /\ unblockType[t] # "SIGNAL" /\ (blockObject[t] \in Conds => blockObject[t] \in {SendCond, RecvCond})
  /\ "timed" \notin program[t] =>
       /\ t \notin wake /\ unblockType[t] # "SLEEP"
       /\ t \in active => blockObject[t] \notin Conds
       /\ mq[t].at = "fail" => "NONBLOCK" \in status
  /\ "NONBLOCK" \in status => blockObject[t] \notin Conds
  /\ "LOOP" \in status => blockObject[t] # RecvCond
RoleInv == \A t \in Threads : RoleOf(t)

\* A thread that will wake one on the side op, and one that will look at the table.
Notifies(t, op) ==
  Other(op) \in program[t] /\ (mq[t].at \in {"unlock", "signal"} \/ call[t].op = "condsignal")
Comes(t, op) == mq[t].op = op /\ mq[t].at \in {"loop", "copy", "woken"} /\ ~Asleep(t, op)
Workers(op) == {t \in Threads : Notifies(t, op) \/ Comes(t, op)}

\* A thread that is alone on its side sleeps beside an item only if a wake-up for it
\* is on its way.
AloneInv ==
  \A op \in Sides, t \in Threads :
    Alone(op) /\ Asleep(t, op) /\ Items(op) # {} => \E u \in Threads : Notifies(u, op)

\* Where there is one waker, the thread it has chosen stays asleep until it is woken, and
\* while somebody sleeps there is a thread on its way for every item.
ChosenInv ==
  \A op \in Sides, t \in Threads :
    Alone(Other(op)) /\ Untimed(op) /\ Other(op) \in program[t] /\ call[t].op = "condsignal" =>
      Asleep(call[t].on, op)
TokenInv ==
  \A op \in Sides, t \in Threads :
    Alone(Other(op)) /\ Untimed(op) /\ Asleep(t, op) =>
      Cardinality(Items(op)) <= Cardinality(Workers(op))

ServiceInv == RoleInv /\ AloneInv /\ ChosenInv /\ TokenInv

\* What a step does to a thread that does not take it: nothing, or it is woken because
\* the mutex is handed over to it, its time is up, or it is one of those chosen, ws.
Still(u) ==
  /\ u \in active' <=> u \in active
  /\ blockObject'[u] = blockObject[u] /\ unblockType'[u] = unblockType[u]
  /\ u \in wake' => u \in wake
WokenBy(u, type) ==
  u \in active' /\ blockObject'[u] = NULL /\ unblockType'[u] = type /\ u \notin wake'
Bystander(u, ws) ==
  /\ mq'[u] = mq[u] /\ call'[u] = call[u]
  /\ \/ Still(u)
     \/ Waits(u) /\ WokenBy(u, "MUTEX")
     \/ u \in wake \ active /\ WokenBy(u, "SLEEP")
     \/ u \in ws /\ WokenBy(u, "COND")

\* The thread that takes the step goes on, or waits for the mutex.
GoesOn(t) ==
  /\ t \in active' /\ blockObject'[t] = blockObject[t] /\ (t \in wake' => t \in wake)
  /\ unblockType'[t] \in {unblockType[t], "MUTEX"}
Rests(t) ==
  /\ t \notin active' /\ blockObject'[t] = QMutex /\ t \notin wake'
  /\ unblockType'[t] = unblockType[t]

Begins(t) ==
  /\ mq[t].at = "none" /\ call[t] = Idle
  /\ mq'[t].op \in Sides \cap program[t] /\ mq'[t].at = "loop" /\ call'[t].op \in {"none", "lock"}
  /\ GoesOn(t) \/ Rests(t)
Locks(t) ==
  /\ mq[t].at \in {"loop", "woken"} /\ mq'[t] = mq[t]
  /\ call[t].op \in {"lock", "relock"} /\ call'[t].op \in {"none", "lock"}
  /\ GoesOn(t) \/ Rests(t)
Moves(t) ==
  /\ mq[t].at \in {"loop", "copy", "woken"} /\ mq'[t].op = mq[t].op
  /\ call[t] = Idle /\ call'[t] = Idle /\ GoesOn(t)
  /\ \/ mq'[t].at \in {"loop", "copy"}
     \/ mq'[t].at = "fail" /\ ("NONBLOCK" \in status \/ unblockType[t] \in {"SLEEP", "SIGNAL"})
Sleeps(t) ==
  /\ mq[t].at = "loop" /\ mq'[t].op = mq[t].op /\ mq'[t].at = "woken"
  /\ call[t] = Idle /\ call'[t].op = "relock"
  /\ mq[t].op \in Sides /\ Items(mq[t].op) = {}
  /\ "NONBLOCK" \notin status /\ (mq[t].op = "send" => "LOOP" \notin status)
  /\ blockObject'[t] = CondOf(mq[t].op) /\ unblockType'[t] = unblockType[t]
  /\ "timed" \notin program[t] => t \notin active' /\ t \notin wake'
Uses(t) ==
  /\ mq[t].at = "copy" /\ mq'[t].op = mq[t].op /\ mq'[t].at = "unlock"
  /\ call[t] = Idle /\ call'[t] = Idle /\ GoesOn(t)
  /\ mq[t].op \in Sides
  /\ \E op \in Sides, i \in Entries :
       /\ mq[t].op = op
       /\ Items(op)' = Items(op) \ {i} /\ Items(Other(op))' = Items(Other(op)) \cup {i}
       /\ i \in Items(op) \/ (op = "send" /\ "LOOP" \in status)
Unlocks(t) ==
  /\ IF mq[t].at = "unlock" THEN mq'[t].op = mq[t].op /\ mq'[t].at = "signal"
     ELSE mq[t].at = "fail" /\ mq'[t].op = "none" /\ mq'[t].at = "none"
  /\ call[t] = Idle /\ call'[t] = Idle
  /\ t \in active' /\ blockObject'[t] \in {NULL, blockObject[t]} /\ (t \in wake' => t \in wake)
  /\ unblockType'[t] = unblockType[t]
Signals(t) ==
  /\ mq[t].at = "signal" /\ mq[t].op \in Sides /\ mq'[t].op = "none" /\ mq'[t].at = "none"
  /\ call[t] = Idle /\ GoesOn(t)
  /\ \/ call'[t] = Idle /\ \A u \in Threads \ {t} : ~Asleep(u, Other(mq[t].op))
     \/ /\ call'[t].op = "condsignal"
        /\ call'[t].on \in Threads \ {t} /\ Asleep(call'[t].on, Other(mq[t].op))
Wakes(t) ==
  /\ call[t].op = "condsignal" /\ call'[t] = Idle /\ mq'[t] = mq[t] /\ mq[t].at = "none"
  /\ call[t].on \in Threads /\ WokenBy(call[t].on, "COND") /\ (call[t].on # t => GoesOn(t))

SameTable == \A op \in Sides : Items(op)' = Items(op)
Idles == SameTable /\ \A u \in Threads : Bystander(u, {})
Works(t) ==
  /\ t \in active
  /\ \/ /\ SameTable
        /\ \/ Begins(t) \/ Locks(t) \/ Moves(t) \/ Sleeps(t) \/ Unlocks(t) \/ Signals(t)
           \/ Wakes(t)
     \/ Uses(t)
  /\ \A u \in Threads \ {t} :
       Bystander(u, IF call[t].op = "condsignal" THEN {call[t].on} ELSE {})
MqFrame ==
  /\ UNCHANGED <<program, status>>
  /\ Idles \/ \E t \in Threads : Works(t)

-----------------------------------------------------------------------------
(* Helpers                                                                 *)

\* The constants of the kernel and of the mutexes.
LEMMA ConstantFacts ==
  /\ NoThread \notin Threads /\ Priorities \subseteq Int
  /\ 0 \in Priorities /\ 0 \in 0..MaxLocks /\ 1 \in 0..MaxLocks
  /\ Ceiling \in [Mutexes -> Priorities] /\ NULL \notin Mutexes
BY KernelAssumption, MutexAssumption, SMT DEF NoThread, Threads, Priorities

\* The programs and base priorities are those of a scenario.
LEMMA ScenarioFacts ==
  ASSUME [program |-> program, base |-> base] \in Scenarios
  PROVE  /\ base \in [Threads -> Priorities]
         /\ \A t \in Threads : "pause" \in program[t] => "signal" \in program[t]
<1> DEFINE s == [program |-> program, base |-> base]
<1>1. s.program = program /\ s.base = base
  OBVIOUS
<1> QED BY <1>1, KernelAssumption

\* Counting: T has as many elements as S after each of the changes that a step makes.
LEMMA CountFacts ==
  ASSUME NEW S, NEW T, NEW S2, NEW T2, IsFiniteSet(S), IsFiniteSet(T), IsFiniteSet(T2),
         Cardinality(S) <= Cardinality(T),
         \/ S2 \subseteq S /\ T \subseteq T2
         \/ \E x \in S, y \in T : S2 = S \ {x} /\ T \ {y} \subseteq T2
         \/ \E x, y : S2 = S \cup {x} /\ y \notin T /\ T \cup {y} \subseteq T2
         \/ \E y \in T : \E z : S2 = S /\ z \notin T /\ (T \ {y}) \cup {z} \subseteq T2
  PROVE  Cardinality(S2) <= Cardinality(T2)
<1>0. /\ Cardinality(S) \in Int /\ Cardinality(T) \in Int /\ Cardinality(T2) \in Int
      /\ \A X : X \subseteq T2 => IsFiniteSet(X) /\ Cardinality(X) <= Cardinality(T2)
  BY SMT, FS_Subset, FS_CardinalityType
<1>1. CASE S2 \subseteq S /\ T \subseteq T2
  <2>1. Cardinality(S2) \in Int /\ Cardinality(S2) <= Cardinality(S)
    BY SMT, <1>1, FS_Subset, FS_CardinalityType
  <2>2. Cardinality(T) <= Cardinality(T2)
    BY <1>0, <1>1
  <2> QED BY SMT, <1>0, <2>1, <2>2
<1>2. CASE \E x \in S, y \in T : S2 = S \ {x} /\ T \ {y} \subseteq T2
  <2>1. PICK x \in S, y \in T : S2 = S \ {x} /\ T \ {y} \subseteq T2
    BY <1>2
  <2>2. Cardinality(S2) = Cardinality(S) - 1 /\ Cardinality(T \ {y}) = Cardinality(T) - 1
    BY <2>1, FS_RemoveElement
  <2>3. Cardinality(T \ {y}) <= Cardinality(T2)
    BY <1>0, <2>1
  <2> QED BY SMT, <1>0, <2>2, <2>3
<1>3. CASE \E x, y : S2 = S \cup {x} /\ y \notin T /\ T \cup {y} \subseteq T2
  <2>1. PICK x, y : S2 = S \cup {x} /\ y \notin T /\ T \cup {y} \subseteq T2
    BY <1>3
  <2>2. /\ Cardinality(S2) = Cardinality(S) \/ Cardinality(S2) = Cardinality(S) + 1
        /\ Cardinality(T \cup {y}) = Cardinality(T) + 1
    BY <2>1, FS_AddElement
  <2>3. Cardinality(T \cup {y}) <= Cardinality(T2)
    BY <1>0, <2>1
  <2> QED BY SMT, <1>0, <2>2, <2>3
<1>4. CASE \E y \in T : \E z : S2 = S /\ z \notin T /\ (T \ {y}) \cup {z} \subseteq T2
  <2>0. PICK y \in T : \E z : S2 = S /\ z \notin T /\ (T \ {y}) \cup {z} \subseteq T2
    BY <1>4
  <2>1. PICK z : S2 = S /\ z \notin T /\ (T \ {y}) \cup {z} \subseteq T2
    BY <2>0
  <2>2. IsFiniteSet(T \ {y}) /\ Cardinality(T \ {y}) = Cardinality(T) - 1 /\ z \notin T \ {y}
    BY <2>1, FS_RemoveElement
  <2>3. Cardinality((T \ {y}) \cup {z}) = Cardinality(T \ {y}) + 1
    BY <2>2, FS_AddElement
  <2>4. Cardinality((T \ {y}) \cup {z}) <= Cardinality(T2)
    BY <1>0, <2>1
  <2> QED BY SMT, <1>0, <2>1, <2>2, <2>3, <2>4
<1> QED BY <1>1, <1>2, <1>3, <1>4

LEMMA FiniteFacts ==
  /\ \A X : X \subseteq Threads => IsFiniteSet(X)
  /\ \A X : X \subseteq Entries => IsFiniteSet(X)
  /\ Cardinality({}) = 0
<1>1. IsFiniteSet(Threads) /\ IsFiniteSet(Entries)
  <2>1. 1 \in Int /\ N \in Int /\ MaxMsgs \in Int
    BY SMT, MessageQueueAssumption, KernelAssumption
  <2> QED BY <2>1, FS_Interval DEF Threads, Entries
<1> QED BY <1>1, FS_Subset, FS_EmptySet

LEMMA QueueFacts ==
  /\ QMutex \in Mutexes /\ QMutex \notin Conds /\ QMutex # NULL
  /\ SendCond \in Conds /\ RecvCond \in Conds
  /\ Top \in Priorities
BY MessageQueueAssumption, CondAssumption, ConstantFacts DEF Top

\* The calls a thread can be in.
LEMMA CallFacts ==
  ASSUME MqTypeOK, NEW t \in Threads
  PROVE  /\ call[t].op \in {"none", "lock", "relock", "condsignal"}
         /\ call[t].op = "none" <=> call[t] = Idle
         /\ call[t].op \in {"lock", "relock"} => call[t].on = QMutex
         /\ call[t].op = "condsignal" => call[t].on \in Threads
BY SMT DEF MqTypeOK, MqCalls, Idle

LEMMA GotoFacts ==
  ASSUME MqTypeOK, NEW t \in Threads, NEW at \in Places \ {"copy"}, Goto(t, at)
  PROVE  /\ MqPlaceOK' /\ \A u \in Threads \ {t} : mq'[u] = mq[u]
         /\ mq'[t].at = at /\ mq'[t].op = mq[t].op
BY SMT DEF Goto, MqTypeOK, MqPlaceOK

LEMMA GotoEntryFacts ==
  ASSUME MqTypeOK, NEW t \in Threads, NEW i \in Entries, GotoEntry(t, i)
  PROVE  /\ MqPlaceOK' /\ \A u \in Threads \ {t} : mq'[u] = mq[u]
         /\ mq'[t].at = "copy" /\ mq'[t].entry = i /\ mq'[t].op = mq[t].op
<1>1. mq[t] \in [op : {"none", "send", "receive"}, at : Places,
                 prio : MsgPrios \cup {0}, entry : Entries \cup {0}]
  BY DEF MqTypeOK, MqPlaceOK
<1>2. "copy" \in Places
  BY DEF Places
<1> QED BY SMT, <1>1, <1>2 DEF GotoEntry, MqTypeOK, MqPlaceOK

LEMMA OutFacts ==
  ASSUME MqTypeOK, NEW t \in Threads, mq' = [mq EXCEPT ![t] = Out]
  PROVE  /\ MqPlaceOK' /\ \A u \in Threads \ {t} : mq'[u] = mq[u]
         /\ mq'[t].at = "none" /\ mq'[t].op = "none"
BY SMT DEF Out, MqTypeOK, MqPlaceOK, Places

\* Messages have natural numbers as ages and priorities, and are told apart by them.
LEMMA MessageFacts ==
  /\ Empty \notin Messages
  /\ \A m \in Messages : m.prio \in Nat /\ m.age \in 0..MaxAge - 1
  /\ \A m, k \in Messages : m.prio = k.prio /\ m.age = k.age => m = k
  /\ \A p \in MsgPrios, a \in 0..MaxAge - 1 :
       LET m == [prio |-> p, age |-> a] IN m \in Messages /\ m.prio = p /\ m.age = a
<1>1. MaxAge \in Nat /\ MsgPrios \subseteq Nat
  BY MessageQueueAssumption
<1>2. Empty \notin Messages
  BY SMT, <1>1 DEF Messages, Empty
<1>3. \A m \in Messages : m.prio \in Nat /\ m.age \in 0..MaxAge - 1
  <2>1. \A m \in Messages : m.prio \in MsgPrios /\ m.age \in 0..MaxAge - 1
    BY DEF Messages
  <2> QED BY <1>1, <2>1
<1>4. \A m, k \in Messages : m.prio = k.prio /\ m.age = k.age => m = k
  BY SMT DEF Messages
<1>5. \A p \in MsgPrios, a \in 0..MaxAge - 1 :
        LET m == [prio |-> p, age |-> a] IN m \in Messages /\ m.prio = p /\ m.age = a
  BY SMT DEF Messages
<1> QED BY <1>2, <1>3, <1>4, <1>5

LEMMA SideFacts ==
  /\ Other("send") = "receive" /\ Other("receive") = "send"
  /\ CondOf("send") = RecvCond /\ CondOf("receive") = SendCond
  /\ \A op \in Sides : /\ Other(op) \in Sides /\ Other(op) # op /\ Other(Other(op)) = op
                       /\ CondOf(op) \in Conds /\ CondOf(op) # QMutex /\ CondOf(op) # NULL
                       /\ CondOf(op) # CondOf(Other(op))
                       /\ op # "none"
                       /\ \A p \in Sides : p = op \/ p = Other(op)
<1>1. /\ Other("send") = "receive" /\ Other("receive") = "send"
      /\ CondOf("send") = RecvCond /\ CondOf("receive") = SendCond
  BY DEF Other, CondOf
<1>2. \A c \in Conds : c # QMutex /\ c # NULL
  BY QueueFacts, CondAssumption
<1>3. SendCond # RecvCond
  BY MessageQueueAssumption
<1> QED BY <1>1, <1>2, <1>3, QueueFacts DEF Sides

-----------------------------------------------------------------------------
(* Every step is one of those described                                    *)

LEMMA SameTableFacts ==
  ASSUME msgTable' = msgTable
  PROVE  SameTable
BY DEF SameTable, Items, Full

\* What pthread_mutex_lock does to the threads.
LEMMA LockFrame ==
  ASSUME ExclusionInv, NEW t \in exec, MutexTrylock(t, QMutex, "lock")
  PROVE  /\ GoesOn(t) \/ Rests(t)
         /\ call'[t].op \in {"none", "lock"}
         /\ \A u \in Threads \ {t} : Still(u) /\ call'[u] = call[u]
         /\ UNCHANGED program
<1>1. t \in Threads /\ t \in active
  BY DEF ExclusionInv, MqTypeOK, KernelTypeOK
<1>2. CASE TakeFree(t, QMutex) /\ Return(t)
  <2>1. UNCHANGED <<program, active, blockObject, unblockType, wake>>
    BY <1>2 DEF TakeFree, fixed, block
  <2>2. call'[t].op = "none" /\ \A u \in Threads \ {t} : call'[u] = call[u]
    BY SMT, <1>1, <1>2 DEF Return, Idle, ExclusionInv, MqTypeOK
  <2> QED BY <1>1, <2>1, <2>2 DEF GoesOn, Still
<1>3. CASE MutexBlock(t, QMutex, FALSE) /\ Enter(t, "lock", QMutex)
  <2>1. /\ active' = active \ {t} /\ blockObject' = [blockObject EXCEPT ![t] = QMutex]
        /\ wake' = wake \ {t} /\ UNCHANGED <<program, unblockType>>
    BY <1>3 DEF MutexBlock, Block, fixed
  <2>2. blockObject'[t] = QMutex /\ \A u \in Threads \ {t} : blockObject'[u] = blockObject[u]
    BY <1>1, <2>1 DEF ExclusionInv, MqTypeOK, KernelTypeOK
  <2>3. call'[t].op = "lock" /\ \A u \in Threads \ {t} : call'[u] = call[u]
    BY SMT, <1>1, <1>3 DEF Enter, ExclusionInv, MqTypeOK
  <2> QED BY <2>1, <2>2, <2>3 DEF Rests, Still
<1>4. ("lock" = "timedlock") = FALSE /\ "lock" # "trylock"
  BY SMT
<1> QED BY <1>2, <1>3, <1>4 DEF MutexTrylock

\* What giving up the mutex does to the threads.
LEMMA GiveUpFrame ==
  ASSUME ExclusionInv, NEW t \in exec, NEW ws, ws = HighestPriorityBlocked(QMutex, t),
         active' = active \cup ws \/ active' = (active \cup ws) \ {t},
         unblockType' = Put(unblockType, ws, "MUTEX"),
         NEW o, blockObject' = [Put(blockObject, ws, NULL) EXCEPT ![t] = o],
         \A u \in Threads \ {t} : u \in wake' => u \in wake \ ws
  PROVE  /\ blockObject'[t] = o /\ unblockType'[t] = unblockType[t]
         /\ \A u \in Threads \ {t} : Still(u) \/ (Waits(u) /\ WokenBy(u, "MUTEX"))
<1>1. t \in Threads /\ t \in active
  BY DEF ExclusionInv, MqTypeOK, KernelTypeOK
<1>2. t \notin ws /\ \A u \in ws : Waits(u)
  BY DEF HighestPriorityBlocked, BlockedOn, Waits
<1>3. /\ blockObject'[t] = o
      /\ \A u \in Threads \ {t} : blockObject'[u] = IF u \in ws THEN NULL ELSE blockObject[u]
      /\ \A u \in Threads : unblockType'[u] = IF u \in ws THEN "MUTEX" ELSE unblockType[u]
  BY SMT, <1>1 DEF Put
<1>4. ASSUME NEW u \in Threads \ {t} PROVE Still(u) \/ (Waits(u) /\ WokenBy(u, "MUTEX"))
  <2>1. CASE u \in ws
    BY <1>2, <1>3, <2>1 DEF WokenBy
  <2>2. CASE u \notin ws
    BY <1>3, <2>2 DEF Still
  <2> QED BY <2>1, <2>2
<1> QED BY <1>1, <1>2, <1>3, <1>4

\* What pthread_cond_timedwait does to the threads up to its service call.
LEMMA CondWaitFrame ==
  ASSUME ExclusionInv, NEW t \in exec, NEW c, NEW isTimed \in BOOLEAN,
         SvcallCondWait(t, c, QMutex, isTimed)
  PROVE  /\ blockObject'[t] = c /\ unblockType'[t] = unblockType[t]
         /\ ~isTimed => t \notin active' /\ t \notin wake'
         /\ call'[t].op = "relock"
         /\ \A u \in Threads \ {t} : /\ Still(u) \/ (Waits(u) /\ WokenBy(u, "MUTEX"))
                                     /\ call'[u] = call[u]
         /\ UNCHANGED program
<1> DEFINE ws == HighestPriorityBlocked(QMutex, t)
<1>1. t \in Threads
  BY DEF ExclusionInv, MqTypeOK, KernelTypeOK
<1>2. call'[t].op = "relock" /\ \A u \in Threads \ {t} : call'[u] = call[u]
  <2>1. Enter(t, "relock", QMutex)
    BY DEF SvcallCondWait
  <2> QED BY SMT, <1>1, <2>1 DEF Enter, ExclusionInv, MqTypeOK
<1>3. CASE /\ active' = (active \cup ws) \ {t}
           /\ unblockType' = Put(unblockType, ws, "MUTEX")
           /\ blockObject' = [Put(blockObject, ws, NULL) EXCEPT ![t] = c]
           /\ wake' = IF isTimed THEN (wake \ ws) \cup {t} ELSE wake \ (ws \cup {t})
           /\ UNCHANGED fixed
  <2>1. /\ \A u \in Threads \ {t} : u \in wake' => u \in wake \ ws
        /\ ~isTimed => t \notin active' /\ t \notin wake'
    BY <1>3
  <2> QED BY <1>2, <1>3, <2>1, GiveUpFrame DEF fixed
<1>4. CASE isTimed /\ RootUnlock(t, QMutex, c)
  <2>1. /\ active' = active \cup ws /\ unblockType' = Put(unblockType, ws, "MUTEX")
        /\ blockObject' = [Put(blockObject, ws, NULL) EXCEPT ![t] = c]
        /\ \A u \in Threads \ {t} : u \in wake' => u \in wake \ ws
        /\ UNCHANGED program
    BY <1>4 DEF RootUnlock, fixed
  <2> QED BY <1>2, <1>4, <2>1, GiveUpFrame
<1> QED BY <1>3, <1>4 DEF SvcallCondWait

\* A step of the queue's own code that touches neither the threads' tables nor the calls.
LEMMA QuietFrame ==
  ASSUME UNCHANGED <<kernel, call>>, NEW t \in Threads, t \in active,
         \A u \in Threads \ {t} : mq'[u] = mq[u], NEW ws
  PROVE  GoesOn(t) /\ (\A u \in Threads \ {t} : Bystander(u, ws)) /\ UNCHANGED program
<1>1. UNCHANGED <<program, active, blockObject, unblockType, wake>>
  BY DEF kernel, fixed, block
<1> QED BY <1>1 DEF GoesOn, Bystander, Still

LEMMA WaitFrame ==
  ASSUME ExclusionInv, NEW t \in exec, t \in Threads, t \in active, NEW op \in Sides,
         At(t, op, "loop"), MqWait(t, CondOf(op)), Items(op) = {},
         op = "send" => "LOOP" \notin status
  PROVE  MqFrame
<1>1. call[t] = Idle /\ mq[t].at = "loop" /\ mq[t].op = op /\ owner[QMutex] = t
  BY DEF At, ExclusionInv, StageInv
<1>2. MqTypeOK /\ status' = status /\ SameTable /\ "fail" \in Places \ {"copy"} /\ "woken" \in Places \ {"copy"}
  BY SameTableFacts DEF ExclusionInv, MqWait, Places
<1>3. call[t].op # "condsignal"
  BY SMT, <1>1 DEF Idle
<1>4. CASE "NONBLOCK" \in status
  <2>1. Goto(t, "fail") /\ UNCHANGED <<kernel, call>>
    BY <1>4 DEF MqWait
  <2>2. (\A u \in Threads \ {t} : mq'[u] = mq[u]) /\ mq'[t].at = "fail" /\ mq'[t].op = op
    BY <1>1, <1>2, <2>1, GotoFacts
  <2>3. GoesOn(t) /\ (\A u \in Threads \ {t} : Bystander(u, {})) /\ UNCHANGED program
    BY <2>1, <2>2, QuietFrame
  <2>4. Moves(t)
    BY <1>1, <1>4, <2>1, <2>2, <2>3 DEF Moves
  <2> QED BY <1>2, <1>3, <2>3, <2>4 DEF MqFrame, Works
<1>5. CASE "NONBLOCK" \notin status
  <2> DEFINE isTimed == "timed" \in program[t]
  <2>1. Goto(t, "woken") /\ SvcallCondWait(t, CondOf(op), QMutex, isTimed)
    BY <1>1, <1>5 DEF MqWait
  <2>2. isTimed \in BOOLEAN
    BY SMT
  <2>3. (\A u \in Threads \ {t} : mq'[u] = mq[u]) /\ mq'[t].at = "woken" /\ mq'[t].op = op
    BY <1>1, <1>2, <2>1, GotoFacts
  <2>4. /\ blockObject'[t] = CondOf(op) /\ unblockType'[t] = unblockType[t]
        /\ ~isTimed => t \notin active' /\ t \notin wake'
        /\ call'[t].op = "relock"
        /\ \A u \in Threads \ {t} : /\ Still(u) \/ (Waits(u) /\ WokenBy(u, "MUTEX"))
                                    /\ call'[u] = call[u]
        /\ UNCHANGED program
    <3> HIDE DEF isTimed
    <3> QED BY <2>1, <2>2, CondWaitFrame
  <2>5. Sleeps(t)
    BY <1>1, <1>5, <2>3, <2>4 DEF Sleeps
  <2>6. \A u \in Threads \ {t} : Bystander(u, {})
    BY <2>3, <2>4 DEF Bystander
  <2> QED BY <1>2, <1>3, <2>4, <2>5, <2>6 DEF MqFrame, Works
<1> QED BY <1>4, <1>5

\* Every step is one of those described.
LEMMA FrameHolds ==
  ASSUME ExclusionInv, DataInv, NothingDropped, [MqNext]_mqVars
  PROVE  MqFrame
<1>0. /\ MqTypeOK /\ MqPlaceOK /\ active \subseteq Threads /\ exec \subseteq active
  BY DEF ExclusionInv, MqTypeOK, KernelTypeOK
<1>1. CASE UNCHANGED mqVars
  <2>1. UNCHANGED <<program, status, mq, call, active, blockObject, unblockType, wake, msgTable>>
    BY <1>1 DEF mqVars, kernel, fixed, block, queue
  <2> QED BY <2>1, SameTableFacts DEF MqFrame, Idles, Bystander, Still
<1>2. ASSUME KernelStep, UNCHANGED <<mutex, holds, queue>> PROVE MqFrame
  <2>1. UNCHANGED <<call, mq, status, msgTable>> /\ SameTable
    BY <1>2, SameTableFacts DEF KernelStep, queue
  <2>2. CASE RoundEnd
    <3>1. UNCHANGED <<program, active, blockObject, unblockType, wake>>
      BY <2>2 DEF RoundEnd, fixed, block
    <3> QED BY <2>1, <3>1 DEF MqFrame, Idles, Bystander, Still
  <2>3. ASSUME NEW ws \in SUBSET Threads, TimerMatch(ws) PROVE MqFrame
    <3>1. /\ ws \subseteq wake \ active /\ active' = active \cup ws /\ wake' = wake \ ws
          /\ unblockType' = Put(unblockType, ws, "SLEEP") /\ blockObject' = Put(blockObject, ws, NULL)
          /\ UNCHANGED program
      BY <2>3 DEF TimerMatch, AssertActive, fixed
    <3>2. ASSUME NEW u \in Threads PROVE Bystander(u, {})
      <4>1. /\ blockObject'[u] = IF u \in ws THEN NULL ELSE blockObject[u]
            /\ unblockType'[u] = IF u \in ws THEN "SLEEP" ELSE unblockType[u]
        BY <3>1 DEF Put
      <4>2. CASE u \in ws
        BY <2>1, <3>1, <4>1, <4>2 DEF Bystander, WokenBy
      <4>3. CASE u \notin ws
        BY <2>1, <3>1, <4>1, <4>3 DEF Bystander, Still
      <4> QED BY <4>2, <4>3
    <3> QED BY <2>1, <3>1, <3>2 DEF MqFrame, Idles
  <2>4. ASSUME NEW t \in Threads, Signal(t) \/ SignalWait(t) PROVE FALSE
    <3>1. "signal" \notin program[t] /\ ("pause" \in program[t] => "signal" \in program[t])
      BY ScenarioFacts DEF ExclusionInv, Unsignalled, MqTypeOK, KernelTypeOK
    <3> QED BY <2>4, <3>1 DEF Signal, SignalWait, Calls
  <2> QED BY <1>2, <2>2, <2>3, <2>4 DEF KernelStep
<1>3. ASSUME NEW t \in Threads, MqStep(t) PROVE MqFrame
  <2>1. ASSUME NEW op \in Sides, NEW p \in MsgPrios \cup {0}, MqCall(t, op, p) PROVE MqFrame
    <3>1. /\ t \in exec /\ t \in active /\ call[t] = Idle /\ op \in program[t] /\ mq[t] = Out
          /\ MutexTrylock(t, QMutex, "lock") /\ status' = status /\ SameTable
      BY <1>0, <2>1, SameTableFacts DEF MqCall, Calls
    <3>2. /\ \A u \in Threads \ {t} : mq'[u] = mq[u]
          /\ mq'[t].op = op /\ mq'[t].at = "loop"
      BY SMT, <1>0, <2>1 DEF MqCall, MqPlaceOK
    <3>3. mq[t].at = "none" /\ call[t].op # "condsignal"
      BY SMT, <3>1 DEF Out, Idle
    <3>4. /\ GoesOn(t) \/ Rests(t)
          /\ call'[t].op \in {"none", "lock"}
          /\ \A u \in Threads \ {t} : Still(u) /\ call'[u] = call[u]
          /\ UNCHANGED program
      BY <3>1, LockFrame
    <3>5. Begins(t)
      BY <3>1, <3>2, <3>3, <3>4 DEF Begins
    <3>6. \A u \in Threads \ {t} : Bystander(u, {})
      BY <3>2, <3>4 DEF Bystander
    <3> QED BY <3>1, <3>3, <3>4, <3>5, <3>6 DEF MqFrame, Works
  <2>2. ASSUME NEW op \in Sides, NEW at \in {"loop", "copy", "woken"}, At(t, op, at),
               UNCHANGED <<kernel, call, msgTable, status>>,
               \A u \in Threads \ {t} : mq'[u] = mq[u], mq'[t].op = mq[t].op,
               \/ mq'[t].at \in {"loop", "copy"}
               \/ mq'[t].at = "fail" /\ unblockType[t] \in {"SLEEP", "SIGNAL"}
        PROVE  MqFrame
    <3>1. t \in active /\ call[t] = Idle /\ mq[t].at = at
      BY <1>0, <2>2 DEF At
    <3>2. call[t].op # "condsignal"
      BY SMT, <3>1 DEF Idle
    <3>3. GoesOn(t) /\ (\A u \in Threads \ {t} : Bystander(u, {})) /\ UNCHANGED program
      BY <2>2, <3>1, QuietFrame
    <3>4. Moves(t)
      BY <2>2, <3>1, <3>3 DEF Moves
    <3> QED BY <2>2, <3>1, <3>2, <3>3, <3>4, SameTableFacts DEF MqFrame, Works
  <2>3. ASSUME NEW op \in Sides, NEW at \in {"loop", "copy", "woken"}, At(t, op, at),
               UNCHANGED <<kernel, call, msgTable, status>>,
               \/ Goto(t, "loop")
               \/ Goto(t, "fail") /\ unblockType[t] \in {"SLEEP", "SIGNAL"}
               \/ \E i \in Entries : GotoEntry(t, i)
        PROVE  MqFrame
    <3>1. CASE Goto(t, "loop")
      <4>1. "loop" \in Places \ {"copy"}
        BY DEF Places
      <4> QED BY <1>0, <2>2, <2>3, <3>1, <4>1, GotoFacts
    <3>2. CASE Goto(t, "fail") /\ unblockType[t] \in {"SLEEP", "SIGNAL"}
      <4>1. "fail" \in Places \ {"copy"}
        BY DEF Places
      <4> QED BY <1>0, <2>2, <2>3, <3>2, <4>1, GotoFacts
    <3>3. CASE \E i \in Entries : GotoEntry(t, i)
      BY <1>0, <2>2, <2>3, <3>3, GotoEntryFacts
    <3> QED BY <2>3, <3>1, <3>2, <3>3
  <2>4. CASE MqFindMessage(t)
    <3>1. At(t, "receive", "loop") /\ t \in exec /\ t \in active /\ "small" \notin program[t]
      BY <1>0, <2>4 DEF MqFindMessage, At, NothingDropped
    <3>2. CASE Full = {}
      <4>1. Items("receive") = {} /\ MqWait(t, CondOf("receive")) /\ "receive" \in Sides
        BY <2>4, <3>2, SideFacts DEF MqFindMessage, Items, Sides
      <4> QED BY <3>1, <4>1, WaitFrame
    <3>3. CASE Full # {}
      <4>1. (\E i \in Entries : GotoEntry(t, i)) /\ UNCHANGED <<kernel, call, msgTable, status>>
        BY <2>4, <3>1, <3>3 DEF MqFindMessage
      <4> QED BY <2>3, <3>1, <4>1 DEF Sides
    <3> QED BY <3>2, <3>3
  <2>5. CASE MqFindFree(t)
    <3>1. At(t, "send", "loop") /\ t \in exec /\ t \in active
      BY <1>0, <2>5 DEF MqFindFree, At
    <3>2. CASE Full = Entries /\ "LOOP" \notin status
      <4>1. Items("send") = {} /\ MqWait(t, CondOf("send")) /\ "send" \in Sides
        BY <2>5, <3>2, SideFacts DEF MqFindFree, Items, Sides
      <4> QED BY <3>1, <3>2, <4>1, WaitFrame
    <3>3. CASE ~(Full = Entries /\ "LOOP" \notin status)
      <4>1. (\E i \in Entries : GotoEntry(t, i)) /\ UNCHANGED <<kernel, call, msgTable, status>>
        BY <2>5, <3>3 DEF MqFindFree
      <4> QED BY <2>3, <3>1, <4>1 DEF Sides
    <3> QED BY <3>2, <3>3
  <2>6. CASE MqWoken(t)
    <3>1. PICK op \in Sides : At(t, op, "woken")
      BY <2>6 DEF MqWoken, Sides
    <3> QED BY <2>3, <2>6, <3>1 DEF MqWoken
  <2>7. ASSUME NEW op \in Sides, At(t, op, "copy"), Goto(t, "unlock"), NEW i \in Entries,
               Items(op)' = Items(op) \ {i}, Items(Other(op))' = Items(Other(op)) \cup {i},
               i \in Items(op) \/ (op = "send" /\ "LOOP" \in status),
               UNCHANGED <<kernel, call, status>>
        PROVE  MqFrame
    <3>1. t \in active /\ call[t] = Idle /\ mq[t].at = "copy" /\ mq[t].op = op
      BY <1>0, <2>7 DEF At
    <3>2. call[t].op # "condsignal"
      BY SMT, <3>1 DEF Idle
    <3>3. (\A u \in Threads \ {t} : mq'[u] = mq[u]) /\ mq'[t].at = "unlock" /\ mq'[t].op = op
      <4>1. "unlock" \in Places \ {"copy"}
        BY DEF Places
      <4> QED BY <1>0, <2>7, <3>1, <4>1, GotoFacts
    <3>4. GoesOn(t) /\ (\A u \in Threads \ {t} : Bystander(u, {})) /\ UNCHANGED program
      BY <2>7, <3>1, <3>3, QuietFrame
    <3>5. Uses(t)
      BY <2>7, <3>1, <3>3, <3>4 DEF Uses
    <3> QED BY <2>7, <3>1, <3>2, <3>4, <3>5 DEF MqFrame, Works
  <2>8. CASE MqTake(t)
    <3> DEFINE i == mq[t].entry
    <3>1. At(t, "receive", "copy") /\ i \in Entries /\ "receive" \in Sides
      BY <1>0, <2>8 DEF MqTake, At, MqPlaceOK, Sides
    <3>2. CASE msgTable[i] = Empty
      BY <2>3, <2>8, <3>1, <3>2 DEF MqTake
    <3>3. CASE msgTable[i] # Empty
      <4>1. /\ Goto(t, "unlock") /\ msgTable' = [msgTable EXCEPT ![i] = Empty]
            /\ UNCHANGED <<kernel, call, status>>
        BY <2>8, <3>3 DEF MqTake
      <4>2. msgTable'[i] = Empty /\ \A j \in Entries \ {i} : msgTable'[j] = msgTable[j]
        BY <3>1, <4>1 DEF DataInv, TableOK
      <4>3. Full' = Full \ {i} /\ i \in Full
        BY <3>1, <3>3, <4>2 DEF Full
      <4>4. (Entries \ Full)' = (Entries \ Full) \cup {i}
        BY <3>1, <4>3
      <4>5. /\ Items("receive")' = Items("receive") \ {i} /\ i \in Items("receive")
            /\ Items(Other("receive"))' = Items(Other("receive")) \cup {i}
        BY <4>3, <4>4, SideFacts DEF Items
      <4> QED BY <2>7, <3>1, <4>1, <4>5
    <3> QED BY <3>2, <3>3
  <2>9. CASE MqPut(t)
    <3> DEFINE i == mq[t].entry
    <3> DEFINE new == [prio |-> mq[t].prio, age |-> age]
    <3>1. /\ At(t, "send", "copy") /\ i \in Entries /\ "send" \in Sides /\ mq[t].prio \in MsgPrios
          /\ mq[t].at = "copy" /\ mq[t].op = "send"
      BY <1>0, <2>9 DEF MqPut, At, MqPlaceOK, Sides
    <3>2. /\ Goto(t, "unlock") /\ msgTable' = [msgTable EXCEPT ![i] = new]
          /\ UNCHANGED <<kernel, call, status>> /\ age < MaxAge
      BY <2>9 DEF MqPut
    <3>3. new # Empty
      <4>1. age \in 0..MaxAge - 1
        BY SMT, <3>2, MessageQueueAssumption DEF DataInv, TableOK
      <4> QED BY SMT, <3>1, <4>1, MessageFacts
    <3>4. msgTable'[i] = new /\ \A j \in Entries \ {i} : msgTable'[j] = msgTable[j]
      BY <3>1, <3>2 DEF DataInv, TableOK
    <3>5. Full' = Full \cup {i}
      BY <3>1, <3>3, <3>4 DEF Full
    <3>6. (Entries \ Full)' = (Entries \ Full) \ {i}
      BY <3>5
    <3>7. "LOOP" \in status \/ i \in Entries \ Full
      BY <3>1 DEF DataInv, EntryInv, Full
    <3>8. /\ Items("send")' = Items("send") \ {i} /\ ("LOOP" \in status \/ i \in Items("send"))
          /\ Items(Other("send"))' = Items(Other("send")) \cup {i}
      BY <3>5, <3>6, <3>7, SideFacts DEF Items
    <3> QED BY <2>7, <3>1, <3>2, <3>8
  <2>10. CASE MqUnlock(t)
    <3>1. /\ t \in exec /\ t \in active /\ call[t] = Idle /\ mq[t].at \in {"unlock", "fail"}
          /\ UNCHANGED <<call, msgTable, status>>
      BY <1>0, <2>10 DEF MqUnlock, At
    <3>2. call[t].op # "condsignal"
      BY SMT, <3>1 DEF Idle
    <3>3. /\ \A u \in Threads \ {t} : mq'[u] = mq[u]
          /\ IF mq[t].at = "unlock" THEN mq'[t].op = mq[t].op /\ mq'[t].at = "signal"
             ELSE mq[t].at = "fail" /\ mq'[t].op = "none" /\ mq'[t].at = "none"
      <4>1. CASE mq[t].at = "unlock"
        <5>1. Goto(t, "signal") /\ "signal" \in Places \ {"copy"}
          BY <2>10, <4>1 DEF MqUnlock, Places
        <5> QED BY <1>0, <4>1, <5>1, GotoFacts
      <4>2. CASE mq[t].at # "unlock"
        BY <1>0, <2>10, <3>1, <4>2, OutFacts DEF MqUnlock
      <4> QED BY <4>1, <4>2
    <3>4. /\ t \in active' /\ blockObject'[t] \in {NULL, blockObject[t]} /\ (t \in wake' => t \in wake)
          /\ unblockType'[t] = unblockType[t] /\ UNCHANGED program
          /\ \A u \in Threads \ {t} : Still(u) \/ (Waits(u) /\ WokenBy(u, "MUTEX"))
      <4>1. CASE owner[QMutex] = t
        <5> DEFINE ws == HighestPriorityBlocked(QMutex, t)
        <5>1. /\ active' = active \cup ws /\ unblockType' = Put(unblockType, ws, "MUTEX")
              /\ blockObject' = [Put(blockObject, ws, NULL) EXCEPT ![t] = NULL]
              /\ wake' = wake \ ws /\ UNCHANGED program
          BY <2>10, <4>1 DEF MqUnlock, RootUnlock, fixed
        <5> QED BY <3>1, <5>1, GiveUpFrame
      <4>2. CASE owner[QMutex] # t
        <5>1. UNCHANGED <<program, active, blockObject, unblockType, wake>>
          BY <2>10, <4>2 DEF MqUnlock, kernel, fixed, block
        <5> QED BY <3>1, <5>1 DEF Still
      <4> QED BY <4>1, <4>2
    <3>5. Unlocks(t)
      BY <3>1, <3>3, <3>4 DEF Unlocks
    <3>6. \A u \in Threads \ {t} : Bystander(u, {})
      BY <3>1, <3>3, <3>4 DEF Bystander
    <3> QED BY <3>1, <3>2, <3>4, <3>5, <3>6, SameTableFacts DEF MqFrame, Works
  <2>11. CASE MqSignal(t)
    <3>1. PICK op \in Sides : At(t, op, "signal")
      BY <2>11 DEF MqSignal, Sides
    <3>2. /\ t \in active /\ call[t] = Idle /\ mq[t].at = "signal" /\ mq[t].op = op
          /\ UNCHANGED <<msgTable, status>>
      BY <1>0, <2>11, <3>1 DEF MqSignal, At
    <3>3. call[t].op # "condsignal"
      BY SMT, <3>2 DEF Idle
    <3>4. (\A u \in Threads \ {t} : mq'[u] = mq[u]) /\ mq'[t].at = "none" /\ mq'[t].op = "none"
      BY <1>0, <2>11, OutFacts DEF MqSignal
    <3> DEFINE c == CondOf(Other(op))
    <3>5. IF BlockedOn(c, t) = {} THEN UNCHANGED <<kernel, call>> ELSE ChooseWaiter(t, c)
      <4>1. (IF op = "send" THEN SendCond ELSE RecvCond) = c
        BY SideFacts DEF Sides
      <4> QED BY <2>11, <3>2, <4>1 DEF MqSignal
    <3>6. /\ UNCHANGED kernel
          /\ \A u \in Threads \ {t} : call'[u] = call[u]
          /\ \/ call'[t] = Idle /\ \A u \in Threads \ {t} : ~Asleep(u, Other(op))
             \/ /\ call'[t].op = "condsignal"
                /\ call'[t].on \in Threads \ {t} /\ Asleep(call'[t].on, Other(op))
      <4>1. CASE BlockedOn(c, t) = {}
        BY <3>2, <3>5, <4>1 DEF BlockedOn, Asleep
      <4>2. CASE BlockedOn(c, t) # {}
        <5>1. PICK w \in BlockedOn(c, t) : Enter(t, "condsignal", w)
          BY <3>5, <4>2 DEF ChooseWaiter, HighestPriorityBlocked
        <5>2. w \in Threads \ {t} /\ Asleep(w, Other(op)) /\ UNCHANGED kernel
          BY <3>5, <4>2, <5>1 DEF BlockedOn, Asleep, ChooseWaiter
        <5>3. /\ call'[t].op = "condsignal" /\ call'[t].on = w
              /\ \A u \in Threads \ {t} : call'[u] = call[u]
          BY SMT, <1>0, <5>1 DEF Enter, MqTypeOK
        <5> QED BY <5>2, <5>3
      <4> QED BY <4>1, <4>2
    <3>7. UNCHANGED <<program, active, blockObject, unblockType, wake>>
      BY <3>6 DEF kernel, fixed, block
    <3>8. GoesOn(t) /\ \A u \in Threads \ {t} : Bystander(u, {})
      BY <3>2, <3>4, <3>6, <3>7 DEF GoesOn, Bystander, Still
    <3>9. Signals(t)
      BY <3>2, <3>4, <3>6, <3>8 DEF Signals
    <3> QED BY <3>2, <3>3, <3>7, <3>8, <3>9, SameTableFacts DEF MqFrame, Works
  <2>12. CASE MqFlush(t)
    BY <2>12 DEF MqFlush, Calls, NothingDropped
  <2>13. ASSUME t \in active, call[t].op \in {"lock", "relock"}, call'[t].op \in {"none", "lock"},
                mq' = mq, UNCHANGED <<program, status, msgTable>>, GoesOn(t) \/ Rests(t),
                \A u \in Threads \ {t} : Still(u) /\ call'[u] = call[u]
         PROVE  MqFrame
    <3>1. mq[t].at \in {"loop", "woken"}
      BY <2>13 DEF ExclusionInv, StageInv
    <3>2. Locks(t)
      BY <2>13, <3>1 DEF Locks
    <3>3. \A u \in Threads \ {t} : Bystander(u, {})
      BY <2>13 DEF Bystander
    <3>4. call[t].op # "condsignal"
      BY <2>13
    <3> QED BY <2>13, <3>2, <3>3, <3>4, SameTableFacts DEF MqFrame, Works
  <2>14. CASE LockLoop(t) /\ UNCHANGED queue
    <3>1. /\ t \in active /\ call[t].op \in LockCalls /\ UNCHANGED <<call, mq, status, msgTable>>
          /\ MutexUnblocked(t, call[t].on, call[t].op = "timedlock")
      BY <1>0, <2>14 DEF LockLoop, InCall, queue
    <3>2. call[t].on = QMutex /\ owner[QMutex] = t /\ call[t].op = "lock"
      BY <1>0, <3>1, CallFacts DEF LockCalls, ExclusionInv, WaitInv
    <3>3. /\ unblockType' = [unblockType EXCEPT ![t] = "MUTEX"]
          /\ UNCHANGED <<program, active, blockObject, wake>>
      BY <3>1, <3>2 DEF MutexUnblocked, mutex, fixed
    <3>4. unblockType'[t] = "MUTEX" /\ \A u \in Threads \ {t} : unblockType'[u] = unblockType[u]
      BY <1>0, <3>3 DEF MqTypeOK, KernelTypeOK
    <3>5. GoesOn(t) /\ \A u \in Threads \ {t} : Still(u)
      BY <3>1, <3>3, <3>4 DEF GoesOn, Still
    <3> QED BY <2>13, <3>1, <3>2, <3>3, <3>5
  <2>15. CASE LockReturn(t) /\ UNCHANGED queue
    <3>1. /\ t \in active /\ call[t].op \in LockCalls /\ Return(t)
          /\ UNCHANGED <<kernel, mq, status, msgTable>>
      BY <1>0, <2>15 DEF LockReturn, InCall, queue
    <3>2. call[t].op = "lock"
      BY <1>0, <3>1, CallFacts DEF LockCalls
    <3>3. call'[t].op = "none" /\ \A u \in Threads \ {t} : call'[u] = call[u]
      BY SMT, <1>0, <3>1 DEF Return, Idle, MqTypeOK
    <3>4. UNCHANGED <<program, active, blockObject, unblockType, wake>>
      BY <3>1 DEF kernel, fixed, block
    <3>5. GoesOn(t) /\ \A u \in Threads \ {t} : Still(u)
      BY <3>1, <3>4 DEF GoesOn, Still
    <3> QED BY <2>13, <3>1, <3>2, <3>3, <3>4, <3>5
  <2>16. CASE CondRelock(t) /\ UNCHANGED queue
    <3>1. /\ t \in exec /\ t \in active /\ call[t].op = "relock" /\ MutexTrylock(t, call[t].on, "lock")
          /\ UNCHANGED <<mq, status, msgTable>>
      BY <1>0, <2>16 DEF CondRelock, InCall, queue
    <3>2. call[t].on = QMutex
      BY <1>0, <3>1, CallFacts
    <3> QED BY <2>13, <3>1, <3>2, LockFrame
  <2>17. CASE SvcallCondSignal(t) /\ UNCHANGED queue
    <3> DEFINE w == call[t].on
    <3>1. /\ t \in active /\ call[t].op = "condsignal" /\ AssertActive({w}, "COND") /\ Return(t)
          /\ UNCHANGED <<program, mq, status, msgTable>>
      BY <1>0, <2>17 DEF SvcallCondSignal, InCall, queue, fixed
    <3>2. w \in Threads /\ mq[t].at = "none"
      BY <1>0, <3>1, CallFacts DEF ExclusionInv, StageInv
    <3>3. call'[t] = Idle /\ \A u \in Threads \ {t} : call'[u] = call[u]
      BY <1>0, <3>1 DEF Return, MqTypeOK
    <3>4. WokenBy(w, "COND") /\ \A u \in Threads \ {w} : Still(u)
      BY <3>1, <3>2 DEF AssertActive, WokenBy, Still, Put
    <3>5. \A u \in Threads \ {t} : Bystander(u, {w})
      BY <3>1, <3>3, <3>4 DEF Bystander
    <3>6. w # t => GoesOn(t)
      BY <3>1, <3>4 DEF GoesOn, Still
    <3>7. Wakes(t)
      BY <3>1, <3>2, <3>3, <3>4, <3>6 DEF Wakes
    <3> QED BY <3>1, <3>5, <3>7, SameTableFacts DEF MqFrame, Works
  <2>18. ASSUME NEW p \in MsgPrios, MqCall(t, "send", p) PROVE MqFrame
    BY <2>1, <2>18 DEF Sides
  <2>19. CASE MqCall(t, "receive", 0)
    BY <2>1, <2>19 DEF Sides
  <2> QED BY <1>3, <2>4, <2>5, <2>6, <2>8, <2>9, <2>10, <2>11, <2>12, <2>14, <2>15, <2>16,
             <2>17,
             <2>18, <2>19 DEF MqStep, MqLower
<1> QED BY <1>1, <1>2, <1>3 DEF MqNext

-----------------------------------------------------------------------------
(* The threads on the two sides                                            *)

LEMMA SideApart ==
  ASSUME OneWaker, NEW t \in Threads, NEW op \in Sides, NEW p \in Sides,
         op \in program[t], p \in program[t]
  PROVE  p = op
<1>1. ~(Sides \subseteq program[t])
  BY DEF OneWaker
<1> QED BY ZenonT(30), <1>1, SideFacts

\* Who sleeps has looked at the table, and its queue lets it sleep.
LEMMA SleeperFacts ==
  ASSUME RoleInv, NEW v \in Threads, NEW op \in Sides, Asleep(v, op)
  PROVE  /\ mq[v].op = op /\ mq[v].at = "woken" /\ op \in program[v] /\ v \notin active
         /\ "NONBLOCK" \notin status /\ (op = "send" => "LOOP" \notin status)
<1>1. RoleOf(v) /\ blockObject[v] = CondOf(op) /\ v \notin active
  BY DEF RoleInv, Asleep
<1>2. mq[v].op = op /\ mq[v].at = "woken"
  BY <1>1 DEF RoleOf
<1>3. op \in program[v]
  BY <1>1, <1>2, SideFacts DEF RoleOf
<1>4. "NONBLOCK" \notin status
  <2>1. CondOf(op) \in Conds
    BY SideFacts
  <2> QED BY <1>1, <2>1 DEF RoleOf
<1>5. op = "send" => blockObject[v] = RecvCond
  BY <1>1, SideFacts
<1> QED BY <1>1, <1>2, <1>3, <1>4, <1>5 DEF RoleOf

\* The thread that a thread of one side is to wake is of the other.
LEMMA TargetFacts ==
  ASSUME OneWaker, RoleInv, NEW t \in Threads, NEW op \in Sides, call[t].op = "condsignal",
         Other(op) \in program[t]
  PROVE  op \in program[call[t].on]
<1>1. PICK p \in Sides : Other(p) \in program[t] /\ p \in program[call[t].on]
  BY DEF RoleInv, RoleOf
<1>2. Other(p) = Other(op)
  BY <1>1, SideApart, SideFacts
<1> QED BY <1>1, <1>2, SideFacts

\* A step does not put another thread to sleep, and wakes one without a time limit only
\* if it was chosen.
LEMMA BystanderFacts ==
  ASSUME RoleInv, NEW u \in Threads, NEW ws, Bystander(u, ws), NEW op \in Sides
  PROVE  /\ Asleep(u, op)' => Asleep(u, op)
         /\ Asleep(u, op) /\ "timed" \notin program[u] /\ u \notin ws => Asleep(u, op)'
         /\ mq'[u] = mq[u] /\ call'[u] = call[u]
<1>1. Asleep(u, op)' <=> u \notin active' /\ blockObject'[u] = CondOf(op)
  BY DEF Asleep, CondOf
<1>2. Asleep(u, op)' => Asleep(u, op)
  BY <1>1 DEF Bystander, Still, WokenBy, Asleep
<1>3. ASSUME Asleep(u, op), "timed" \notin program[u], u \notin ws PROVE Asleep(u, op)'
  <2>1. ~Waits(u) /\ u \notin wake
    BY <1>3, SideFacts DEF Asleep, Waits, RoleInv, RoleOf
  <2>2. Still(u)
    BY <1>3, <2>1 DEF Bystander
  <2> QED BY <1>1, <1>3, <2>2 DEF Still, Asleep
<1> QED BY <1>2, <1>3 DEF Bystander

\* What a thread has when it goes on, or waits for the mutex.
LEMMA GoesOnFacts ==
  ASSUME RoleInv, NEW t \in Threads, t \in active, UNCHANGED <<program, status>>,
         \/ GoesOn(t) \/ Rests(t)
         \/ /\ t \in active' /\ blockObject'[t] \in {NULL, blockObject[t]}
            /\ t \in wake' => t \in wake
            /\ unblockType'[t] = unblockType[t]
         \/ WokenBy(t, "COND")
  PROVE  /\ \A op \in Sides : ~Asleep(t, op)'
         /\ unblockType'[t] # "SIGNAL"
         /\ blockObject'[t] \in Conds => blockObject'[t] \in {SendCond, RecvCond}
         /\ "timed" \notin program[t] => /\ t \notin wake' /\ unblockType'[t] # "SLEEP"
                                         /\ t \in active' => blockObject'[t] \notin Conds
         /\ "NONBLOCK" \in status => blockObject'[t] \notin Conds
         /\ "LOOP" \in status => blockObject'[t] # RecvCond
<1>1. QMutex \notin Conds /\ NULL \notin Conds /\ RecvCond \in Conds
  BY QueueFacts, CondAssumption
<1>2. /\ t \in active' \/ (t \notin active' /\ blockObject'[t] = QMutex)
      /\ blockObject'[t] \in {blockObject[t], QMutex, NULL} /\ (t \in wake' => t \in wake)
      /\ unblockType'[t] \in {unblockType[t], "MUTEX", "COND"}
  BY DEF GoesOn, Rests, WokenBy
<1>3. RoleOf(t)
  BY DEF RoleInv
<1>4. \A op \in Sides : ~Asleep(t, op)'
  BY <1>2, SideFacts DEF Asleep, CondOf
<1>5. /\ unblockType'[t] # "SIGNAL" /\ ("timed" \notin program[t] => unblockType'[t] # "SLEEP")
      /\ "timed" \notin program[t] => t \notin wake'
  BY <1>2, <1>3 DEF RoleOf
<1>6. /\ "NONBLOCK" \in status => blockObject'[t] \notin Conds
      /\ "LOOP" \in status => blockObject'[t] # RecvCond
  BY <1>1, <1>2, <1>3 DEF RoleOf
<1>7. "timed" \notin program[t] /\ t \in active' => blockObject'[t] \notin Conds
  BY <1>1, <1>2, <1>3 DEF RoleOf
<1>8. blockObject'[t] \in Conds => blockObject'[t] \in {SendCond, RecvCond}
  BY <1>1, <1>2, <1>3 DEF RoleOf
<1> QED BY <1>4, <1>5, <1>6, <1>7, <1>8

\* A thread that does not take the step keeps its role.
LEMMA BystanderRole ==
  ASSUME RoleInv, NEW u \in Threads, NEW ws, Bystander(u, ws), UNCHANGED <<program, status>>
  PROVE  RoleOf(u)'
<1>1. mq'[u] = mq[u] /\ call'[u] = call[u] /\ \A op \in Sides : Asleep(u, op)' => Asleep(u, op)
  BY BystanderFacts DEF Bystander
<1>2. RoleOf(u)
  BY DEF RoleInv
<1>3. NULL \notin Conds /\ RecvCond # NULL
  BY QueueFacts, CondAssumption
<1>4. blockObject'[u] = blockObject[u] \/ blockObject'[u] = NULL
  BY DEF Bystander, Still, WokenBy
<1>5. unblockType'[u] # "SIGNAL" /\ ("timed" \notin program[u] => unblockType'[u] # "SLEEP")
  BY <1>2 DEF Bystander, Still, WokenBy, RoleOf
<1>6. "timed" \notin program[u] => u \notin wake' /\ (u \in active' => blockObject'[u] \notin Conds)
  BY <1>2, <1>3 DEF Bystander, Still, WokenBy, RoleOf
<1>7. /\ "NONBLOCK" \in status => blockObject'[u] \notin Conds
      /\ "LOOP" \in status => blockObject'[u] # RecvCond
  BY <1>2, <1>3, <1>4 DEF RoleOf
<1>8. call'[u].op = "condsignal" =>
        \E op \in Sides : Other(op) \in program[u] /\ op \in program[call'[u].on]
  BY <1>1, <1>2 DEF RoleOf
<1>9. \A op \in Sides : Asleep(u, op)' => mq'[u].op = op /\ mq'[u].at = "woken"
  BY <1>1, <1>2 DEF RoleOf
<1>10. /\ mq'[u].op \in {"none"} \cup program[u]
       /\ mq'[u].op = "none" <=> mq'[u].at = "none"
       /\ "timed" \notin program[u] /\ mq'[u].at = "fail" => "NONBLOCK" \in status
  BY <1>1, <1>2 DEF RoleOf
<1>11. blockObject'[u] \in Conds => blockObject'[u] \in {SendCond, RecvCond}
  BY <1>2, <1>3, <1>4 DEF RoleOf
<1> QED BY <1>5, <1>6, <1>7, <1>8, <1>9, <1>10, <1>11 DEF RoleOf, Other

\* Every thread keeps its role.
LEMMA RoleKept ==
  ASSUME ExclusionInv, OneWaker, RoleInv, MqFrame
  PROVE  RoleInv'
<1>0. UNCHANGED <<program, status>>
  BY DEF MqFrame
<1>1. CASE Idles
  BY <1>0, <1>1, BystanderRole DEF Idles, RoleInv
<1>2. ASSUME NEW t \in Threads, Works(t) PROVE RoleInv'
  <2>1. \A u \in Threads \ {t} : RoleOf(u)'
    BY <1>0, <1>2, BystanderRole DEF Works
  <2> SUFFICES RoleOf(t)'
    BY <2>1 DEF RoleInv
  <2>2. RoleOf(t) /\ t \in active
    BY <1>2 DEF Works, RoleInv
  \* The clauses on the queue and the call below; those on the kernel's tables are
  \* as GoesOnFacts has them.
  <2>3. ASSUME \/ GoesOn(t) \/ Rests(t)
               \/ /\ t \in active' /\ blockObject'[t] \in {NULL, blockObject[t]}
                  /\ t \in wake' => t \in wake
                  /\ unblockType'[t] = unblockType[t]
               \/ WokenBy(t, "COND"),
               mq'[t].op \in {"none"} \cup program[t],
               mq'[t].op = "none" <=> mq'[t].at = "none",
               "timed" \notin program[t] /\ mq'[t].at = "fail" => "NONBLOCK" \in status,
               call'[t].op = "condsignal" =>
                 \E op \in Sides : Other(op) \in program[t] /\ op \in program[call'[t].on]
        PROVE  RoleOf(t)'
    BY <1>0, <2>2, <2>3, GoesOnFacts DEF RoleOf, Other
  <2>4. CASE Begins(t)
    <3>1. call'[t].op # "condsignal" /\ mq'[t].op # "none" /\ mq'[t].at = "loop"
      BY <2>4, SideFacts DEF Begins
    <3> QED BY <2>3, <2>4, <3>1 DEF Begins
  <2>5. CASE Locks(t)
    <3>1. call'[t].op # "condsignal" /\ mq'[t] = mq[t]
      BY <2>5 DEF Locks
    <3> QED BY <2>2, <2>3, <2>5, <3>1 DEF Locks, RoleOf
  <2>6. ASSUME call'[t] = Idle PROVE call'[t].op # "condsignal"
    BY SMT, <2>6 DEF Idle
  <2>7. CASE Moves(t)
    <3>1. call'[t].op # "condsignal" /\ mq'[t].op = mq[t].op /\ mq[t].op # "none" /\ mq'[t].at # "none"
      BY <2>2, <2>6, <2>7 DEF Moves, RoleOf
    <3>2. "timed" \notin program[t] /\ mq'[t].at = "fail" => "NONBLOCK" \in status
      BY <2>2, <2>7 DEF Moves, RoleOf
    <3> QED BY <2>2, <2>3, <2>7, <3>1, <3>2 DEF Moves, RoleOf
  <2>8. CASE Sleeps(t)
    <3> DEFINE side == mq[t].op
    <3>1. /\ side \in Sides /\ mq'[t].op = side /\ mq'[t].at = "woken" /\ call'[t].op # "condsignal"
          /\ blockObject'[t] = CondOf(side) /\ unblockType'[t] = unblockType[t]
          /\ "NONBLOCK" \notin status /\ (side = "send" => "LOOP" \notin status)
          /\ "timed" \notin program[t] => t \notin active' /\ t \notin wake'
      BY <2>8 DEF Sleeps
    <3>2. side # "none" /\ side \in program[t]
      BY <2>2, <3>1, SideFacts DEF RoleOf
    <3>3. \A op \in Sides : Asleep(t, op)' => op = side
      BY <3>1, SideFacts DEF Asleep, CondOf
    <3>4. "LOOP" \in status => blockObject'[t] # RecvCond
      BY <3>1, SideFacts DEF Sides
    <3>5. unblockType'[t] # "SIGNAL" /\ ("timed" \notin program[t] => unblockType'[t] # "SLEEP")
      BY <2>2, <3>1 DEF RoleOf
    <3>6. blockObject'[t] \in {SendCond, RecvCond}
      BY <3>1, SideFacts DEF Sides
    <3> QED BY <1>0, <3>1, <3>2, <3>3, <3>4, <3>5, <3>6 DEF RoleOf
  <2>9. CASE Uses(t)
    <3>1. call'[t].op # "condsignal" /\ mq'[t].op = mq[t].op /\ mq[t].op # "none" /\ mq'[t].at = "unlock"
      BY <2>2, <2>6, <2>9, SideFacts DEF Uses
    <3> QED BY <2>2, <2>3, <2>9, <3>1 DEF Uses, RoleOf
  <2>10. CASE Unlocks(t)
    <3>1. call'[t].op # "condsignal"
      BY <2>6, <2>10 DEF Unlocks
    <3>2. /\ mq'[t].op \in {"none"} \cup program[t] /\ mq'[t].at # "fail"
          /\ mq'[t].op = "none" <=> mq'[t].at = "none"
      BY <2>2, <2>10 DEF Unlocks, RoleOf
    <3> QED BY <2>3, <2>10, <3>1, <3>2 DEF Unlocks
  <2>11. CASE Signals(t)
    <3> DEFINE side == mq[t].op
    <3>1. side \in Sides /\ side \in program[t] /\ Other(side) \in Sides /\ Other(Other(side)) = side
      BY <2>2, <2>11, SideFacts DEF Signals, RoleOf
    <3>2. call'[t].op = "condsignal" =>
            \E op \in Sides : Other(op) \in program[t] /\ op \in program[call'[t].on]
      <4> SUFFICES ASSUME call'[t].op = "condsignal"
                   PROVE  Other(side) \in program[call'[t].on]
        BY <3>1
      <4> QED BY <2>6, <2>11, <3>1, SleeperFacts DEF Signals
    <3>3. mq'[t].op = "none" /\ mq'[t].at = "none" /\ GoesOn(t)
      BY <2>11 DEF Signals
    <3> QED BY <2>3, <3>2, <3>3
  <2>12. CASE Wakes(t)
    <3>1. call'[t].op # "condsignal" /\ mq'[t] = mq[t] /\ (GoesOn(t) \/ WokenBy(t, "COND"))
      BY <2>6, <2>12 DEF Wakes
    <3> QED BY <2>2, <2>3, <3>1 DEF RoleOf
  <2> QED BY <1>2, <2>4, <2>5, <2>7, <2>8, <2>9, <2>10, <2>11, <2>12 DEF Works
<1> QED BY <1>1, <1>2 DEF MqFrame

\* A thread that is to wake one on the side op still is, or wakes one in this step, if
\* somebody on that side sleeps.
LEMMA NotifierStays ==
  ASSUME ExclusionInv, OneWaker, RoleInv, NEW t \in Threads, Works(t), UNCHANGED program,
         NEW op \in Sides, NEW v \in Threads \ {t}, Asleep(v, op), Notifies(t, op), ~Wakes(t)
  PROVE  Notifies(t, op)'
<1>1. Other(op) \in program[t] /\ (mq[t].at \in {"unlock", "signal"} \/ call[t].op = "condsignal")
  BY DEF Notifies
<1>2. Idle.op = "none"
  BY SMT DEF Idle
<1>3. Unlocks(t) \/ Signals(t)
  BY <1>1, <1>2 DEF Works, Begins, Locks, Moves, Sleeps, Uses
<1>4. CASE Unlocks(t)
  <2>1. mq'[t].at = "signal"
    BY <1>1, <1>2, <1>4 DEF Unlocks
  <2> QED BY <1>1, <2>1 DEF Notifies, Other
<1>5. CASE Signals(t)
  <2>1. mq[t].op \in Sides /\ mq[t].op \in program[t]
    BY <1>5, SideFacts DEF Signals, RoleInv, RoleOf
  <2>2. Other(mq[t].op) = op
    BY <1>1, <2>1, SideApart, SideFacts
  <2>3. call'[t].op = "condsignal"
    BY <1>5, <2>2 DEF Signals
  <2> QED BY <1>1, <2>3 DEF Notifies, Other
<1> QED BY <1>3, <1>4, <1>5

\* Sides and the programs do not change.
LEMMA SameSides ==
  ASSUME UNCHANGED program, NEW op \in Sides
  PROVE  Alone(op)' = Alone(op) /\ Untimed(op)' = Untimed(op) /\ Alone(Other(op))' = Alone(Other(op))
BY DEF Alone, Untimed, Other

\* A thread that puts itself to sleep has found no item.
LEMMA SleepsWithoutItems ==
  ASSUME ExclusionInv, OneWaker, RoleInv, UNCHANGED <<program, status>>,
         NEW t \in Threads, Works(t), NEW op \in Sides, Asleep(t, op)'
  PROVE  Items(op)' = {}
<1>1. RoleInv /\ t \in active
  BY DEF Works
<1>2. Sleeps(t)
  <2>1. GoesOn(t) \/ Rests(t) \/ WokenBy(t, "COND") \/ Unlocks(t) => FALSE
    <3>1. GoesOn(t) \/ Rests(t) \/ WokenBy(t, "COND") => FALSE
      BY <1>1, GoesOnFacts
    <3>2. Unlocks(t) => FALSE
      BY DEF Unlocks, Asleep
    <3> QED BY <3>1, <3>2
  <2>2. Begins(t) \/ Locks(t) \/ Moves(t) \/ Signals(t) \/ Uses(t) => FALSE
    BY <2>1 DEF Begins, Locks, Moves, Signals, Uses
  <2>3. Wakes(t) => FALSE
    BY <2>1 DEF Wakes
  <2> QED BY <2>1, <2>2, <2>3 DEF Works
<1>3. blockObject'[t] = CondOf(op) /\ blockObject'[t] = CondOf(mq[t].op) /\ mq[t].op \in Sides
  BY <1>2 DEF Sleeps, Asleep, CondOf
<1>4. mq[t].op = op
  BY <1>3, SideFacts
<1>5. ~Uses(t)
  BY <1>2 DEF Sleeps, Uses
<1> QED BY <1>2, <1>4, <1>5 DEF Sleeps, Works, SameTable

LEMMA AloneKept ==
  ASSUME ExclusionInv, OneWaker, ServiceInv, MqFrame
  PROVE  AloneInv'
<1> USE DEF ServiceInv
<1>0. UNCHANGED <<program, status>>
  BY DEF MqFrame
<1> SUFFICES ASSUME NEW op \in Sides, NEW v \in Threads, Alone(op), Asleep(v, op)', Items(op)' # {}
             PROVE  \E u \in Threads : Notifies(u, op)'
  BY <1>0, SameSides DEF AloneInv
<1>1. ASSUME NEW u \in Threads, mq'[u] = mq[u], call'[u] = call[u], Notifies(u, op)
      PROVE  Notifies(u, op)'
  BY <1>0, <1>1 DEF Notifies, Other
<1>2. ASSUME Asleep(v, op), Items(op) # {} PROVE \E u \in Threads : Notifies(u, op)
  BY <1>2 DEF AloneInv
<1>3. CASE Idles
  <2>1. Asleep(v, op) /\ Items(op) # {} /\ \A u \in Threads : mq'[u] = mq[u] /\ call'[u] = call[u]
    BY <1>3, BystanderFacts DEF Idles, SameTable
  <2> QED BY <1>1, <1>2, <2>1
<1>4. ASSUME NEW t \in Threads, Works(t) PROVE \E u \in Threads : Notifies(u, op)'
  <2>1. v # t
    BY <1>0, <1>4, SleepsWithoutItems
  <2>2. Asleep(v, op) /\ op \in program[v] /\ \A u \in Threads \ {t} : mq'[u] = mq[u] /\ call'[u] = call[u]
    BY <1>4, <2>1, BystanderFacts, SleeperFacts DEF Works
  <2>3. CASE Uses(t)
    <3>1. mq[t].op \in Sides /\ mq[t].op \in program[t] /\ mq'[t].at = "unlock"
      BY <2>3, SideFacts DEF Uses, RoleInv, RoleOf
    <3>2. mq[t].op # op
      BY <2>1, <2>2, <3>1 DEF Alone
    <3>3. Other(op) \in program[t]
      BY <3>1, <3>2, SideFacts
    <3>4. Notifies(t, op)'
      BY <1>0, <3>1, <3>3 DEF Notifies, Other
    <3> QED BY <3>4
  <2>4. CASE ~Uses(t)
    <3>1. Items(op)' = Items(op)
      BY <1>4, <2>4 DEF Works, SameTable
    <3>2. PICK u \in Threads : Notifies(u, op)
      BY <1>2, <2>2, <3>1
    <3>3. CASE u # t
      BY <1>1, <2>2, <3>2, <3>3
    <3>4. CASE u = t
      <4>1. ~Wakes(t)
        <5> SUFFICES ASSUME Wakes(t) PROVE FALSE
          OBVIOUS
        <5>1. /\ call[t].op = "condsignal" /\ call[t].on \in Threads /\ WokenBy(call[t].on, "COND")
              /\ Other(op) \in program[t]
          BY <3>2, <3>4 DEF Wakes, Notifies
        <5>2. call[t].on = v
          BY <2>2, <5>1, TargetFacts DEF Alone
        <5> QED BY <5>1, <5>2 DEF WokenBy, Asleep
      <4> QED BY <1>0, <1>4, <2>1, <2>2, <3>2, <3>4, <4>1, NotifierStays
    <3> QED BY <3>3, <3>4
  <2> QED BY <2>3, <2>4
<1> QED BY <1>3, <1>4 DEF MqFrame

\* The thread that the one waker of a side has chosen is not woken by another step.
LEMMA ChosenSleepsOn ==
  ASSUME ExclusionInv, OneWaker, ServiceInv, NEW op \in Sides, Alone(Other(op)), Untimed(op),
         NEW s \in Threads, Other(op) \in program[s], NEW w \in Threads, Asleep(w, op),
         \/ Idles
         \/ \E t \in Threads : Works(t) /\ (t # s \/ call[t].op # "condsignal")
  PROVE  Asleep(w, op)'
<1> USE DEF ServiceInv
<1>1. op \in program[w] /\ "timed" \notin program[w] /\ w \notin active
  BY SleeperFacts DEF Untimed
<1>2. CASE Idles
  <2>1. \E ws : w \notin ws /\ Bystander(w, ws)
    BY <1>2 DEF Idles
  <2> QED BY <1>1, <2>1, BystanderFacts
<1>3. ASSUME NEW t \in Threads, Works(t), t # s \/ call[t].op # "condsignal" PROVE Asleep(w, op)'
  <2>1. w # t
    BY <1>1, <1>3 DEF Works
  <2>2. CASE call[t].op # "condsignal"
    <3>1. \E ws : w \notin ws /\ Bystander(w, ws)
      BY <1>3, <2>1, <2>2 DEF Works
    <3> QED BY <1>1, <3>1, BystanderFacts
  <2>3. CASE call[t].op = "condsignal"
    <3>1. Bystander(w, {call[t].on})
      BY <1>3, <2>1, <2>3 DEF Works
    <3>2. Other(op) \notin program[t]
      BY <1>3, <2>3 DEF Alone
    <3>3. PICK p \in Sides : Other(p) \in program[t] /\ p \in program[call[t].on]
      BY <2>3 DEF RoleInv, RoleOf
    <3>4. p # op
      BY <3>2, <3>3
    <3>5. w # call[t].on
      BY <1>1, <3>3, <3>4, SideApart
    <3> QED BY <1>1, <3>1, <3>5, BystanderFacts
  <2> QED BY <2>2, <2>3
<1> QED BY <1>2, <1>3

LEMMA ChosenKept ==
  ASSUME ExclusionInv, OneWaker, ServiceInv, MqFrame
  PROVE  ChosenInv'
<1> USE DEF ServiceInv
<1>0. UNCHANGED <<program, status>>
  BY DEF MqFrame
<1> SUFFICES ASSUME NEW op \in Sides, NEW s \in Threads, Alone(Other(op)), Untimed(op),
                    Other(op) \in program[s], call'[s].op = "condsignal"
             PROVE  \E w \in Threads : w = call'[s].on /\ Asleep(w, op)'
  <2>1. ASSUME NEW op \in Sides, NEW s \in Threads, NEW w \in Threads, w = call'[s].on, Asleep(w, op)'
        PROVE  call'[s].on \notin active' /\ blockObject'[call'[s].on] = CondOf(op)
    BY <2>1 DEF Asleep, CondOf
  <2> QED BY <1>0, <2>1, SameSides DEF ChosenInv, Other, Asleep, CondOf
<1>1. ASSUME call[s].op = "condsignal", call'[s] = call[s]
      PROVE  call[s].on \in Threads /\ Asleep(call[s].on, op)
  BY <1>1, CallFacts DEF ChosenInv, ExclusionInv
<1>2. CASE Idles
  <2>1. call'[s] = call[s]
    BY <1>2 DEF Idles, Bystander
  <2> QED BY <1>1, <1>2, <2>1, ChosenSleepsOn
<1>3. ASSUME NEW t \in Threads, Works(t), t # s
      PROVE  \E w \in Threads : w = call'[s].on /\ Asleep(w, op)'
  <2>1. call'[s] = call[s]
    BY <1>3 DEF Works, Bystander
  <2> QED BY <1>1, <1>3, <2>1, ChosenSleepsOn
<1>4. CASE Works(s)
  <2>1. Idle.op = "none"
    BY SMT DEF Idle
  <2>2. Signals(s)
    BY <1>4, <2>1 DEF Works, Begins, Locks, Moves, Sleeps, Uses, Unlocks, Wakes
  <2>3. /\ mq[s].op \in Sides /\ call[s].op # "condsignal"
        /\ call'[s].on \in Threads /\ Asleep(call'[s].on, Other(mq[s].op))
    BY <2>1, <2>2 DEF Signals
  <2>4. mq[s].op \in program[s]
    BY <2>3, SideFacts DEF RoleInv, RoleOf
  <2>5. Other(mq[s].op) = op
    BY <2>3, <2>4, SideApart, SideFacts
  <2> QED BY <1>4, <2>3, <2>5, ChosenSleepsOn
<1> QED BY <1>2, <1>3, <1>4 DEF MqFrame

LEMMA TokenKept ==
  ASSUME ExclusionInv, OneWaker, ServiceInv, MqFrame
  PROVE  TokenInv'
<1> USE DEF ServiceInv
<1>0. UNCHANGED <<program, status>> /\ Idle.op = "none"
  BY SMT DEF MqFrame, Idle
<1> SUFFICES ASSUME NEW op \in Sides, NEW v \in Threads, Alone(Other(op)), Untimed(op), Asleep(v, op)'
             PROVE  Cardinality(Items(op)') <= Cardinality(Workers(op)')
  BY <1>0, SameSides DEF TokenInv
<1> DEFINE S == Items(op)
<1> DEFINE T == Workers(op)
<1>1. /\ IsFiniteSet(S) /\ IsFiniteSet(S') /\ IsFiniteSet(T) /\ IsFiniteSet(T')
      /\ T \subseteq Threads /\ T' \subseteq Threads /\ Cardinality({}) = 0
  BY FiniteFacts DEF Items, Workers, Full
<1>2. \A u \in Threads : u \in T' <=> Notifies(u, op)' \/ Comes(u, op)'
  BY DEF Workers, Notifies, Comes, Asleep, Other, CondOf
<1>3. ASSUME NEW u \in Threads, NEW ws, Bystander(u, ws), u \in T PROVE u \in T'
  <2>1. mq'[u] = mq[u] /\ call'[u] = call[u] /\ (Asleep(u, op)' => Asleep(u, op))
    BY <1>3, BystanderFacts
  <2>2. CASE Notifies(u, op)
    <3>1. Notifies(u, op)'
      BY <1>0, <2>1, <2>2 DEF Notifies, Other
    <3> QED BY <1>2, <3>1
  <2>3. CASE Comes(u, op)
    <3>1. Comes(u, op)'
      BY <2>1, <2>3 DEF Comes
    <3> QED BY <1>2, <3>1
  <2> QED BY <1>3, <2>2, <2>3 DEF Workers
<1>4. ASSUME Asleep(v, op) PROVE Cardinality(S) <= Cardinality(T)
  BY <1>4 DEF TokenInv
<1> HIDE DEF S, T
<1>9. S' = {} => Cardinality(S') <= Cardinality(T')
  <2>1. Cardinality(T') \in Nat
    BY <1>1, FS_CardinalityType
  <2> QED BY SMT, <1>1, <2>1
\* The items are as they were and nobody stops working.
<1>5. ASSUME S' = S, T \subseteq T', Asleep(v, op) PROVE Cardinality(S') <= Cardinality(T')
  BY <1>1, <1>4, <1>5, CountFacts
<1>6. CASE Idles
  <2>1. S' = S /\ Asleep(v, op)
    BY <1>6, BystanderFacts DEF Idles, SameTable, S
  <2>2. T \subseteq T'
    BY <1>1, <1>3, <1>6 DEF Idles
  <2> QED BY <1>5, <2>1, <2>2 DEF S, T
<1>7. ASSUME NEW t \in Threads, Works(t) PROVE Cardinality(S') <= Cardinality(T')
  <2>1. CASE v = t
    <3>1. S' = {}
      BY <1>0, <1>7, <2>1, SleepsWithoutItems DEF S
    <3> QED BY <1>9, <3>1
  <2>2. ASSUME v # t PROVE Cardinality(S') <= Cardinality(T')
    <3>1. Asleep(v, op)
      BY <1>7, <2>2, BystanderFacts DEF Works
    <3>2. "NONBLOCK" \notin status /\ (op = "send" => "LOOP" \notin status)
      BY <3>1, SleeperFacts
    <3>3. T \ {t} \subseteq T'
      BY <1>1, <1>3, <1>7 DEF Works
    <3>4. t \in T <=> Notifies(t, op) \/ Comes(t, op)
      BY DEF Workers, T
    <3>5. t \in active /\ Cardinality(S) <= Cardinality(T)
      BY <1>4, <1>7, <3>1 DEF Works
    <3>6. CASE Uses(t)
      <4>1. PICK side \in Sides, i \in Entries :
              /\ mq[t].op = side
              /\ Items(side)' = Items(side) \ {i}
              /\ Items(Other(side))' = Items(Other(side)) \cup {i}
              /\ i \in Items(side) \/ (side = "send" /\ "LOOP" \in status)
        BY <3>6 DEF Uses
      <4>2. /\ mq[t].op = side /\ side \in program[t] /\ mq[t].at = "copy" /\ mq'[t].at = "unlock"
            /\ call[t].op = "none"
        BY <1>0, <3>6, <4>1, SideFacts DEF Uses, RoleInv, RoleOf
      <4>3. CASE side = op
        <5>1. S' = S \ {i} /\ i \in S
          BY <3>2, <4>1, <4>3 DEF S
        <5>2. t \in T
          BY <3>4, <3>5, <4>2, <4>3 DEF Comes, Asleep
        <5> QED BY <1>1, <3>3, <3>5, <5>1, <5>2, CountFacts
      <4>4. CASE side = Other(op)
        <5>1. S' = S \cup {i}
          BY <4>1, <4>4, SideFacts DEF S
        <5>2. t \notin T
          <6>1. Other(op) # op
            BY SideFacts
          <6> QED BY <3>4, <4>2, <4>4, <6>1 DEF Notifies, Comes
        <5>3. Notifies(t, op)'
          BY <1>0, <4>2, <4>4 DEF Notifies, Other
        <5>4. t \in T'
          BY <1>2, <5>3
        <5>5. T \cup {t} \subseteq T'
          BY <3>3, <5>2, <5>4
        <5> QED BY <1>1, <3>5, <5>1, <5>2, <5>5, CountFacts
      <4> QED BY <4>3, <4>4, SideFacts
    <3>7. CASE ~Uses(t)
      <4>1. S' = S
        BY <1>7, <3>7 DEF Works, SameTable, S
      <4>2. ASSUME t \in T => t \in T' PROVE Cardinality(S') <= Cardinality(T')
        BY <1>1, <1>5, <3>1, <3>3, <4>1, <4>2
      <4>3. CASE Wakes(t)
        <5>1. PICK w \in Threads : /\ call[t].op = "condsignal" /\ w = call[t].on
                                  /\ WokenBy(w, "COND") /\ mq[t].at = "none"
          BY <4>3 DEF Wakes
        <5>2. CASE Other(op) \in program[t]
          <6>1. Asleep(w, op)
            BY <5>1, <5>2 DEF ChosenInv
          <6>2. mq[w].op = op /\ mq[w].at = "woken" /\ op \in program[w] /\ w # t
            BY <3>5, <5>1, <6>1, SleeperFacts
          <6>3. Other(op) \notin program[w]
            BY <5>1, <6>2, SideApart, SideFacts
          <6>4. w \notin T
            BY <5>1, <6>1, <6>3 DEF T, Workers, Notifies, Comes
          <6>5. mq'[w] = mq[w]
            BY <1>7, <5>1, <6>2 DEF Works, Bystander
          <6>6. Comes(w, op)'
            BY <5>1, <6>2, <6>5 DEF Comes, WokenBy, Asleep
          <6>7. w \in T' /\ t \in T
            BY <1>2, <3>4, <5>1, <5>2, <6>6 DEF Notifies
          <6>8. (T \ {t}) \cup {w} \subseteq T'
            BY <3>3, <6>7
          <6> QED BY <1>1, <3>5, <4>1, <6>4, <6>7, <6>8, CountFacts
        <5>3. CASE Other(op) \notin program[t]
          BY <3>4, <4>2, <5>1, <5>3 DEF Notifies, Comes
        <5> QED BY <5>2, <5>3
      <4>4. CASE ~Wakes(t) /\ Notifies(t, op)
        <5>1. Notifies(t, op)'
          BY <1>0, <1>7, <2>2, <3>1, <4>4, NotifierStays
        <5> QED BY <1>2, <4>2, <5>1
      <4>5. CASE ~Wakes(t) /\ Comes(t, op)
        <5>1. mq[t].op = op /\ mq[t].at \in {"loop", "copy", "woken"} /\ op \in program[t]
          BY <4>5, SideFacts DEF Comes, RoleInv, RoleOf
        <5>2. Locks(t) \/ Moves(t) \/ Sleeps(t)
          BY <1>7, <3>7, <4>5, <5>1 DEF Works, Begins, Unlocks, Signals
        <5>3. CASE Sleeps(t)
          <6>1. S' = {}
            BY <4>1, <5>1, <5>3 DEF Sleeps, S
          <6> QED BY <1>9, <6>1
        <5>4. CASE Locks(t) \/ Moves(t)
          <6>1. ~Asleep(t, op)'
            BY <1>0, <3>5, <5>4, GoesOnFacts DEF Locks, Moves
          <6>2. mq'[t].op = op /\ mq'[t].at \in {"loop", "copy", "woken"}
            <7>1. CASE Locks(t)
              BY <5>1, <7>1 DEF Locks
            <7>2. CASE Moves(t)
              <8>1. unblockType[t] \notin {"SLEEP", "SIGNAL"}
                BY <5>1 DEF Untimed, RoleInv, RoleOf
              <8> QED BY <3>2, <5>1, <7>2, <8>1 DEF Moves
            <7> QED BY <5>4, <7>1, <7>2
          <6>3. Comes(t, op)'
            BY <6>1, <6>2 DEF Comes
          <6> QED BY <1>2, <4>2, <6>3
        <5> QED BY <5>2, <5>3, <5>4
      <4>6. CASE ~Wakes(t) /\ ~Notifies(t, op) /\ ~Comes(t, op)
        BY <3>4, <4>2, <4>6
      <4> QED BY <4>3, <4>4, <4>5, <4>6
    <3> QED BY <3>6, <3>7
  <2> QED BY <2>1, <2>2
<1> QED BY <1>6, <1>7 DEF MqFrame, S, T

LEMMA ServiceKept ==
  ASSUME ExclusionInv, DataInv, OneWaker, NothingDropped, ServiceInv, [MqNext]_mqVars
  PROVE  OneWaker' /\ ServiceInv'
<1>1. MqFrame
  BY FrameHolds
<1>2. OneWaker'
  BY <1>1 DEF MqFrame, OneWaker, Alone, Untimed, Other
<1>3. RoleInv' /\ AloneInv' /\ ChosenInv' /\ TokenInv'
  BY <1>1, RoleKept, AloneKept, ChosenKept, TokenKept DEF ServiceInv
<1> QED BY <1>2, <1>3 DEF ServiceInv
=============================================================================

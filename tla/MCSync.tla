------------------------------- MODULE MCSync -------------------------------
(* Instances of Sync for TLC.                                              *)
EXTENDS Sync

CONSTANTS m1, m2, m3, c1, s1, a1, a2, a3

\* m1 has a priority ceiling, m2 is recursive.
CeilingDef == [m \in Mutexes |-> IF m = m1 THEN 1 ELSE 0]

All(S) == [t \in Threads |-> S]
First(S, T) == [t \in Threads |-> IF t = 1 THEN S ELSE T]
With(p, b) == [program |-> p, base |-> b]
User == {"lock", "unlock"}

\* Signals and time limits; nested locks; a thread of higher priority; waiting
\* for a condition, with and without a time limit; semaphores posted by the thread of the
\* highest priority; asynchronous transfers.
Signalled == With(First({m1, "timedlock"} \cup User, {m1, "signal"} \cup User), All(0))
Nested    == With(First({m2, m3, "trylock", "unlock"}, {m2, m3} \cup User), All(0))
Priority  == With(All({m1, "pause", "signal"} \cup User), First(1, 0))
Condition == With(First({m3, "timedlock"} \cup User,
                        {m3, c1, "condwait", "condsignal", "condbroadcast", "locked"} \cup User),
                  All(0))
TimedWait == With(First({m3, c1, "condbroadcast"} \cup User,
                        {m3, c1, "condtimedwait"} \cup User), All(0))
Posted    == With(First({s1, "sempost", "pause", "signal"},
                        {s1, "semwait", "semtimedwait", "semtrywait", "signal"}), First(1, 0))
Overlapped == With([t \in Threads |->
                      CASE t = 1 -> {a1, a2, "aio", "aiosuspend", "listio", "aiocancel", "signal"}
                        [] t = 2 -> {a3, "aio", "aiosuspend", "sigevent", "signal"}
                        [] OTHER -> {}], First(1, 0))
Disciplined == {Signalled, Nested, Priority, Condition, TimedWait, Posted, Overlapped}

\* A signal is sent to threads that lock.
LockAndSignal == {With(All({m3, "signal"} \cup User), All(0))}

\* Time limits of aio_suspend that have passed; a thread that waits for a request of another.
LateLimit == {With(First({a1, "aio", "aiosuspend", "expired"}, {}), All(0))}
OthersRequest == {With([t \in Threads |-> CASE t = 1 -> {a1, "aio"} [] t = 2 -> {a1, "aiosuspend"}
                                            [] OTHER -> {}], All(0))}
=============================================================================

---------------------------- MODULE AbstractLock ----------------------------
(***************************************************************************)
(* What a program is promised of its mutexes: a thread gets one that no    *)
(* thread has, and has it until it gives it up itself.                     *)
(***************************************************************************)
CONSTANTS Mutexes, Threads, NoThread

VARIABLE has       \* the thread that has each mutex, as far as the program knows

Init == has = [m \in Mutexes |-> NoThread]

Acquire(t, m) == has[m] = NoThread /\ has' = [has EXCEPT ![m] = t]
Release(t, m) == has[m] = t /\ has' = [has EXCEPT ![m] = NoThread]

Next == \E t \in Threads, m \in Mutexes : Acquire(t, m) \/ Release(t, m)
Spec == Init /\ [][Next]_has
=============================================================================

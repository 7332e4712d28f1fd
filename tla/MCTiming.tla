------------------------------ MODULE MCTiming ------------------------------
(***************************************************************************)
(* A period of two seconds of three ticks each, and two threads.            *)
(***************************************************************************)
EXTENDS Timing, TLC

CONSTANTS t1, t2

TwoThreads == {t1, t2}
OneAlarm == {<<t1, 0>>}

\* Two threads that sleep; one that waits for signals of its timer; timers that come and go.
SomePrograms ==
  {t1 :> {"sleep", "usleep", "timedwait"} @@ t2 :> {"usleep", "timedwait", "pause"},
   t1 :> {"settime"} @@ t2 :> {"timedwait"},
   t1 :> {"abstime", "delete"} @@ t2 :> {"create", "pause"}}

At(sec, nsec) == [sec |-> sec, nsec |-> nsec]

\* Below a tick; a tick and a part of one; most of a period; more than a period.
SomeDelays == {At(0, 0), At(0, 3)}
SomeIntervals == {At(0, 0), At(1, 4)}
SomeLimits == {At(1, 0), At(3, 3)}
=============================================================================

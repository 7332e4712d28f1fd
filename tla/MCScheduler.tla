---------------------------- MODULE MCScheduler ----------------------------
(* Instances of Scheduler for TLC.                                         *)
EXTENDS Scheduler

\* Threads that sleep, wake, change priority, come and go.
ThreadOps == {"sleep", "wake", "yield", "param", "create", "exit", "fifo"}

\* Processes that start, exit, wait for their children, are stopped and continued.
JobOps == {"process", "exit", "signal", "waitchild", "stop", "cont"}

\* Round robin threads that sleep, wake and yield.
RoundRobinOps == {"create", "sleep", "wake", "yield"}

\* Threads that end.
ExitOps == {"create", "exit"}

\* The timer matches a slot between its two creating service calls.
UnreadyOps == {"create", "sleep", "wake", "unready"}
=============================================================================

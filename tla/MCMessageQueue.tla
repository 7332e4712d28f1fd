--------------------------- MODULE MCMessageQueue ---------------------------
(* Instances of MessageQueue for TLC: the mutex of the queue has a ceiling  *)
(* above the threads' priorities unless a scenario says otherwise.          *)
EXTENDS MessageQueue

CONSTANTS q1, c1, c2

CeilingDef == [m \in Mutexes |-> 1]

All(v) == [t \in Threads |-> v]
First(v, w) == [t \in Threads |-> IF t = 1 THEN v ELSE w]
With(p, b) == [program |-> p, base |-> b]

\* One sender and two receivers; two senders and a receiver, which has a time
\* limit and a higher priority or not; a sender that empties the queue, and a
\* receiver whose buffer is too small.
OneSender == With(First({"send"}, {"receive"}), All(0))
Urgent    == With(First({"receive", "timed"}, {"send", "urgent"}), First(1, 0))
Equal     == With(First({"receive"}, {"send"}), All(0))
Flushed   == With([t \in Threads |-> IF t = 1 THEN {"send", "flush"} ELSE IF t = 2 THEN {"receive"}
                                     ELSE {"receive", "small"}], All(0))
Disciplined == {OneSender, Urgent, Equal, Flushed}

\* Threads that send and receive, all of the priority of the ceiling.
AtCeiling == {With(All({"send", "receive"}), All(1))}

AnyStatus == {{"RDWR"}, {"RDWR", "LOOP", "NONBLOCK"}}
=============================================================================

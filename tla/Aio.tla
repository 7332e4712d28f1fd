-------------------------------- MODULE Aio --------------------------------
(***************************************************************************)
(* sys/aio/aio.c and sys/sysfs/devfs_aio.c: reads and writes that a driver *)
(* completes later, and threads that wait for some or all of theirs.  The  *)
(* driver is external: it serves a request at once, refuses it, or calls   *)
(* the callback of aio.c from an interrupt some time.                      *)
(***************************************************************************)
EXTENDS Kernel

CONSTANT Requests     \* the struct aiocb of the programs

VARIABLES
  tid,        \* async.tid: the thread that started a request, NoThread before that
  driver,     \* the requests in progress: async.buf is not NULL, the driver has them
  list,       \* sysfs_aio_suspend_t on a thread's stack: the requests it waits for
  onAll,      \* block_on_all, of the threads that wait for all of theirs
  suspended   \* SCHEDULER_TASK_FLAG_AIOSUSPEND

requests == <<tid, driver>>
waiting == <<list, onAll, suspended>>
aio == <<requests, waiting>>

\* The address of a thread's sysfs_aio_suspend_t.
Args(t) == <<"suspend", t>>

Finished(t, inProgress) ==
  IF t \in onAll THEN list[t] \cap inProgress = {} ELSE ~(list[t] \subseteq inProgress)

-----------------------------------------------------------------------------
(* The callback                                                            *)

\* May t, which started a, be woken?  For a thread that has left the call with its flag set
\* that depends on what is on its stack now.
Wakes(t, a, inProgress) ==
  IF t \notin suspended THEN {FALSE}
  ELSE IF call[t].op # "aiosuspend" THEN BOOLEAN
  ELSE IF t \in onAll THEN {list[t] \cap inProgress = {}} ELSE {a \in list[t]}

\* aio_sigevent asks for a signal; task 0 sends one to the current task later (Signal).
Sends(t) ==
  IF "sigevent" \notin program[t] THEN {FALSE} ELSE IF t \in exec THEN BOOLEAN ELSE {TRUE}

\* sysfs_aio_data_transfer_callback for a request of t, with what it leaves in progress; a
\* signal sent after the wake-up is the reason the thread sees.  Called from a service call,
\* it finds the block object of the caller cleared.
Callback(t, a, inProgress, caller) ==
  \E wakes \in Wakes(t, a, inProgress), sends \in Sends(t) :
    LET ws == IF wakes \/ sends THEN {t} ELSE {}
    IN /\ active' = active \cup ws
       /\ unblockType' = Put(unblockType, ws, IF sends THEN "SIGNAL" ELSE "AIO")
       /\ blockObject' = Put(blockObject, ws \cup caller, NULL)
       /\ wake' = wake \ ws
       /\ suspended' = suspended \ ws
       /\ UNCHANGED <<fixed, priority, list, onAll>>
       /\ IF ws = {} THEN UNCHANGED sched ELSE UpdateOnWake(priority[t])

\* The driver's interrupt, or its answer to the request of aio_cancel.
Complete(a) ==
  /\ a \in driver
  /\ driver' = driver \ {a}
  /\ Callback(tid[a], a, driver \ {a}, {})
  /\ UNCHANGED <<tid, call>>

aio_cancel(t, a) == Calls(t, "aiocancel") /\ Complete(a)

-----------------------------------------------------------------------------
(* Starting                                                                *)

\* data_transfer and svcall_device_data_transfer: in progress, or done or refused at once.
\* A program does not start a request that is in progress.
data_transfer(t, a) ==
  /\ a \notin driver
  /\ tid' = [tid EXCEPT ![a] = t]
  /\ \/ /\ driver' = driver \cup {a}
        /\ blockObject' = [blockObject EXCEPT ![t] = NULL]
        /\ UNCHANGED <<fixed, sched, active, unblockType, wake, priority, waiting>>
     \/ /\ driver' = driver
        /\ Callback(t, a, driver, {t})

aio_read(t, a) == Calls(t, "aio") /\ data_transfer(t, a) /\ UNCHANGED call

\* lio_listio starts the requests of a list one after the other ...
lio_listio(t, as) ==
  /\ Calls(t, "listio") /\ as # {} /\ as \cap driver = {}
  /\ Enter(t, "listio", as)
  /\ list' = [list EXCEPT ![t] = as]
  /\ onAll' = onAll \cup {t}
  /\ UNCHANGED <<kernel, requests, suspended>>

ListNext(t) ==
  /\ InCall(t, {"listio"})
  /\ \E a \in call[t].on : data_transfer(t, a) /\ Enter(t, "listio", call[t].on \ {a})

-----------------------------------------------------------------------------
(* Waiting                                                                 *)

\* Mutant: what has completed before the call is not looked at.
svcall_suspend_NoLook(t, isTimed) ==
  /\ UNCHANGED <<fixed, priority>>
  /\ suspended' = suspended \cup {t}
  /\ Block(t, Args(t), isTimed)
  /\ Enter(t, "aiosuspend", NULL)

\* The flag is set before it turns out that the limit has passed; such limits are only met
\* by programs with "expired".
svcall_suspend(t, isTimed) ==
  /\ IF Finished(t, driver)' THEN Return(t) /\ UNCHANGED <<kernel, suspended>>
     ELSE /\ UNCHANGED <<fixed, priority>>
          /\ suspended' = suspended \cup {t}
          /\ \/ Block(t, Args(t), isTimed)
             \/ /\ isTimed /\ "expired" \in program[t]
                /\ BlockExpired(t, Args(t)) /\ UNCHANGED unblockType
          /\ Enter(t, "aiosuspend", NULL)

\* ... and waits for all of them, or does not wait (LIO_NOWAIT).
ListSuspend(t) ==
  /\ InCall(t, {"listio"}) /\ call[t].on = {}
  /\ UNCHANGED <<requests, list, onAll>>
  /\ \/ svcall_suspend(t, FALSE)
     \/ Return(t) /\ UNCHANGED <<kernel, suspended>>

aio_suspend(t, as) ==
  /\ Calls(t, "aiosuspend") /\ as # {}
  /\ list' = [list EXCEPT ![t] = as]
  /\ onAll' = onAll \ {t}
  /\ UNCHANGED requests
  /\ svcall_suspend(t, TRUE) \/ svcall_suspend(t, FALSE)

\* suspend returns 0, EAGAIN or EINTR by the unblock type.
SuspendReturn(t) ==
  /\ InCall(t, {"aiosuspend"})
  /\ Return(t)
  /\ UNCHANGED <<kernel, aio>>

-----------------------------------------------------------------------------
AioInit ==
  /\ tid = [a \in Requests |-> NoThread] /\ driver = {}
  /\ list = [t \in Threads |-> {}] /\ onAll = {} /\ suspended = {}

AioStep(t) ==
  \/ \E a \in Requests \cap program[t] : aio_read(t, a) \/ aio_cancel(t, a)
  \/ \E as \in SUBSET (Requests \cap program[t]) : lio_listio(t, as) \/ aio_suspend(t, as)
  \/ ListNext(t) \/ ListSuspend(t) \/ SuspendReturn(t)

\* Anything that activates a thread clears its flag.
Deassert(ws) == suspended' = suspended \ ws /\ UNCHANGED <<requests, list, onAll>>

\* A thread sleeps in aio_suspend only while what it waits for is not there, whatever
\* completes between its calls and while it falls asleep; and when the call is about to
\* return 0, which it does unless a time limit or a signal woke it, it is there: one of the
\* requests, or all of them (lio_listio).
AioSuspended ==
  \A t \in Threads : call[t].op = "aiosuspend" =>
    IF t \in active THEN unblockType[t] \notin {"SLEEP", "SIGNAL"} => Finished(t, driver)
    ELSE ~Finished(t, driver)
=============================================================================

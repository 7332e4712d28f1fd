-------------------------- MODULE FifoDeviceProofs --------------------------
(***************************************************************************)
(* The drivers with a FIFO, for any number of threads and priorities, any   *)
(* programs, any size of the buffer and any lengths of the transfers: no    *)
(* driver keeps a pointer to the stack of a thread that has left its        *)
(* transfer; every byte is accounted for and readers get the bytes in order;*)
(* nobody sleeps through data or room; writers are told the truth.          *)
(***************************************************************************)
EXTENDS FifoDevice, FiniteSetTheorems, NaturalsInduction, WellFoundedInduction, TLAPS

\* Most leaves are first-order: Zenon is the default, and the leaves it does
\* not find say SMT.
USE Zenon

\* What clear_device_action asks of a driver: fifo.c takes back a write whatever the
\* caller's transfer is, so there readers get no signals.
SignalsSpareReaders ==
  \A s \in Scenarios : "fifo" \in Drivers[s] =>
    \A t \in Threads : "signal" \in s.program[t] => "read" \notin s.program[t]

Scenario == [program |-> program, base |-> base]

\* The arguments have their three fields; what a count is does not matter here.
IsTransfer(x) ==
  /\ x = [op |-> x.op, n |-> x.n, result |-> x.result]
  /\ x.op \in Transfers \cup {"none"}
  /\ x.op # "none" => x.n # 0

FifoTypeOK ==
  /\ Scenario \in Scenarios /\ driver \in Drivers[Scenario]
  /\ active \subseteq Threads /\ exec \subseteq active /\ wake = {}
  /\ priority \in [Threads -> Priorities] /\ curPrio \in Priorities
  /\ unblockType \in [Threads -> UnblockTypes]
  /\ call \in [Threads -> [op : {"none", "transfer", "cancel"}, on : {NULL}]]
  /\ handler \in [Transfers -> Threads \cup {NoThread}]
  /\ xfer = [t \in Threads |-> xfer[t]]
  /\ \A t \in Threads : IsTransfer(xfer[t])

\* A thread awake in a transfer that is not complete was woken by a signal.
AwakeInv ==
  \A t \in Threads : call[t].op = "transfer" /\ t \in active /\ xfer[t].result = 0
                     => unblockType[t] = "SIGNAL"

\* Who is sent signals, and who reads and writes.
ProgramInv ==
  \A t \in Threads :
    /\ unblockType[t] = "SIGNAL" \/ call[t].op = "cancel" => "signal" \in program[t]
    /\ call[t].op # "none" => xfer[t].op # "none" /\ xfer[t].op \in program[t]
    /\ driver \in Inputs => xfer[t].op # "write"

FifoInv == FifoTypeOK /\ AwakeInv /\ ProgramInv /\ NoDanglingTransfer

-----------------------------------------------------------------------------
(* Helpers                                                                 *)

LEMMA ConstantFacts ==
  /\ NoThread \notin Threads /\ 0 \in Priorities
  /\ \A n \in Lengths : n # 0
BY KernelAssumption, FifoDeviceAssumption, SMT DEF NoThread, Threads, Priorities

\* The kinds of driver of a scenario.
LEMMA DriverKinds ==
  ASSUME FifoTypeOK
  PROVE  driver \in {"fifo", "ffifo"} \cup Inputs
BY FifoDeviceAssumption DEF FifoTypeOK

\* What the scheduling functions leave behind.
LEMMA StoppedType ==
  ASSUME active' \subseteq Threads, UpdateOnStopped
  PROVE  exec' \subseteq active' /\ curPrio' \in Priorities
BY DEF UpdateOnStopped, Switch

LEMMA WakeType ==
  ASSUME exec \subseteq active, active \subseteq active', curPrio \in Priorities,
         NEW p \in Priorities, UpdateOnWake(p)
  PROVE  exec' \subseteq active' /\ curPrio' \in Priorities
BY DEF UpdateOnWake, Switch, sched

\* The arguments of w get the result v.
WithResult(w, v) == [xfer EXCEPT ![w].result = v]

\* An argument structure that gets a result keeps its other fields.
LEMMA ResultStep ==
  ASSUME FifoTypeOK, NEW w \in Threads, NEW v, xfer' = WithResult(w, v)
  PROVE  /\ xfer' = [t \in Threads |-> xfer'[t]]
         /\ \A t \in Threads : /\ IsTransfer(xfer'[t])
                               /\ xfer'[t].op = xfer[t].op /\ xfer'[t].n = xfer[t].n
                               /\ xfer'[t].result = IF t = w THEN v ELSE xfer[t].result
<1>1. DOMAIN xfer = Threads
  BY DEF FifoTypeOK
<1>2. xfer[w] = [op |-> xfer[w].op, n |-> xfer[w].n, result |-> xfer[w].result]
  BY DEF FifoTypeOK, IsTransfer
<1>3. [xfer[w] EXCEPT !.result = v] = [op |-> xfer[w].op, n |-> xfer[w].n, result |-> v]
  BY <1>2, SMT
<1>4. xfer' = [t \in Threads |-> IF t = w THEN [op |-> xfer[w].op, n |-> xfer[w].n, result |-> v]
                                 ELSE xfer[t]]
  BY <1>1, <1>3 DEF WithResult
<1>5. \A t \in Threads : xfer'[t] = IF t = w THEN [op |-> xfer[w].op, n |-> xfer[w].n, result |-> v]
                                    ELSE xfer[t]
  BY <1>4
<1>6. xfer' = [t \in Threads |-> xfer'[t]]
  BY <1>4
<1>7. \A t \in Threads : /\ xfer'[t].op = xfer[t].op /\ xfer'[t].n = xfer[t].n
                         /\ xfer'[t].result = IF t = w THEN v ELSE xfer[t].result
  BY <1>5, SMT
<1>8. \A t \in Threads : IsTransfer(xfer'[t])
  BY <1>5, SMT DEF FifoTypeOK, IsTransfer
<1> QED BY <1>6, <1>7, <1>8

\* The arguments of a thread are set up or given up.
LEMMA NewTransfer ==
  ASSUME FifoTypeOK, NEW u \in Threads, NEW x, IsTransfer(x), xfer' = [xfer EXCEPT ![u] = x]
  PROVE  /\ xfer' = [t \in Threads |-> xfer'[t]]
         /\ \A t \in Threads : IsTransfer(xfer'[t])
         /\ \A t \in Threads : xfer'[t] = IF t = u THEN x ELSE xfer[t]
<1>1. DOMAIN xfer = Threads
  BY DEF FifoTypeOK
<1>2. xfer' = [t \in Threads |-> IF t = u THEN x ELSE xfer[t]]
  BY <1>1
<1>3. \A t \in Threads : xfer'[t] = IF t = u THEN x ELSE xfer[t]
  BY <1>2
<1>4. \A t \in Threads : IsTransfer(xfer'[t])
  BY <1>3 DEF FifoTypeOK
<1> QED BY <1>2, <1>3, <1>4

\* A handler that is set points to a thread.
LEMMA HandlerIsThread ==
  ASSUME FifoTypeOK, NEW o \in Transfers, handler[o] # NoThread
  PROVE  handler[o] \in Threads
BY DEF FifoTypeOK

LEMMA NoTransferType == IsTransfer(NoTransfer) /\ NoTransfer.op = "none"
BY DEF IsTransfer, NoTransfer

-----------------------------------------------------------------------------
(* The kinds of step                                                       *)

\* A waiting transfer gets its result, which is not 0, and its thread is woken.
LEMMA CompleteStep ==
  ASSUME FifoInv, NEW op \in Transfers, NEW w \in Threads, w = handler[op], NEW v, v # 0,
         xfer' = WithResult(w, v),
         handler' = [handler EXCEPT ![op] = NoThread],
         AssertActive({w}, "TRANSFER"), UpdateOnWake(priority[w]),
         UNCHANGED <<fixed, priority, call, driver>>
  PROVE  FifoInv'
<1>1. /\ active' = active \cup {w} /\ wake' = wake \ {w}
      /\ unblockType' = [t \in Threads |-> IF t = w THEN "TRANSFER" ELSE unblockType[t]]
      /\ UNCHANGED <<program, base, priority, call, driver>>
  BY DEF AssertActive, Put, fixed
<1>2. /\ xfer' = [t \in Threads |-> xfer'[t]]
      /\ \A t \in Threads : /\ IsTransfer(xfer'[t])
                            /\ xfer'[t].op = xfer[t].op /\ xfer'[t].n = xfer[t].n
                            /\ xfer'[t].result = IF t = w THEN v ELSE xfer[t].result
  <2>1. FifoTypeOK
    BY DEF FifoInv
  <2> QED BY <2>1, ResultStep
<1>3. exec' \subseteq active' /\ curPrio' \in Priorities
  <2>1. exec \subseteq active /\ active \subseteq active' /\ curPrio \in Priorities
        /\ priority[w] \in Priorities
    BY <1>1 DEF FifoInv, FifoTypeOK
  <2> QED BY <2>1, WakeType
<1>4. handler' \in [Transfers -> Threads \cup {NoThread}]
  BY DEF FifoInv, FifoTypeOK
<1>5. unblockType' \in [Threads -> UnblockTypes]
  BY <1>1 DEF FifoInv, FifoTypeOK, UnblockTypes
<1>6. FifoTypeOK'
  BY <1>1, <1>2, <1>3, <1>4, <1>5, SMT DEF FifoInv, FifoTypeOK, Scenario
<1>7. AwakeInv'
  BY <1>1, <1>2, SMT DEF FifoInv, AwakeInv
<1>8. ProgramInv'
  BY <1>1, <1>2, SMT DEF FifoInv, ProgramInv
<1>9. NoDanglingTransfer'
  <2>1. \A o \in Transfers : handler'[o] = IF o = op THEN NoThread ELSE handler[o]
    BY DEF FifoInv, FifoTypeOK
  <2>2. \A o \in Transfers : handler[o] = w => o = op
    BY ConstantFacts, SMT DEF FifoInv, NoDanglingTransfer
  <2>3. \A o \in Transfers : handler'[o] # NoThread => handler'[o] = handler[o]
                                                       /\ handler[o] \in Threads \ {w}
    BY <2>1, <2>2 DEF FifoInv, FifoTypeOK
  <2> QED BY <1>1, <1>2, <2>3, SMT DEF FifoInv, NoDanglingTransfer
<1> QED BY <1>6, <1>7, <1>8, <1>9 DEF FifoInv

\* A step that leaves the transfers alone or forgets some of them.
LEMMA ForgetStep ==
  ASSUME FifoInv, NEW ops \in SUBSET Transfers,
         handler' = [op \in Transfers |-> IF op \in ops THEN NoThread ELSE handler[op]],
         UNCHANGED <<kernel, call, driver, xfer>>
  PROVE  FifoInv'
<1>1. UNCHANGED <<program, base, exec, curPrio, active, unblockType, wake, priority,
                  call, driver, xfer>>
  BY DEF kernel, fixed, sched, block
<1>2. FifoTypeOK'
  BY <1>1 DEF FifoInv, FifoTypeOK, Scenario
<1>3. AwakeInv' /\ ProgramInv'
  BY <1>1 DEF FifoInv, AwakeInv, ProgramInv
<1>4. NoDanglingTransfer'
  BY <1>1 DEF FifoInv, NoDanglingTransfer
<1> QED BY <1>2, <1>3, <1>4 DEF FifoInv

LEMMA NothingStep ==
  ASSUME FifoInv, NothingToComplete, UNCHANGED driver
  PROVE  FifoInv'
<1>1. handler' = [op \in Transfers |-> IF op \in {} THEN NoThread ELSE handler[op]]
  BY DEF NothingToComplete, FifoInv, FifoTypeOK
<1>2. UNCHANGED <<kernel, call, driver, xfer>>
  BY DEF NothingToComplete
<1>3. {} \in SUBSET Transfers
  OBVIOUS
<1> QED BY <1>1, <1>2, <1>3, ForgetStep

\* The driver completes a transfer, with a count that may be 0 or with an error.
LEMMA CompletionStep ==
  ASSUME FifoInv, NEW op \in Transfers, handler[op] # NoThread, NEW count,
         Complete(op, count), UNCHANGED driver
  PROVE  FifoInv'
<1> DEFINE w == handler[op]
           v == IF count = 0 THEN xfer[w].n ELSE count
<1>1. w \in Threads
  BY DEF FifoInv, FifoTypeOK
<1>2. xfer[w].n # 0
  BY <1>1 DEF FifoInv, NoDanglingTransfer, FifoTypeOK, IsTransfer, Transfers
<1>3. v # 0
  BY <1>2
<1>4. /\ xfer' = WithResult(w, v)
      /\ handler' = [handler EXCEPT ![op] = NoThread]
      /\ AssertActive({w}, "TRANSFER") /\ UpdateOnWake(priority[w])
      /\ UNCHANGED <<fixed, priority, call, driver>>
  BY DEF Complete, WithResult
<1> HIDE DEF v
<1> QED BY <1>1, <1>3, <1>4, CompleteStep

LEMMA DataReceivedStep ==
  ASSUME FifoInv, NEW r, DataReceived(r), UNCHANGED driver
  PROVE  FifoInv'
<1>1. CASE NothingToComplete
  BY <1>1, NothingStep
<1>2. ASSUME NEW k, handler["read"] # NoThread, Complete("read", k) PROVE FifoInv'
  BY <1>2, CompletionStep DEF Transfers
<1> QED BY <1>1, <1>2 DEF DataReceived

LEMMA DataTransmittedStep ==
  ASSUME FifoInv, NEW r, NEW gone, DataTransmitted(r, gone), UNCHANGED driver
  PROVE  FifoInv'
<1>1. CASE NothingToComplete
  BY <1>1, NothingStep
<1>2. ASSUME NEW k, handler["write"] # NoThread, Complete("write", k) PROVE FifoInv'
  BY <1>2, CompletionStep DEF Transfers
<1> QED BY <1>1, <1>2 DEF DataTransmitted

\* A call finds nothing to do: its thread sleeps, and the driver keeps its arguments.
LEMMA SleepStep ==
  ASSUME FifoInv, NEW t \in Threads, NEW op \in Transfers, NEW n \in Lengths,
         Calls(t, op), handler[op] = NoThread, op = "write" => driver \notin Inputs,
         SleepInTransfer(t, op, n), UNCHANGED driver
  PROVE  FifoInv'
<1> DEFINE x == [op |-> op, n |-> n, result |-> 0]
<1>1. /\ t \in exec /\ call[t] = Idle /\ op \in program[t]
      /\ active' = active \ {t} /\ UpdateOnStopped
      /\ handler' = [handler EXCEPT ![op] = t]
      /\ xfer' = [xfer EXCEPT ![t] = x]
      /\ call' = [call EXCEPT ![t] = [op |-> "transfer", on |-> NULL]]
      /\ UNCHANGED <<unblockType, wake, program, base, priority, driver>>
  BY DEF Calls, SleepInTransfer, Enter, fixed
<1>2. IsTransfer(x) /\ x.op = op /\ x.result = 0 /\ op # "none"
  BY ConstantFacts DEF IsTransfer, Transfers
<1> HIDE DEF x
<1>3. /\ xfer' = [u \in Threads |-> xfer'[u]]
      /\ \A u \in Threads : IsTransfer(xfer'[u]) /\ xfer'[u] = IF u = t THEN x ELSE xfer[u]
  BY <1>1, <1>2, NewTransfer DEF FifoInv
<1>4. exec' \subseteq active' /\ curPrio' \in Priorities
  BY <1>1, StoppedType DEF FifoInv, FifoTypeOK
<1>5. /\ call' \in [Threads -> [op : {"none", "transfer", "cancel"}, on : {NULL}]]
      /\ \A u \in Threads : call'[u] = IF u = t THEN [op |-> "transfer", on |-> NULL] ELSE call[u]
  BY <1>1 DEF FifoInv, FifoTypeOK
<1>6. /\ handler' \in [Transfers -> Threads \cup {NoThread}]
      /\ \A o \in Transfers : handler'[o] = IF o = op THEN t ELSE handler[o]
  BY <1>1 DEF FifoInv, FifoTypeOK
<1>7. FifoTypeOK'
  BY <1>1, <1>3, <1>4, <1>5, <1>6 DEF FifoInv, FifoTypeOK, Scenario
<1>8. AwakeInv'
  BY <1>1, <1>3, <1>5 DEF FifoInv, AwakeInv
<1>9. ProgramInv'
  BY <1>1, <1>2, <1>3, <1>5, SMT DEF FifoInv, ProgramInv, Idle
<1>10. NoDanglingTransfer'
  <2>1. \A o \in Transfers : handler[o] # t
    BY <1>1, ConstantFacts, SMT DEF FifoInv, NoDanglingTransfer, Idle
  <2>2. \A o \in Transfers : handler'[o] # NoThread =>
           (o = op /\ handler'[o] = t)
           \/ (handler'[o] = handler[o] /\ handler[o] \in Threads \ {t})
    BY <1>6, <2>1 DEF FifoInv, FifoTypeOK
  <2> QED BY <1>2, <1>3, <1>5, <2>2, SMT DEF FifoInv, NoDanglingTransfer
<1> QED BY <1>7, <1>8, <1>9, <1>10 DEF FifoInv

\* devfs_data_transfer returns only when the driver has let go of its arguments: with a
\* result, or without a signal, which is not possible before the result.
LEMMA ReturnStep ==
  ASSUME FifoInv, NEW t \in Threads, TransferReturn(t)
  PROVE  FifoInv'
<1>1. /\ t \in exec /\ t \in active /\ call[t].op = "transfer"
      /\ UNCHANGED <<program, base, exec, curPrio, active, unblockType, wake, priority,
                     driver, handler>>
  BY DEF TransferReturn, InCall, FifoInv, FifoTypeOK, kernel, fixed, sched, block
<1>2. CASE unblockType[t] = "SIGNAL" /\ xfer[t].result = 0
  <2>1. UNCHANGED xfer /\ call' = [call EXCEPT ![t] = [op |-> "cancel", on |-> NULL]]
    BY <1>2 DEF TransferReturn, Enter
  <2>2. /\ call' \in [Threads -> [op : {"none", "transfer", "cancel"}, on : {NULL}]]
        /\ \A u \in Threads : call'[u] = IF u = t THEN [op |-> "cancel", on |-> NULL] ELSE call[u]
    BY <2>1 DEF FifoInv, FifoTypeOK
  <2>3. FifoTypeOK'
    BY <1>1, <2>1, <2>2 DEF FifoInv, FifoTypeOK, Scenario
  <2>4. AwakeInv'
    BY <1>1, <2>1, <2>2 DEF FifoInv, AwakeInv
  <2>5. ProgramInv'
    BY <1>1, <1>2, <2>1, <2>2 DEF FifoInv, ProgramInv
  <2>6. NoDanglingTransfer'
    <3>1. \A o \in Transfers : handler[o] # NoThread => handler[o] \in Threads
      BY HandlerIsThread DEF FifoInv
    <3> QED BY <1>1, <2>1, <2>2, <3>1 DEF FifoInv, NoDanglingTransfer
  <2> QED BY <2>3, <2>4, <2>5, <2>6 DEF FifoInv
<1>3. CASE ~(unblockType[t] = "SIGNAL" /\ xfer[t].result = 0)
  <2>1. xfer' = [xfer EXCEPT ![t] = NoTransfer] /\ call' = [call EXCEPT ![t] = Idle]
    BY <1>3 DEF TransferReturn, Return
  <2>2. /\ call' \in [Threads -> [op : {"none", "transfer", "cancel"}, on : {NULL}]]
        /\ \A u \in Threads : call'[u] = IF u = t THEN Idle ELSE call[u]
    BY <2>1 DEF FifoInv, FifoTypeOK, Idle
  <2>3. /\ xfer' = [u \in Threads |-> xfer'[u]]
        /\ \A u \in Threads : IsTransfer(xfer'[u])
                              /\ xfer'[u] = IF u = t THEN NoTransfer ELSE xfer[u]
    BY <2>1, NoTransferType, NewTransfer DEF FifoInv
  <2>4. FifoTypeOK'
    BY <1>1, <2>2, <2>3 DEF FifoInv, FifoTypeOK, Scenario
  <2>5. AwakeInv'
    BY <1>1, <2>2, <2>3, SMT DEF FifoInv, AwakeInv, Idle
  <2>6. ProgramInv'
    BY <1>1, <2>2, <2>3, NoTransferType, SMT DEF FifoInv, ProgramInv, Idle
  <2>7. xfer[t].result # 0
    BY <1>1, <1>3 DEF FifoInv, AwakeInv
  <2>8. \A o \in Transfers : handler[o] # NoThread => handler[o] \in Threads \ {t}
    <3>1. \A o \in Transfers : handler[o] # NoThread => handler[o] \in Threads
      BY HandlerIsThread DEF FifoInv
    <3> QED BY <2>7, <3>1 DEF FifoInv, NoDanglingTransfer
  <2>9. NoDanglingTransfer'
    BY <1>1, <2>2, <2>3, <2>8, SMT DEF FifoInv, NoDanglingTransfer
  <2> QED BY <2>4, <2>5, <2>6, <2>9 DEF FifoInv
<1> QED BY <1>2, <1>3

\* An interrupted transfer is taken back: the request clears the handler that could still
\* point to it.
LEMMA ClearStep ==
  ASSUME FifoInv, SignalsSpareReaders, NEW t \in Threads, ClearDeviceAction(t)
  PROVE  FifoInv'
<1> DEFINE op == Cancels(xfer[t].op)
           w == handler[op]
<1>1. /\ t \in exec /\ t \in active /\ call[t].op = "cancel"
      /\ handler' = [handler EXCEPT ![op] = NoThread]
      /\ call' = [call EXCEPT ![t] = Idle]
      /\ UNCHANGED driver
  BY DEF ClearDeviceAction, InCall, Return, FifoInv, FifoTypeOK
<1>2. "signal" \in program[t] /\ xfer[t].op \in Transfers /\ xfer[t].op \in program[t]
  BY <1>1 DEF FifoInv, ProgramInv, FifoTypeOK, IsTransfer
<1>3. op = xfer[t].op
  <2>1. CASE driver = "ffifo"
    BY <2>1 DEF Cancels, FfifoCancels
  <2>2. CASE driver \in Inputs
    <3>1. xfer[t].op = "read"
      BY <1>2, <2>2 DEF FifoInv, ProgramInv, Transfers
    <3>2. driver # "fifo" /\ driver # "ffifo"
      BY <2>2 DEF Inputs
    <3> QED BY <3>1, <3>2 DEF Cancels, InputCancels
  <2>3. CASE driver = "fifo"
    <3>1. Scenario \in Scenarios /\ "fifo" \in Drivers[Scenario] /\ Scenario.program = program
      BY <2>3 DEF FifoInv, FifoTypeOK, Scenario
    <3>2. xfer[t].op # "read"
      BY <1>2, <3>1 DEF SignalsSpareReaders
    <3> QED BY <1>2, <2>3, <3>2 DEF Cancels, FifoCancels, Transfers
  <2> QED BY <2>1, <2>2, <2>3, DriverKinds DEF FifoInv
<1>4. op \in Transfers
  BY <1>2, <1>3
<1> HIDE DEF op
<1>5. /\ handler' \in [Transfers -> Threads \cup {NoThread}]
      /\ \A o \in Transfers : handler'[o] = IF o = op THEN NoThread ELSE handler[o]
  BY <1>1, <1>4 DEF FifoInv, FifoTypeOK
<1>6. /\ call' \in [Threads -> [op : {"none", "transfer", "cancel"}, on : {NULL}]]
      /\ \A u \in Threads : call'[u] = IF u = t THEN Idle ELSE call[u]
  BY <1>1 DEF FifoInv, FifoTypeOK, Idle
<1>7. \A o \in Transfers : handler'[o] # NoThread =>
         handler'[o] = handler[o] /\ handler[o] \in Threads \ {t, w}
  <2>1. \A o \in Transfers : handler[o] # NoThread => handler[o] \in Threads
    BY HandlerIsThread DEF FifoInv
  <2>2. \A o \in Transfers : handler[o] # NoThread /\ handler[o] = t => o = op
    BY <1>3 DEF FifoInv, NoDanglingTransfer
  <2>3. \A o \in Transfers : handler[o] # NoThread /\ handler[o] = w => o = op
    BY <1>4 DEF FifoInv, NoDanglingTransfer
  <2> QED BY <1>5, <2>1, <2>2, <2>3
<1>8. CASE w = NoThread
  <2>1. /\ xfer' = [xfer EXCEPT ![t] = NoTransfer]
        /\ UNCHANGED <<program, base, exec, curPrio, active, unblockType, wake, priority>>
    BY <1>8 DEF ClearDeviceAction, kernel, fixed, sched, block, op
  <2>2. /\ xfer' = [u \in Threads |-> xfer'[u]]
        /\ \A u \in Threads : IsTransfer(xfer'[u])
                              /\ xfer'[u] = IF u = t THEN NoTransfer ELSE xfer[u]
    BY <2>1, NoTransferType, NewTransfer DEF FifoInv
  <2>3. FifoTypeOK'
    BY <1>1, <1>5, <1>6, <2>1, <2>2 DEF FifoInv, FifoTypeOK, Scenario
  <2>4. AwakeInv' /\ ProgramInv'
    BY <1>1, <1>6, <2>1, <2>2, NoTransferType, SMT DEF FifoInv, AwakeInv, ProgramInv, Idle
  <2>5. NoDanglingTransfer'
    BY <1>6, <1>7, <2>2, SMT DEF FifoInv, NoDanglingTransfer
  <2> QED BY <2>3, <2>4, <2>5 DEF FifoInv
<1>9. CASE w # NoThread
  <2> DEFINE y == [xfer EXCEPT ![w].result = Failed]
  <2>1. w \in Threads
    BY <1>4, <1>9 DEF FifoInv, FifoTypeOK
  <2>2. /\ xfer' = [xfer EXCEPT ![w].result = Failed, ![t] = NoTransfer]
        /\ AssertActive({w}, "TRANSFER") /\ UpdateOnWake(priority[w])
        /\ UNCHANGED <<program, base, priority>>
    BY <1>9 DEF ClearDeviceAction, fixed, op
  <2>3. /\ active' = active \cup {w} /\ wake' = wake \ {w}
        /\ unblockType' = [u \in Threads |-> IF u = w THEN "TRANSFER" ELSE unblockType[u]]
    BY <2>2 DEF AssertActive, Put
  <2>4. exec' \subseteq active' /\ curPrio' \in Priorities
    <3>1. exec \subseteq active /\ active \subseteq active' /\ curPrio \in Priorities
          /\ priority[w] \in Priorities
      BY <2>1, <2>3 DEF FifoInv, FifoTypeOK
    <3> QED BY <2>2, <3>1, WakeType
  <2>5. /\ xfer' = [u \in Threads |-> xfer'[u]]
        /\ \A u \in Threads :
             xfer'[u] = IF u = t THEN NoTransfer
                        ELSE IF u = w THEN [op |-> xfer[w].op, n |-> xfer[w].n, result |-> Failed]
                        ELSE xfer[u]
    <3>1. DOMAIN xfer = Threads
      BY DEF FifoInv, FifoTypeOK
    <3>2. xfer[w] = [op |-> xfer[w].op, n |-> xfer[w].n, result |-> xfer[w].result]
      BY <2>1 DEF FifoInv, FifoTypeOK, IsTransfer
    <3>3. [xfer[w] EXCEPT !.result = Failed]
            = [op |-> xfer[w].op, n |-> xfer[w].n, result |-> Failed]
      BY <3>2, SMT
    <3>4. y = [u \in Threads |->
                 IF u = w THEN [op |-> xfer[w].op, n |-> xfer[w].n, result |-> Failed] ELSE xfer[u]]
      BY <3>1, <3>3
    <3>5. xfer' = [y EXCEPT ![t] = NoTransfer]
      BY <2>2
    <3> HIDE DEF y
    <3> QED BY <3>4, <3>5
  <2>6. \A u \in Threads : IsTransfer(xfer'[u])
    BY <2>5, NoTransferType, SMT DEF FifoInv, FifoTypeOK, IsTransfer
  <2>7. FifoTypeOK'
    <3>1. unblockType' \in [Threads -> UnblockTypes]
      BY <2>3 DEF FifoInv, FifoTypeOK, UnblockTypes
    <3> QED BY <1>1, <1>5, <1>6, <2>1, <2>2, <2>3, <2>4, <2>5, <2>6, <3>1, SMT DEF FifoInv,
               FifoTypeOK, Scenario

  <2>8. AwakeInv'
    BY <1>1, <1>6, <2>3, <2>5, SMT DEF FifoInv, AwakeInv, Idle, Failed
  <2>9. ProgramInv'
    <3>1. \A u \in Threads : /\ u # t => xfer'[u].op = xfer[u].op /\ call'[u] = call[u]
                             /\ u = t => xfer'[u].op = "none" /\ call'[u].op = "none"
      BY <1>6, <2>5, NoTransferType, SMT DEF Idle
    <3>2. \A u \in Threads : unblockType'[u] = "SIGNAL" => unblockType[u] = "SIGNAL"
      BY <2>3
    <3>3. UNCHANGED <<program, driver>>
      BY <1>1, <2>2
    <3>4. ASSUME NEW u \in Threads, u # t
          PROVE  /\ unblockType'[u] = "SIGNAL" \/ call'[u].op = "cancel"
                    => "signal" \in program[u]
                 /\ call'[u].op # "none" => xfer'[u].op # "none" /\ xfer'[u].op \in program[u]
                 /\ driver \in Inputs => xfer'[u].op # "write"
      BY <3>1, <3>2, <3>4 DEF FifoInv, ProgramInv
    <3> QED BY <1>2, <3>1, <3>2, <3>3, <3>4 DEF ProgramInv
  <2>10. NoDanglingTransfer'
    BY <1>6, <1>7, <2>5, SMT DEF FifoInv, NoDanglingTransfer
  <2> QED BY <2>7, <2>8, <2>9, <2>10 DEF FifoInv
<1> QED BY <1>8, <1>9

\* Signals, pause and the rounds of the scheduler; nobody waits with a time limit.
LEMMA KernelKeeps ==
  ASSUME FifoInv, KernelStep, UNCHANGED device
  PROVE  FifoInv'
<1>1. UNCHANGED <<driver, handler, xfer, call>>
  BY DEF device, KernelStep
<1>2. ASSUME FifoTypeOK', UNCHANGED program,
             \A t \in Threads : t \in active' => t \in active \/ unblockType'[t] = "SIGNAL",
             \A t \in Threads : unblockType'[t] = unblockType[t]
                                \/ (unblockType'[t] = "SIGNAL" /\ "signal" \in program[t])
      PROVE  FifoInv'
  <2>1. AwakeInv'
    BY <1>1, <1>2 DEF FifoInv, AwakeInv
  <2>2. ProgramInv'
    BY <1>1, <1>2 DEF FifoInv, ProgramInv
  <2>3. NoDanglingTransfer'
    BY <1>1 DEF FifoInv, NoDanglingTransfer
  <2> QED BY <1>2, <2>1, <2>2, <2>3 DEF FifoInv
<1>3. CASE RoundEnd
  <2>1. UNCHANGED <<program, base, curPrio, active, unblockType, wake, priority>>
        /\ exec' \subseteq active
    BY <1>3 DEF RoundEnd, fixed, block
  <2>2. FifoTypeOK'
    BY <1>1, <2>1 DEF FifoInv, FifoTypeOK, Scenario
  <2> QED BY <1>2, <2>1, <2>2
<1>4. ASSUME NEW ws \in SUBSET Threads, TimerMatch(ws) PROVE FALSE
  BY <1>4 DEF TimerMatch, FifoInv, FifoTypeOK
<1>5. ASSUME NEW t \in Threads, Signal(t) PROVE FifoInv'
  <2>1. /\ "signal" \in program[t] /\ active' = active \cup {t} /\ wake' = wake \ {t}
        /\ unblockType' = [u \in Threads |-> IF u = t THEN "SIGNAL" ELSE unblockType[u]]
        /\ UNCHANGED <<program, base, priority>> /\ UpdateOnWake(priority[t])
    BY <1>5 DEF Signal, AssertActive, Put, fixed
  <2>2. exec' \subseteq active' /\ curPrio' \in Priorities
    <3>1. exec \subseteq active /\ active \subseteq active' /\ curPrio \in Priorities
          /\ priority[t] \in Priorities
      BY <2>1 DEF FifoInv, FifoTypeOK
    <3> QED BY <2>1, <3>1, WakeType
  <2>3. unblockType' \in [Threads -> UnblockTypes]
    BY <2>1 DEF FifoInv, FifoTypeOK, UnblockTypes
  <2>4. FifoTypeOK'
    BY <1>1, <2>1, <2>2, <2>3 DEF FifoInv, FifoTypeOK, Scenario
  <2> QED BY <1>2, <2>1, <2>4
<1>6. ASSUME NEW t \in Threads, SignalWait(t) PROVE FifoInv'
  <2>1. /\ active' = active \ {t} /\ UpdateOnStopped
        /\ UNCHANGED <<program, base, unblockType, wake, priority>>
    BY <1>6 DEF SignalWait, fixed
  <2>2. exec' \subseteq active' /\ curPrio' \in Priorities
    BY <2>1, StoppedType DEF FifoInv, FifoTypeOK
  <2>3. FifoTypeOK'
    BY <1>1, <2>1, <2>2 DEF FifoInv, FifoTypeOK, Scenario
  <2> QED BY <1>2, <2>1, <2>3
<1> QED BY <1>3, <1>4, <1>5, <1>6 DEF KernelStep

\* Requests that empty the buffer.
LEMMA ForgetKeeps ==
  ASSUME FifoInv, NEW ops \in SUBSET Transfers, Forget(ops)
  PROVE  FifoInv'
BY ForgetStep DEF Forget

LEMMA FlushReadKeeps ==
  ASSUME FifoInv, FlushRead
  PROVE  FifoInv'
<1>1. CASE NothingToComplete
  BY <1>1, NothingStep DEF FlushRead
<1>2. CASE handler["read"] # NoThread /\ Complete("read", Failed)
  BY <1>2, CompletionStep DEF FlushRead, Transfers
<1> QED BY <1>1, <1>2 DEF FlushRead

\* read() and write(), and the interrupts that bring data.
LEMMA ReadKeeps ==
  ASSUME FifoInv, NEW t \in Threads, NEW n \in Lengths, NEW nb \in BOOLEAN, Read(t, n, nb)
  PROVE  FifoInv'
<1>1. CASE SleepInTransfer(t, "read", n)
  BY <1>1, SleepStep DEF Read, Transfers
<1>2. ASSUME NEW r, DataTransmitted(r, {}) PROVE FifoInv'
  BY <1>2, DataTransmittedStep DEF Read
<1> QED BY <1>1, <1>2 DEF Read

LEMMA WriteKeeps ==
  ASSUME FifoInv, NEW t \in Threads, NEW n \in Lengths, NEW nb \in BOOLEAN, Write(t, n, nb)
  PROVE  FifoInv'
<1>1. CASE SleepInTransfer(t, "write", n)
  BY <1>1, SleepStep DEF Write, Transfers
<1>2. ASSUME NEW r, DataReceived(r) PROVE FifoInv'
  BY <1>2, DataReceivedStep DEF Write
<1> QED BY <1>1, <1>2 DEF Write

LEMMA ArriveKeeps ==
  ASSUME FifoInv, NEW k, Arrive(k)
  PROVE  FifoInv'
BY DataReceivedStep DEF Arrive

LEMMA SetAttrKeeps ==
  ASSUME FifoInv, NEW t, NEW blocks, SetAttr(t, blocks)
  PROVE  FifoInv'
<1>1. CASE DataTransmitted(ring, {})
  BY <1>1, DataTransmittedStep DEF SetAttr
<1>2. CASE NothingToComplete
  BY <1>2, NothingStep DEF SetAttr
<1> QED BY <1>1, <1>2 DEF SetAttr

-----------------------------------------------------------------------------
(* The theorem                                                             *)

LEMMA FifoInvInit == FifoDeviceInit => FifoInv
<1> SUFFICES ASSUME FifoDeviceInit PROVE FifoInv
  OBVIOUS
<1>1. PICK s \in Scenarios : program = s.program /\ base = s.base
  BY DEF FifoDeviceInit, KernelInit
<1>2. Scenario = s /\ base \in [Threads -> Priorities]
  BY <1>1, KernelAssumption DEF Scenario
<1>3. /\ active = Threads /\ exec \subseteq active /\ wake = {} /\ priority = base
      /\ curPrio \in Priorities /\ driver \in Drivers[Scenario]
      /\ unblockType = [t \in Threads |-> "NONE"] /\ call = [t \in Threads |-> Idle]
      /\ handler = [op \in Transfers |-> NoThread] /\ xfer = [t \in Threads |-> NoTransfer]
  BY DEF FifoDeviceInit, KernelInit, Scenario
<1>4. FifoTypeOK
  BY <1>2, <1>3, NoTransferType DEF FifoTypeOK, UnblockTypes, Idle
<1>5. AwakeInv /\ ProgramInv
  BY <1>3, NoTransferType DEF AwakeInv, ProgramInv, Idle
<1>6. NoDanglingTransfer
  BY <1>3 DEF NoDanglingTransfer
<1> QED BY <1>4, <1>5, <1>6 DEF FifoInv

LEMMA FifoInvNext ==
  ASSUME FifoInv, SignalsSpareReaders, [FifoNext]_fifoVars
  PROVE  FifoInv'
<1>1. CASE UNCHANGED fifoVars
  <2>1. NothingToComplete /\ UNCHANGED driver
    BY <1>1 DEF fifoVars, device, NothingToComplete
  <2> QED BY <2>1, NothingStep
<1>2. CASE KernelStep /\ UNCHANGED device
  BY <1>2, KernelKeeps
<1>3. ASSUME NEW k \in Lengths, UartDataReceived(k) \/ UsbDataReceived(k) \/ EventDataReady(k)
      PROVE  FifoInv'
  BY <1>3, ArriveKeeps DEF UartDataReceived, UsbDataReceived, EventDataReady
<1>4. ASSUME NEW t \in Threads, FifoStep(t) PROVE FifoInv'
  <2>1. ASSUME NEW n \in Lengths, NEW nb \in BOOLEAN, Read(t, n, nb) \/ Write(t, n, nb)
        PROVE  FifoInv'
    BY <2>1, ReadKeeps, WriteKeeps
  <2>2. CASE TransferReturn(t)
    BY <2>2, ReturnStep
  <2>3. CASE ClearDeviceAction(t)
    BY <2>3, ClearStep
  <2>4. CASE FifoFlush(t)
    BY <2>4, DataTransmittedStep DEF FifoFlush
  <2>5. CASE FifoInit(t) \/ UartIoctl(t)
    BY <2>5, ForgetKeeps DEF FifoInit, UartIoctl, Transfers
  <2>6. CASE UsbIoctl(t) \/ DeviceFifoIoctl(t)
    BY <2>6, ForgetKeeps, FlushReadKeeps DEF UsbIoctl, DeviceFifoIoctl
  <2>7. ASSUME NEW b \in BOOLEAN, SetAttr(t, b) PROVE FifoInv'
    BY <2>7, SetAttrKeeps
  <2> QED BY <1>4, <2>1, <2>2, <2>3, <2>4, <2>5, <2>6, <2>7 DEF FifoStep
<1> QED BY <1>1, <1>2, <1>3, <1>4 DEF FifoNext

\* The driver of a FIFO points at the arguments of a read or a write only while its thread
\* is in devfs_data_transfer, through signals that interrupt transfers, completions that
\* race the request to cancel, flushes and initialisations; in fifo.c as long as readers
\* get no signals.
THEOREM NoDriverDangles == ASSUME SignalsSpareReaders PROVE FifoSpec => []NoDanglingTransfer
<1>1. FifoInv /\ [FifoNext]_fifoVars => FifoInv'
  BY FifoInvNext
<1>2. FifoInv => NoDanglingTransfer
  BY DEF FifoInv
<1> QED BY <1>1, <1>2, FifoInvInit, PTL DEF FifoSpec

-----------------------------------------------------------------------------
(* The ring buffer                                                         *)

\* Induction over the natural numbers, for a set in place of a predicate.
LEMMA SetInduction ==
  ASSUME NEW S, 0 \in S, \A n \in Nat : n \in S => n + 1 \in S
  PROVE  Nat \subseteq S
<1> SUFFICES ASSUME NEW m \in Nat \ S PROVE FALSE
  OBVIOUS
<1>1. PICK x \in Nat \ S : \A y \in Nat \ S : ~(<<y, x>> \in OpToRel(<, Nat))
  BY NatLessThanWellFounded, WFMin
<1>2. \A y \in Nat \ S : ~(y < x)
  BY <1>1 DEF OpToRel
<1>3. x # 0
  OBVIOUS
<1>4. x - 1 \in Nat /\ (x - 1) + 1 = x /\ x - 1 < x
  BY <1>3, SMT
<1>5. x - 1 \in S
  BY <1>2, <1>4
<1> QED BY <1>4, <1>5

\* The indices of the buffer, and the rings: the tail may be Size.
Places == 0..Size - 1
Rings == [buffer : [Places -> Int], head : Places, tail : 0..Size]

\* Indices wrap once at most.
Wrap(a) == IF a < Size THEN a ELSE a - Size

LEMMA Wrapped == \A a \in 0..2 * Size - 1 : a % Size = Wrap(a) /\ Wrap(a) \in Places
BY FifoDeviceAssumption, SMT DEF Wrap, Places

\* The ring holds the last bytes of the p that entered, in their order.
InOrder(r, p) ==
  /\ r \in Rings /\ Used(r) <= p
  /\ \A i \in 1..Used(r) : r.buffer[(First(r) + i - 1) % Size] = p - Used(r) + i

\* The size as a number.
LEMMA RingSize == Size \in Int /\ Size >= 1
BY FifoDeviceAssumption, SMT

\* The facts about the indices of a ring, as numbers.
LEMMA RingNumbers ==
  ASSUME NEW r \in Rings
  PROVE  /\ Size \in Int /\ Size >= 1
         /\ r.head \in Int /\ 0 <= r.head /\ r.head < Size
         /\ r.tail \in Int /\ 0 <= r.tail /\ r.tail <= Size
         /\ First(r) \in Int /\ First(r) = (IF r.tail = Size THEN r.head ELSE r.tail)
         /\ Used(r) \in Int
         /\ Used(r) = (IF r.tail = Size THEN Size
                       ELSE IF r.head >= r.tail THEN r.head - r.tail ELSE Size - r.tail + r.head)
<1>1. r.head \in Places /\ r.tail \in 0..Size
  BY DEF Rings
<1>2. Size \in Int /\ Size >= 1 /\ r.head \in Int /\ r.tail \in Int /\ 0 <= r.head /\ r.head < Size
      /\ 0 <= r.tail /\ r.tail <= Size
  BY <1>1, FifoDeviceAssumption, SMT DEF Places
<1> QED BY <1>2, SMT DEF First, Used, IsFull

\* How head and tail stand to each other, and the count fifo_getinfo makes of them.
LEMMA UsedRange ==
  ASSUME NEW r \in Rings
  PROVE  /\ r.head \in Places /\ r.tail \in 0..Size /\ r.buffer \in [Places -> Int]
         /\ Used(r) \in 0..Size /\ First(r) \in Places
         /\ Used(r) = Size <=> r.tail = Size
         /\ r.head = Wrap(First(r) + Used(r))
<1>1. r.head \in Places /\ r.tail \in 0..Size /\ r.buffer \in [Places -> Int]
  BY DEF Rings
<1>2. /\ Size \in Int /\ Size >= 1
      /\ r.head \in Int /\ 0 <= r.head /\ r.head < Size
      /\ r.tail \in Int /\ 0 <= r.tail /\ r.tail <= Size
      /\ First(r) \in Int /\ First(r) = (IF r.tail = Size THEN r.head ELSE r.tail)
      /\ Used(r) \in Int
      /\ Used(r) = (IF r.tail = Size THEN Size
                    ELSE IF r.head >= r.tail THEN r.head - r.tail ELSE Size - r.tail + r.head)
  BY RingNumbers
<1>3. /\ 0 <= Used(r) /\ Used(r) <= Size /\ 0 <= First(r) /\ First(r) < Size
      /\ Used(r) = Size <=> r.tail = Size
      /\ r.head = IF First(r) + Used(r) < Size
                  THEN First(r) + Used(r) ELSE First(r) + Used(r) - Size
  BY ONLY <1>2, SMTT(30)
<1>4. Used(r) \in 0..Size /\ First(r) \in Places
  BY ONLY <1>2, <1>3, SMTT(30) DEF Places
<1>5. r.head = Wrap(First(r) + Used(r))
  BY ONLY <1>2, <1>3, SMTT(30) DEF Wrap
<1> QED BY <1>1, <1>3, <1>4, <1>5

\* A byte more: the ring holds the last of p + 1, and one more unless it was full.
LEMMA PutKeeps ==
  ASSUME NEW r, NEW p \in Nat, InOrder(r, p)
  PROVE  /\ InOrder(PutByte(r, p + 1), p + 1)
         /\ Used(PutByte(r, p + 1)) = IF Used(r) = Size THEN Size ELSE Used(r) + 1
<1> DEFINE q == PutByte(r, p + 1)
<1>1. r \in Rings /\ Used(r) <= p
  BY DEF InOrder
<1>2. /\ r.head \in Places /\ r.tail \in 0..Size /\ r.buffer \in [Places -> Int]
      /\ Used(r) \in 0..Size /\ First(r) \in Places /\ r.head = Wrap(First(r) + Used(r))
  BY <1>1, UsedRange
<1>3. (r.head + 1) % Size = Wrap(r.head + 1) /\ Wrap(r.head + 1) \in Places
  BY <1>1, RingNumbers, Wrapped, SMT
<1>4. /\ q = [buffer |-> [r.buffer EXCEPT ![r.head] = p + 1], head |-> Wrap(r.head + 1),
              tail |-> IF Wrap(r.head + 1) = r.tail THEN Size ELSE r.tail]
  BY <1>3 DEF PutByte
<1> HIDE DEF q
<1>5. /\ q.buffer = [r.buffer EXCEPT ![r.head] = p + 1] /\ q.head = Wrap(r.head + 1)
      /\ q.tail = (IF Wrap(r.head + 1) = r.tail THEN Size ELSE r.tail)
  BY <1>4
<1>6. q \in Rings
  <2>1. [r.buffer EXCEPT ![r.head] = p + 1] \in [Places -> Int]
    BY <1>2, SMT
  <2>2. (IF Wrap(r.head + 1) = r.tail THEN Size ELSE r.tail) \in 0..Size
    BY <1>2, FifoDeviceAssumption, SMT
  <2> QED BY <1>3, <1>4, <2>1, <2>2 DEF Rings
<1>7. /\ Used(q) = (IF Used(r) = Size THEN Size ELSE Used(r) + 1)
      /\ First(q) = (IF Used(r) = Size THEN q.head ELSE First(r))
  <2>1. /\ Size \in Int /\ Size >= 1
        /\ r.head \in Int /\ 0 <= r.head /\ r.head < Size
        /\ r.tail \in Int /\ 0 <= r.tail /\ r.tail <= Size
        /\ First(r) \in Int /\ First(r) = (IF r.tail = Size THEN r.head ELSE r.tail)
        /\ Used(r) \in Int
        /\ Used(r) = (IF r.tail = Size THEN Size
                      ELSE IF r.head >= r.tail THEN r.head - r.tail ELSE Size - r.tail + r.head)
    BY <1>1, RingNumbers
  <2>2. /\ q.head \in Int /\ q.tail \in Int
        /\ First(q) \in Int /\ First(q) = (IF q.tail = Size THEN q.head ELSE q.tail)
        /\ Used(q) \in Int
        /\ Used(q) = (IF q.tail = Size THEN Size
                      ELSE IF q.head >= q.tail THEN q.head - q.tail ELSE Size - q.tail + q.head)
    BY <1>6, RingNumbers
  <2>3. /\ q.head = (IF r.head + 1 < Size THEN r.head + 1 ELSE r.head + 1 - Size)
        /\ q.tail = (IF q.head = r.tail THEN Size ELSE r.tail)
    BY <1>5, <2>1, SMT DEF Wrap
  <2> QED BY ONLY <2>1, <2>2, <2>3, SMT
<1>8. ASSUME NEW i \in 1..Used(q)
      PROVE  q.buffer[(First(q) + i - 1) % Size] = (p + 1) - Used(q) + i
  <2> DEFINE m == IF Used(r) = Size THEN i + 1 ELSE i
             j == Wrap(First(q) + i - 1)
  <2>1. /\ Size \in Int /\ Used(q) \in Int /\ 0 <= Used(q) /\ Used(q) <= Size
        /\ First(q) \in Int /\ 0 <= First(q) /\ First(q) < Size
    BY <1>6, RingSize, UsedRange, SMT DEF Places
  <2>2. i \in Int /\ 1 <= i /\ i <= Used(q) /\ m \in Int
    BY <2>1, SMT
  <2>3. First(q) + i - 1 \in 0..2 * Size - 1 /\ First(q) + i - 1 \in Int
    BY <2>1, <2>2, SMT
  <2>4. (First(q) + i - 1) % Size = j /\ j \in Places /\ j \in Int
    <3>1. (First(q) + i - 1) % Size = j /\ j \in Places
      BY <2>3, Wrapped
    <3> QED BY <3>1, SMT DEF Places
  <2>5. /\ i = Used(q) => j = r.head
        /\ i # Used(q) => j # r.head /\ m \in 1..Used(r) /\ j = Wrap(First(r) + m - 1)
    <3>1. /\ r.head \in Int /\ 0 <= r.head /\ r.head < Size /\ Size >= 1
          /\ First(r) \in Int /\ 0 <= First(r) /\ First(r) < Size
          /\ Used(r) \in Int /\ 0 <= Used(r) /\ Used(r) <= Size
      BY <1>2, RingSize, SMT DEF Places
    <3>2. /\ r.head = (IF First(r) + Used(r) < Size
                       THEN First(r) + Used(r) ELSE First(r) + Used(r) - Size)
          /\ q.head \in Int
          /\ q.head = (IF r.head + 1 < Size THEN r.head + 1 ELSE r.head + 1 - Size)
          /\ j = (IF First(q) + i - 1 < Size THEN First(q) + i - 1 ELSE First(q) + i - 1 - Size)
      BY <1>2, <1>5, <2>1, <3>1, SMT DEF Wrap
    <3> HIDE DEF m, j
    <3>3. m = IF Used(r) = Size THEN i + 1 ELSE i
      BY DEF m
    <3>4. /\ i = Used(q) => j = r.head
          /\ i # Used(q) => /\ j # r.head /\ 1 <= m /\ m <= Used(r)
                            /\ j = (IF First(r) + m - 1 < Size
                                    THEN First(r) + m - 1 ELSE First(r) + m - 1 - Size)
      BY ONLY <1>7, <2>1, <2>2, <2>4, <3>1, <3>2, <3>3, SMT
    <3> QED BY <2>1, <2>2, <3>1, <3>4, SMT DEF Wrap
  <2>6. CASE i = Used(q)
    BY <1>2, <1>5, <2>2, <2>4, <2>5, <2>6, SMT
  <2>7. CASE i # Used(q)
    <3>1. q.buffer[j] = r.buffer[j]
      BY <1>2, <1>5, <2>4, <2>5, <2>7
    <3>2. First(r) + m - 1 \in 0..2 * Size - 1
      <4>1. /\ Used(r) \in Int /\ Used(r) <= Size
            /\ First(r) \in Int /\ 0 <= First(r) /\ First(r) < Size
            /\ 1 <= m /\ m <= Used(r)
        BY <1>2, <2>5, <2>7, RingSize, SMT DEF Places
      <4> QED BY <2>1, <2>2, <4>1, SMT
    <3>3. j = (First(r) + m - 1) % Size
      BY <2>5, <2>7, <3>2, Wrapped
    <3>4. p - Used(r) + m = (p + 1) - Used(q) + i
      BY <1>1, <1>6, <1>7, <2>2, RingNumbers, SMT
    <3> QED BY <2>4, <2>5, <2>7, <3>1, <3>3, <3>4 DEF InOrder
  <2> QED BY <2>6, <2>7
<1>9. Used(q) <= p + 1
  BY <1>1, <1>7, RingNumbers, SMT
<1>10. InOrder(q, p + 1)
  BY <1>6, <1>8, <1>9 DEF InOrder
<1> QED BY <1>7, <1>10 DEF q

\* A byte less: the oldest of them has left.
LEMMA DropKeeps ==
  ASSUME NEW r, NEW p \in Nat, InOrder(r, p), Used(r) > 0
  PROVE  InOrder(DropByte(r), p) /\ Used(DropByte(r)) = Used(r) - 1
<1> DEFINE q == DropByte(r)
<1>1. r \in Rings /\ Used(r) <= p
  BY DEF InOrder
<1>2. Used(r) \in 0..Size /\ First(r) \in Places
  BY <1>1, UsedRange
<1>3. (First(r) + 1) % Size = Wrap(First(r) + 1) /\ Wrap(First(r) + 1) \in Places
  BY <1>1, <1>2, RingNumbers, Wrapped, SMT DEF Places
<1>4. /\ q.head = r.head /\ q.buffer = r.buffer /\ q.tail = Wrap(First(r) + 1)
      /\ q \in Rings
  BY <1>1, <1>3, FifoDeviceAssumption, SMT DEF DropByte, Rings, Places
<1> HIDE DEF q
<1>5. /\ Used(q) = Used(r) - 1
      /\ \A i \in Int : 1 <= i /\ i <= Used(q) => Wrap(First(q) + i - 1) = Wrap(First(r) + i)
  <2>1. /\ Size \in Int /\ Size >= 1
        /\ r.head \in Int /\ 0 <= r.head /\ r.head < Size
        /\ r.tail \in Int /\ 0 <= r.tail /\ r.tail <= Size
        /\ First(r) \in Int /\ First(r) = (IF r.tail = Size THEN r.head ELSE r.tail)
        /\ Used(r) \in Int /\ Used(r) > 0
        /\ Used(r) = (IF r.tail = Size THEN Size
                      ELSE IF r.head >= r.tail THEN r.head - r.tail ELSE Size - r.tail + r.head)
    BY <1>1, RingNumbers
  <2>2. /\ q.tail \in Int
        /\ First(q) \in Int /\ First(q) = (IF q.tail = Size THEN r.head ELSE q.tail)
        /\ Used(q) \in Int
        /\ Used(q) = (IF q.tail = Size THEN Size
                      ELSE IF r.head >= q.tail THEN r.head - q.tail ELSE Size - q.tail + r.head)
    BY <1>4, RingNumbers
  <2>3. q.tail = IF First(r) + 1 < Size THEN First(r) + 1 ELSE First(r) + 1 - Size
    BY <1>4, <2>1, SMT DEF Wrap
  <2>4. Used(q) = Used(r) - 1
    BY ONLY <2>1, <2>2, <2>3, SMT
  <2>5. ASSUME NEW i \in Int, 1 <= i, i <= Used(q)
        PROVE  (IF First(q) + i - 1 < Size THEN First(q) + i - 1 ELSE First(q) + i - 1 - Size)
                 = (IF First(r) + i < Size THEN First(r) + i ELSE First(r) + i - Size)
    BY ONLY <2>1, <2>2, <2>3, <2>5, SMT
  <2> QED BY <2>1, <2>2, <2>4, <2>5, SMT DEF Wrap
<1>6. ASSUME NEW i \in 1..Used(q)
      PROVE  q.buffer[(First(q) + i - 1) % Size] = p - Used(q) + i
  <2>1. /\ i \in Int /\ 1 <= i /\ i <= Used(q) /\ i + 1 \in 1..Used(r)
        /\ p - Used(r) + (i + 1) = p - Used(q) + i
    BY <1>1, <1>4, <1>5, RingNumbers, SMT
  <2>2. /\ First(q) + i - 1 \in 0..2 * Size - 1 /\ First(r) + (i + 1) - 1 \in 0..2 * Size - 1
        /\ First(r) + (i + 1) - 1 = First(r) + i
    <3>1. /\ First(r) \in Int /\ 0 <= First(r) /\ First(r) < Size
          /\ Used(r) \in Int /\ Used(r) <= Size
          /\ First(q) \in Int /\ 0 <= First(q) /\ First(q) < Size
      BY <1>2, <1>4, RingSize, UsedRange, SMTT(30) DEF Places
    <3> QED BY <1>5, <2>1, <3>1, RingSize, SMT
  <2>3. (First(q) + i - 1) % Size = (First(r) + (i + 1) - 1) % Size
    BY <1>5, <2>1, <2>2, Wrapped
  <2> QED BY <1>4, <2>1, <2>3 DEF InOrder
<1> QED BY <1>1, <1>4, <1>5, <1>6, RingNumbers, SMT DEF InOrder, q

-----------------------------------------------------------------------------
(* Rounds                                                                  *)

\* What the first k reads return, as a set.
LEMMA CopiedBytes ==
  ASSUME NEW r, NEW p \in Nat, InOrder(r, p), NEW k \in 0..Used(r)
  PROVE  /\ Used(r) \in 0..Size /\ Used(r) <= p
         /\ Range(Copied(r, k)) = (p - Used(r) + 1)..(p - Used(r) + k)
<1>1. Used(r) \in 0..Size /\ Used(r) <= p /\ Size \in Nat
  BY UsedRange, FifoDeviceAssumption DEF InOrder
<1>2. Copied(r, k) = [i \in 1..k |-> p - Used(r) + i]
  <2>1. \A i \in 1..k : i \in 1..Used(r)
    BY <1>1, SMT
  <2> QED BY <2>1 DEF Copied, InOrder
<1>3. Range(Copied(r, k)) = {p - Used(r) + i : i \in 1..k}
  BY <1>2 DEF Range
<1>4. ASSUME NEW b \in (p - Used(r) + 1)..(p - Used(r) + k)
      PROVE  b - (p - Used(r)) \in 1..k /\ b = p - Used(r) + (b - (p - Used(r)))
  BY <1>1, SMT
<1>5. \A i \in 1..k : p - Used(r) + i \in (p - Used(r) + 1)..(p - Used(r) + k)
  BY <1>1, SMT
<1> QED BY <1>1, <1>3, <1>4, <1>5

\* What the ring holds, as a set.
LEMMA RingBytes ==
  ASSUME NEW r, NEW p \in Nat, InOrder(r, p)
  PROVE  Used(r) \in 0..Size /\ Used(r) <= p /\ Bytes(r) = (p - Used(r) + 1)..p
<1>1. Used(r) \in 0..Size /\ Used(r) <= p /\ Size \in Nat
  BY UsedRange, FifoDeviceAssumption DEF InOrder
<1>2. Used(r) \in 0..Used(r) /\ p - Used(r) + Used(r) = p
  BY <1>1, SMT
<1> QED BY <1>1, <1>2, CopiedBytes, SMT DEF Bytes

\* The rounds of fifo_write_buffer are the steps of a recursive function, which exists.
LEMMA FilledRounds ==
  ASSUME NEW r, NEW k \in Nat, produced \in Nat
  PROVE  \E f : /\ f[0] = r /\ Filled(r, k) = f[k]
               /\ \A i \in 0..k : i # 0 => f[i] = PutByte(f[i - 1], produced + i)
<1> DEFINE G(f, n) == f = [i \in 0..n |-> IF i = 0 THEN r ELSE PutByte(f[i - 1], produced + i)]
           S == {n \in Nat : \E f : G(f, n)}
<1>1. 0 \in S
  <2>1. G([i \in 0..0 |-> r], 0)
    BY SMT
  <2> QED BY <2>1
<1>2. ASSUME NEW n \in Nat, n \in S PROVE n + 1 \in S
  <2>1. PICK f : G(f, n)
    BY <1>2
  <2> DEFINE g == [i \in 0..n + 1 |-> IF i = n + 1 THEN PutByte(f[n], produced + n + 1) ELSE f[i]]
  <2>2. \A i \in 0..n : g[i] = f[i]
    BY SMT
  <2>3. ASSUME NEW i \in 0..n + 1
        PROVE  g[i] = IF i = 0 THEN r ELSE PutByte(g[i - 1], produced + i)
    <3>1. CASE i = n + 1
      <4>1. /\ g[i] = PutByte(f[n], produced + n + 1) /\ i - 1 = n /\ i # 0
            /\ g[n] = f[n] /\ produced + n + 1 = produced + i
        BY <2>2, <3>1, SMT
      <4> QED BY <4>1
    <3>2. CASE i # n + 1
      <4>1. i \in 0..n /\ g[i] = f[i] /\ (i # 0 => i - 1 \in 0..n /\ g[i - 1] = f[i - 1])
        BY <2>2, <3>2, SMT
      <4>2. f[i] = IF i = 0 THEN r ELSE PutByte(f[i - 1], produced + i)
        BY <2>1, <4>1
      <4> QED BY <4>1, <4>2
    <3> QED BY <3>1, <3>2
  <2>4. G(g, n + 1)
    BY <2>3
  <2> HIDE DEF g
  <2>5. \E h : G(h, n + 1)
    BY <2>4
  <2> QED BY <2>5, SMT
<1> HIDE DEF S
<1>3. k \in S
  BY <1>1, <1>2, SetInduction
<1> DEFINE f == CHOOSE f : f = [i \in 0..k |-> IF i = 0 THEN r ELSE PutByte(f[i - 1], produced + i)]
<1>4. \E g : g = [i \in 0..k |-> IF i = 0 THEN r ELSE PutByte(g[i - 1], produced + i)]
  BY <1>3, Zenon DEF S
<1>5. f = [i \in 0..k |-> IF i = 0 THEN r ELSE PutByte(f[i - 1], produced + i)]
  BY <1>4, Zenon
<1>6. Filled(r, k) = f[k]
  BY DEF Filled
<1> HIDE DEF f
<1>7. f[0] = r /\ \A i \in 0..k : i # 0 => f[i] = PutByte(f[i - 1], produced + i)
  BY <1>5, SMT
<1> QED BY <1>6, <1>7

\* The ring with k more bytes holds the last of them, and is full when they do not fit.
LEMMA FilledKeeps ==
  ASSUME NEW r, NEW k \in Nat, produced \in Nat, InOrder(r, produced)
  PROVE  /\ InOrder(Filled(r, k), produced + k)
         /\ Used(Filled(r, k)) = IF Used(r) + k < Size THEN Used(r) + k ELSE Size
<1>1. PICK f : /\ f[0] = r /\ Filled(r, k) = f[k]
               /\ \A i \in 0..k : i # 0 => f[i] = PutByte(f[i - 1], produced + i)
  BY FilledRounds, SMT
<1>2. Used(r) \in 0..Size /\ Size \in Nat
  BY UsedRange, FifoDeviceAssumption DEF InOrder
<1> DEFINE S == {n \in Nat : n <= k =>
                   /\ InOrder(f[n], produced + n)
                   /\ Used(f[n]) = IF Used(r) + n < Size THEN Used(r) + n ELSE Size}
<1>3. 0 \in S
  BY <1>1, <1>2, SMT
<1>4. ASSUME NEW n \in Nat, n \in S PROVE n + 1 \in S
  <2> SUFFICES ASSUME n + 1 <= k
               PROVE  /\ InOrder(f[n + 1], produced + (n + 1))
                      /\ Used(f[n + 1]) = IF Used(r) + (n + 1) < Size
                                          THEN Used(r) + (n + 1) ELSE Size
    BY SMT
  <2>1. n + 1 \in 0..k /\ n + 1 # 0 /\ (n + 1) - 1 = n /\ produced + n \in Nat
        /\ produced + (n + 1) = (produced + n) + 1 /\ n <= k
    BY SMT
  <2>2. f[n + 1] = PutByte(f[n], (produced + n) + 1)
    BY <1>1, <2>1
  <2>3. /\ InOrder(f[n], produced + n)
        /\ Used(f[n]) = IF Used(r) + n < Size THEN Used(r) + n ELSE Size
    BY <1>4, <2>1
  <2>4. /\ InOrder(f[n + 1], (produced + n) + 1)
        /\ Used(f[n + 1]) = IF Used(f[n]) = Size THEN Size ELSE Used(f[n]) + 1
    BY <2>1, <2>2, <2>3, PutKeeps
  <2>5. Used(f[n + 1]) = IF Used(r) + (n + 1) < Size THEN Used(r) + (n + 1) ELSE Size
    BY <1>2, <2>3, <2>4, SMT
  <2> QED BY <2>1, <2>4, <2>5
<1> HIDE DEF S
<1>5. k \in S
  BY <1>3, <1>4, SetInduction
<1> QED BY <1>1, <1>5, SMT DEF S

\* The rounds of fifo_read_buffer are the steps of a recursive function, which exists.
LEMMA DrainedRounds ==
  ASSUME NEW r, NEW k \in Nat
  PROVE  \E f : /\ f[0] = r /\ Drained(r, k) = f[k]
               /\ \A i \in 0..k : i # 0 => f[i] = DropByte(f[i - 1])
<1> DEFINE G(f, n) == f = [i \in 0..n |-> IF i = 0 THEN r ELSE DropByte(f[i - 1])]
           S == {n \in Nat : \E f : G(f, n)}
<1>1. 0 \in S
  <2>1. G([i \in 0..0 |-> r], 0)
    BY SMT
  <2> QED BY <2>1
<1>2. ASSUME NEW n \in Nat, n \in S PROVE n + 1 \in S
  <2>1. PICK f : G(f, n)
    BY <1>2
  <2> DEFINE g == [i \in 0..n + 1 |-> IF i = n + 1 THEN DropByte(f[n]) ELSE f[i]]
  <2>2. \A i \in 0..n : g[i] = f[i]
    BY SMT
  <2>3. ASSUME NEW i \in 0..n + 1
        PROVE  g[i] = IF i = 0 THEN r ELSE DropByte(g[i - 1])
    <3>1. CASE i = n + 1
      <4>1. /\ g[i] = DropByte(f[n]) /\ i - 1 = n /\ i # 0
            /\ g[n] = f[n]
        BY <2>2, <3>1, SMT
      <4> QED BY <4>1
    <3>2. CASE i # n + 1
      <4>1. i \in 0..n /\ g[i] = f[i] /\ (i # 0 => i - 1 \in 0..n /\ g[i - 1] = f[i - 1])
        BY <2>2, <3>2, SMT
      <4>2. f[i] = IF i = 0 THEN r ELSE DropByte(f[i - 1])
        BY <2>1, <4>1
      <4> QED BY <4>1, <4>2
    <3> QED BY <3>1, <3>2
  <2>4. G(g, n + 1)
    BY <2>3
  <2> HIDE DEF g
  <2>5. \E h : G(h, n + 1)
    BY <2>4
  <2> QED BY <2>5, SMT
<1> HIDE DEF S
<1>3. k \in S
  BY <1>1, <1>2, SetInduction
<1> DEFINE f == CHOOSE f : f = [i \in 0..k |-> IF i = 0 THEN r ELSE DropByte(f[i - 1])]
<1>4. \E g : g = [i \in 0..k |-> IF i = 0 THEN r ELSE DropByte(g[i - 1])]
  BY <1>3, Zenon DEF S
<1>5. f = [i \in 0..k |-> IF i = 0 THEN r ELSE DropByte(f[i - 1])]
  BY <1>4, Zenon
<1>6. Drained(r, k) = f[k]
  BY DEF Drained
<1> HIDE DEF f
<1>7. f[0] = r /\ \A i \in 0..k : i # 0 => f[i] = DropByte(f[i - 1])
  BY <1>5, SMT
<1> QED BY <1>6, <1>7

\* The ring without the first k bytes holds the others.
LEMMA DrainedKeeps ==
  ASSUME NEW r, NEW p \in Nat, InOrder(r, p), NEW k \in 0..Used(r)
  PROVE  InOrder(Drained(r, k), p) /\ Used(Drained(r, k)) = Used(r) - k
<1>1. Used(r) \in 0..Size /\ Size \in Nat /\ k \in Nat /\ k <= Used(r)
  <2>1. Used(r) \in 0..Size /\ Size \in Nat
    BY UsedRange, FifoDeviceAssumption DEF InOrder
  <2> QED BY <2>1, SMT
<1>2. PICK f : /\ f[0] = r /\ Drained(r, k) = f[k]
               /\ \A i \in 0..k : i # 0 => f[i] = DropByte(f[i - 1])
  BY <1>1, DrainedRounds, SMT
<1> DEFINE S == {n \in Nat : n <= k => InOrder(f[n], p) /\ Used(f[n]) = Used(r) - n}
<1>3. 0 \in S
  BY <1>1, <1>2, SMT
<1>4. ASSUME NEW n \in Nat, n \in S PROVE n + 1 \in S
  <2> SUFFICES ASSUME n + 1 <= k PROVE InOrder(f[n + 1], p) /\ Used(f[n + 1]) = Used(r) - (n + 1)
    BY SMT
  <2>1. n + 1 \in 0..k /\ n + 1 # 0 /\ (n + 1) - 1 = n /\ n <= k /\ Used(r) - n > 0
    BY <1>1, SMT
  <2>2. f[n + 1] = DropByte(f[n])
    BY <1>2, <2>1
  <2>3. InOrder(f[n], p) /\ Used(f[n]) = Used(r) - n
    BY <1>4, <2>1
  <2>4. InOrder(f[n + 1], p) /\ Used(f[n + 1]) = Used(f[n]) - 1
    BY <2>1, <2>2, <2>3, DropKeeps
  <2> QED BY <1>1, <2>3, <2>4, SMT
<1> HIDE DEF S
<1>5. k \in S
  BY <1>1, <1>3, <1>4, SetInduction
<1> QED BY <1>1, <1>2, <1>5, SMT DEF S

-----------------------------------------------------------------------------
(* The bytes                                                               *)

\* Of the p bytes that entered the ring r holds the last; the others were copied to a reader
\* (got) or dropped (gone).
Contents(r, p, got, gone) ==
  InOrder(r, p) /\ got \cup gone = 1..(p - Used(r)) /\ got \cap gone = {}

\* Bytes copied to a reader entered after all that were copied before.
LEMMA GetKeeps ==
  ASSUME NEW r, NEW p \in Nat, NEW got, NEW gone, Contents(r, p, got, gone), NEW k \in 0..Used(r)
  PROVE  /\ Contents(Drained(r, k), p, got \cup Range(Copied(r, k)), gone)
         /\ \A b \in Range(Copied(r, k)), c \in got : c < b
<1>1. InOrder(r, p) /\ got \cup gone = 1..(p - Used(r)) /\ got \cap gone = {}
  BY DEF Contents
<1>2. /\ Used(r) \in Nat /\ Used(r) <= p /\ k \in Nat /\ k <= Used(r)
      /\ Range(Copied(r, k)) = (p - Used(r) + 1)..(p - Used(r) + k)
  <2>1. Used(r) \in 0..Size /\ Size \in Nat
    BY <1>1, CopiedBytes, FifoDeviceAssumption
  <2> QED BY <1>1, <2>1, CopiedBytes, SMT
<1>3. InOrder(Drained(r, k), p) /\ Used(Drained(r, k)) = Used(r) - k
  BY <1>1, DrainedKeeps
<1>4. 1..(p - (Used(r) - k)) = 1..(p - Used(r)) \cup (p - Used(r) + 1)..(p - Used(r) + k)
  BY <1>2, SMT
<1>5. \A b \in Range(Copied(r, k)), c \in 1..(p - Used(r)) : c < b
  BY <1>2, SMT
<1>6. got \subseteq 1..(p - Used(r)) /\ gone \subseteq 1..(p - Used(r))
  BY <1>1
<1>7. Range(Copied(r, k)) \cap gone = {}
  <2>1. \A b \in Range(Copied(r, k)) : b \in Int /\ p - Used(r) < b
    BY <1>2, SMT
  <2>2. \A c \in 1..(p - Used(r)) : c \in Int /\ ~(p - Used(r) < c)
    BY <1>2, SMT
  <2> QED BY <1>6, <2>1, <2>2
<1>8. (got \cup Range(Copied(r, k))) \cup gone = 1..(p - Used(Drained(r, k)))
  BY <1>1, <1>2, <1>3, <1>4
<1>9. (got \cup Range(Copied(r, k))) \cap gone = {}
  BY <1>1, <1>7
<1> QED BY <1>3, <1>5, <1>6, <1>8, <1>9 DEF Contents

\* Bytes that enter are in the ring, and what they push out of it is gone.
LEMMA FillKeeps ==
  ASSUME NEW r, produced \in Nat, NEW got, NEW gone, Contents(r, produced, got, gone), NEW k \in Nat
  PROVE  Contents(Filled(r, k), produced + k, got, gone \cup Overwritten(r, k))
<1> DEFINE q == Filled(r, k)
<1>1. InOrder(r, produced) /\ got \cup gone = 1..(produced - Used(r)) /\ got \cap gone = {}
  BY DEF Contents
<1>2. /\ InOrder(q, produced + k)
      /\ Used(q) = IF Used(r) + k < Size THEN Used(r) + k ELSE Size
  BY <1>1, FilledKeeps
<1>3. Size \in Nat /\ produced + k \in Nat
  BY FifoDeviceAssumption, SMT
<1>4. /\ Used(r) \in 0..Size /\ Used(r) <= produced
      /\ Bytes(r) = (produced - Used(r) + 1)..produced
  BY <1>1, RingBytes
<1>5. /\ Used(q) \in 0..Size /\ Used(q) <= produced + k
      /\ Bytes(q) = ((produced + k) - Used(q) + 1)..(produced + k)
  BY <1>2, <1>3, RingBytes
<1> HIDE DEF q
<1>6. Bytes(r) \cup (produced + 1)..(produced + k) = (produced - Used(r) + 1)..(produced + k)
  BY <1>3, <1>4, SMT
<1>7. Overwritten(r, k) = {b \in (produced - Used(r) + 1)..(produced + k) : b <= produced + k - Size}
  BY <1>6 DEF Overwritten
<1>8. Overwritten(r, k) = (produced - Used(r) + 1)..((produced + k) - Used(q))
  BY <1>2, <1>3, <1>4, <1>5, <1>7, SMTT(30)
<1>9. 1..((produced + k) - Used(q))
        = 1..(produced - Used(r)) \cup (produced - Used(r) + 1)..((produced + k) - Used(q))
  BY <1>2, <1>3, <1>4, <1>5, SMT
<1>10. Overwritten(r, k) \cap 1..(produced - Used(r)) = {}
  BY <1>3, <1>4, <1>5, <1>8, SMT
<1>11. got \cup (gone \cup Overwritten(r, k)) = 1..((produced + k) - Used(q))
  BY <1>1, <1>8, <1>9
<1>12. got \cap (gone \cup Overwritten(r, k)) = {}
  BY <1>1, <1>10
<1> QED BY <1>2, <1>11, <1>12 DEF Contents, q

\* The ring is emptied: what it held is gone.
LEMMA EmptyKeeps ==
  ASSUME NEW r, NEW p \in Nat, NEW got, NEW gone, Contents(r, p, got, gone)
  PROVE  Contents(EmptyRing, p, got, gone \cup Bytes(r))
<1>1. InOrder(r, p) /\ got \cup gone = 1..(p - Used(r)) /\ got \cap gone = {}
  BY DEF Contents
<1>2. Used(r) \in Nat /\ Used(r) <= p /\ Bytes(r) = (p - Used(r) + 1)..p
  BY <1>1, RingBytes, FifoDeviceAssumption, SMT
<1>3. EmptyRing \in Rings /\ Used(EmptyRing) = 0
  BY FifoDeviceAssumption, SMT DEF EmptyRing, Rings, Places, Used, IsFull
<1>4. InOrder(EmptyRing, p)
  BY <1>3, SMT DEF InOrder
<1>5. 1..p = 1..(p - Used(r)) \cup (p - Used(r) + 1)..p /\ p - 0 = p
  BY <1>2, SMT
<1>6. 1..(p - Used(r)) \cap Bytes(r) = {}
  BY <1>2, SMT
<1>7. got \cup (gone \cup Bytes(r)) = 1..(p - Used(EmptyRing))
  BY <1>1, <1>2, <1>3, <1>5
<1>8. got \cap (gone \cup Bytes(r)) = {}
  BY <1>1, <1>6
<1> QED BY <1>4, <1>7, <1>8 DEF Contents

-----------------------------------------------------------------------------
(* Every byte is accounted for                                             *)

\* What counting the bytes needs to know of the variables.
DataTypes ==
  /\ produced \in Nat
  /\ handler \in [Transfers -> Threads \cup {NoThread}]
  /\ xfer \in [Threads -> [op : Transfers \cup {"none"}, n : Nat, result : Int]]

\* The inductive invariant: the ring holds the last bytes that entered, the others went to
\* readers or are gone.
DataInv == DataTypes /\ Contents(ring, produced, received, lost)

\* A step copies to readers only bytes that entered after those copied before.
InSequence == \A b \in received' \ received, c \in received : c < b

\* A transfer is completed with a count or with an error.
LEMMA CompleteTypes ==
  ASSUME DataTypes, NEW op \in Transfers, handler[op] # NoThread, NEW count \in Int,
         Complete(op, count), produced' \in Nat
  PROVE  DataTypes'
<1> DEFINE w == handler[op]
<1>1. w \in Threads
  BY DEF DataTypes
<1>2. (IF count = 0 THEN xfer[w].n ELSE count) \in Int
  BY <1>1, SMT DEF DataTypes
<1>3. xfer' \in [Threads -> [op : Transfers \cup {"none"}, n : Nat, result : Int]]
  BY <1>1, <1>2 DEF Complete, DataTypes
<1>4. handler' \in [Transfers -> Threads \cup {NoThread}]
  BY DEF Complete, DataTypes
<1> QED BY <1>3, <1>4 DEF DataTypes

\* fifo_data_received hands a waiting reader the first bytes of the ring.
LEMMA DataReceivedBytes ==
  ASSUME DataTypes, produced' \in Nat, NEW r, Contents(r, produced', received, lost'),
         DataReceived(r)
  PROVE  DataInv' /\ InSequence
<1> DEFINE k == Least(xfer[handler["read"]].n, Used(r))
<1>1. CASE ring' = r /\ NothingToComplete /\ UNCHANGED received
  BY <1>1 DEF DataInv, DataTypes, NothingToComplete, InSequence
<1>2. CASE /\ handler["read"] # NoThread /\ Complete("read", k)
           /\ received' = received \cup Range(Copied(r, k)) /\ ring' = Drained(r, k)
  <2>1. xfer[handler["read"]].n \in Nat
    BY <1>2 DEF DataTypes, Transfers
  <2>2. Used(r) \in 0..Size /\ Size \in Nat
    BY RingBytes, FifoDeviceAssumption DEF Contents
  <2>3. k \in 0..Used(r) /\ k \in Int
    BY <2>1, <2>2, SMT DEF Least
  <2> HIDE DEF k
  <2>4. DataTypes'
    BY <1>2, <2>3, CompleteTypes DEF Transfers
  <2>5. /\ Contents(ring', produced', received', lost')
        /\ \A b \in Range(Copied(r, k)), c \in received : c < b
    BY <1>2, <2>3, GetKeeps
  <2>6. InSequence
    BY <1>2, <2>5 DEF InSequence
  <2> QED BY <2>4, <2>5, <2>6 DEF DataInv
<1> QED BY <1>1, <1>2 DEF DataReceived

\* fifo_data_transmitted takes what fits of a waiting writer's bytes.
LEMMA DataTransmittedBytes ==
  ASSUME DataTypes, NEW r, NEW gone, Contents(r, produced, received', lost \cup gone),
         DataTransmitted(r, gone)
  PROVE  DataInv'
<1> DEFINE k == Room(r, writeblock', xfer[handler["write"]].n)
<1>1. CASE ring' = r /\ lost' = lost \cup gone /\ NothingToComplete /\ UNCHANGED <<produced, told>>
  BY <1>1 DEF DataInv, DataTypes, NothingToComplete
<1>2. CASE /\ handler["write"] # NoThread /\ Complete("write", k) /\ ring' = Filled(r, k)
           /\ lost' = lost \cup gone \cup Overwritten(r, k) /\ produced' = produced + k
  <2>1. xfer[handler["write"]].n \in Nat /\ produced \in Nat
    BY <1>2 DEF DataTypes, Transfers
  <2>2. Used(r) \in 0..Size /\ Size \in Nat
    BY <2>1, RingBytes, FifoDeviceAssumption DEF Contents
  <2>3. k \in Nat /\ k \in Int
    BY <2>1, <2>2, SMT DEF Room, Least
  <2> HIDE DEF k
  <2>4. produced' \in Nat
    BY <1>2, <2>1, <2>3, SMT
  <2>5. DataTypes'
    BY <1>2, <2>3, <2>4, CompleteTypes DEF Transfers
  <2>6. Contents(ring', produced', received', lost')
    BY <1>2, <2>1, <2>3, FillKeeps
  <2> QED BY <2>5, <2>6 DEF DataInv
<1> QED BY <1>1, <1>2 DEF DataTransmitted

\* A call sleeps: no byte moves.
LEMMA SleepBytes ==
  ASSUME DataInv, NEW t \in Threads, NEW op \in Transfers, NEW n \in Lengths,
         SleepInTransfer(t, op, n), UNCHANGED <<ring, ghosts>>
  PROVE  DataInv' /\ InSequence
<1>1. n \in Nat
  BY FifoDeviceAssumption
<1>2. DataTypes'
  BY <1>1, SMT DEF DataInv, DataTypes, SleepInTransfer, ghosts
<1> QED BY <1>2 DEF DataInv, ghosts, InSequence

\* read(): bytes leave the ring, and those of a writer that waits may enter it.
LEMMA ReadBytes ==
  ASSUME DataInv, NEW t \in Threads, NEW n \in Lengths, NEW nb \in BOOLEAN, Read(t, n, nb)
  PROVE  DataInv' /\ InSequence
<1> DEFINE k == Least(n, Used(ring))
<1>1. CASE SleepInTransfer(t, "read", n) /\ UNCHANGED <<ring, ghosts>>
  BY <1>1, SleepBytes DEF Transfers
<1>2. CASE received' = received \cup Range(Copied(ring, k)) /\ DataTransmitted(Drained(ring, k), {})
  <2>1. produced \in Nat /\ Contents(ring, produced, received, lost)
    BY DEF DataInv, DataTypes
  <2>2. Used(ring) \in 0..Size /\ Size \in Nat /\ n \in Nat
    BY <2>1, RingBytes, FifoDeviceAssumption DEF Contents
  <2>3. k \in 0..Used(ring)
    BY <2>2, SMT DEF Least
  <2> HIDE DEF k
  <2>4. /\ Contents(Drained(ring, k), produced, received', lost)
        /\ \A b \in Range(Copied(ring, k)), c \in received : c < b
    BY <1>2, <2>1, <2>3, GetKeeps
  <2>5. DataInv'
    <3>1. lost \cup {} = lost
      OBVIOUS
    <3> QED BY <1>2, <2>4, <3>1, DataTransmittedBytes DEF DataInv
  <2> QED BY <1>2, <2>4, <2>5 DEF InSequence
<1> QED BY <1>1, <1>2 DEF Read

\* Bytes enter the ring, from a writer or by an interrupt.
LEMMA EnterBytes ==
  ASSUME DataInv, NEW k \in Nat, produced' = produced + k,
         lost' = lost \cup Overwritten(ring, k), DataReceived(Filled(ring, k))
  PROVE  DataInv' /\ InSequence
<1>1. produced \in Nat /\ produced' \in Nat
  BY SMT DEF DataInv, DataTypes
<1>2. Contents(Filled(ring, k), produced', received, lost')
  BY <1>1, FillKeeps DEF DataInv
<1> QED BY <1>1, <1>2, DataReceivedBytes DEF DataInv

\* write(): bytes enter the ring, and may go on to a reader that waits.
LEMMA WriteBytes ==
  ASSUME DataInv, NEW t \in Threads, NEW n \in Lengths, NEW nb \in BOOLEAN, Write(t, n, nb)
  PROVE  DataInv' /\ InSequence
<1> DEFINE k == Room(ring, writeblock \/ (nb /\ driver = "fifo"), n)
<1>1. CASE SleepInTransfer(t, "write", n) /\ UNCHANGED <<ring, ghosts>>
  BY <1>1, SleepBytes DEF Transfers
<1>2. CASE /\ produced' = produced + k /\ lost' = lost \cup Overwritten(ring, k)
           /\ DataReceived(Filled(ring, k))
  <2>1. Used(ring) \in 0..Size /\ Size \in Nat /\ n \in Nat
    BY RingBytes, FifoDeviceAssumption DEF DataInv, DataTypes, Contents
  <2>2. k \in Nat
    BY <2>1, SMT DEF Room, Least
  <2> HIDE DEF k
  <2> QED BY <1>2, <2>2, EnterBytes
<1> QED BY <1>1, <1>2 DEF Write

\* Requests that empty the ring.
LEMMA ForgetBytes ==
  ASSUME DataInv, NEW ops, Forget(ops)
  PROVE  DataInv' /\ InSequence
<1>1. produced \in Nat /\ UNCHANGED <<produced, received, xfer>>
  BY DEF DataInv, DataTypes, Forget
<1>2. DataTypes'
  BY <1>1 DEF Forget, DataInv, DataTypes
<1>3. Contents(ring', produced', received', lost')
  BY <1>1, EmptyKeeps DEF DataInv, Forget
<1> QED BY <1>1, <1>2, <1>3 DEF DataInv, InSequence

\* The ring is emptied and a read that waits fails.
LEMMA FlushReadBytes ==
  ASSUME DataInv, FlushRead
  PROVE  DataInv' /\ InSequence
<1>1. produced \in Nat /\ UNCHANGED <<produced, received>>
  BY DEF DataInv, DataTypes, FlushRead
<1>2. Contents(ring', produced', received', lost')
  BY <1>1, EmptyKeeps DEF DataInv, FlushRead
<1>3. CASE NothingToComplete
  BY <1>1, <1>2, <1>3 DEF DataInv, DataTypes, NothingToComplete, InSequence
<1>4. CASE handler["read"] # NoThread /\ Complete("read", Failed)
  <2>1. Failed \in Int /\ "read" \in Transfers /\ produced' \in Nat
    BY <1>1, SMT DEF Failed, Transfers
  <2>2. DataTypes'
    BY <1>4, <2>1, CompleteTypes DEF DataInv
  <2> QED BY <1>1, <1>2, <2>2 DEF DataInv, InSequence
<1> QED BY <1>3, <1>4 DEF FlushRead

\* The ring is emptied and a write that waits goes on.
LEMMA FifoFlushBytes ==
  ASSUME DataInv, NEW t, FifoFlush(t)
  PROVE  DataInv' /\ InSequence
<1>1. produced \in Nat /\ UNCHANGED received /\ DataTransmitted(EmptyRing, Bytes(ring))
  BY DEF DataInv, DataTypes, FifoFlush
<1>2. Contents(EmptyRing, produced, received', lost \cup Bytes(ring))
  BY <1>1, EmptyKeeps DEF DataInv
<1> QED BY <1>1, <1>2, DataTransmittedBytes DEF DataInv, InSequence

\* I_FIFO_SETATTR lets a write that waits go on.
LEMMA SetAttrBytes ==
  ASSUME DataInv, NEW t, NEW blocks, SetAttr(t, blocks)
  PROVE  DataInv' /\ InSequence
<1>1. UNCHANGED received /\ lost \cup {} = lost
  BY DEF SetAttr
<1>2. CASE DataTransmitted(ring, {})
  BY <1>1, <1>2, DataTransmittedBytes DEF DataInv, InSequence
<1>3. CASE NothingToComplete /\ UNCHANGED <<ring, lost, produced, told>>
  BY <1>1, <1>3 DEF DataInv, DataTypes, NothingToComplete, InSequence
<1> QED BY <1>2, <1>3 DEF SetAttr

\* A transfer ends or is taken back: no byte moves.
LEMMA ReturnBytes ==
  ASSUME DataInv, NEW t \in Threads, TransferReturn(t) \/ ClearDeviceAction(t)
  PROVE  DataInv' /\ InSequence
<1>1. UNCHANGED <<ring, produced, received, lost>>
  BY DEF TransferReturn, ClearDeviceAction, ghosts
<1>2. NoTransfer \in [op : Transfers \cup {"none"}, n : Nat, result : Int] /\ Failed \in Int
  BY SMT DEF NoTransfer, Failed
<1>3. CASE TransferReturn(t)
  <2>1. UNCHANGED handler /\ (UNCHANGED xfer \/ xfer' = [xfer EXCEPT ![t] = NoTransfer])
    BY <1>3 DEF TransferReturn
  <2> QED BY <1>1, <1>2, <2>1 DEF DataInv, DataTypes, InSequence
<1>4. CASE ClearDeviceAction(t)
  <2>1. PICK o, w : /\ handler' = [handler EXCEPT ![o] = NoThread]
                    /\ \/ xfer' = [xfer EXCEPT ![t] = NoTransfer]
                       \/ xfer' = [xfer EXCEPT ![w].result = Failed, ![t] = NoTransfer]
    BY <1>4 DEF ClearDeviceAction
  <2>2. handler' \in [Transfers -> Threads \cup {NoThread}]
    BY <2>1 DEF DataInv, DataTypes
  <2>3. xfer' \in [Threads -> [op : Transfers \cup {"none"}, n : Nat, result : Int]]
    BY <1>2, <2>1, SMT DEF DataInv, DataTypes
  <2> QED BY <1>1, <2>2, <2>3 DEF DataInv, DataTypes, InSequence
<1> QED BY <1>3, <1>4

LEMMA InitBytes == FifoDeviceInit => DataInv
<1> SUFFICES ASSUME FifoDeviceInit PROVE DataInv
  OBVIOUS
<1>1. DataTypes
  BY SMT DEF FifoDeviceInit, DataTypes, NoTransfer
<1>2. EmptyRing \in Rings /\ Used(EmptyRing) = 0
  BY FifoDeviceAssumption, SMT DEF EmptyRing, Rings, Places, Used, IsFull
<1>3. Contents(EmptyRing, 0, {}, {})
  BY <1>2, SMT DEF Contents, InOrder
<1> QED BY <1>1, <1>3 DEF DataInv, FifoDeviceInit

LEMMA NextBytes ==
  ASSUME DataInv, [FifoNext]_fifoVars
  PROVE  DataInv' /\ InSequence
<1>1. CASE UNCHANGED device
  BY <1>1 DEF device, ghosts, DataInv, DataTypes, InSequence
<1>2. ASSUME NEW k \in Lengths, UartDataReceived(k) \/ UsbDataReceived(k) \/ EventDataReady(k)
      PROVE  DataInv' /\ InSequence
  <2>1. k \in Nat
    BY FifoDeviceAssumption
  <2> QED BY <1>2, <2>1, EnterBytes DEF UartDataReceived, UsbDataReceived, EventDataReady,
             Arrive
<1>3. ASSUME NEW t \in Threads, FifoStep(t) PROVE DataInv' /\ InSequence
  <2>1. ASSUME NEW n \in Lengths, NEW nb \in BOOLEAN, Read(t, n, nb) \/ Write(t, n, nb)
        PROVE  DataInv' /\ InSequence
    BY <2>1, ReadBytes, WriteBytes
  <2>2. CASE TransferReturn(t) \/ ClearDeviceAction(t)
    BY <2>2, ReturnBytes
  <2>3. CASE FifoFlush(t)
    BY <2>3, FifoFlushBytes
  <2>4. CASE FifoInit(t) \/ UartIoctl(t)
    BY <2>4, ForgetBytes DEF FifoInit, UartIoctl
  <2>5. CASE UsbIoctl(t) \/ DeviceFifoIoctl(t)
    BY <2>5, ForgetBytes, FlushReadBytes DEF UsbIoctl, DeviceFifoIoctl
  <2>6. ASSUME NEW b \in BOOLEAN, SetAttr(t, b) PROVE DataInv' /\ InSequence
    BY <2>6, SetAttrBytes
  <2> QED BY <1>3, <2>1, <2>2, <2>3, <2>4, <2>5, <2>6 DEF FifoStep
<1> QED BY <1>1, <1>2, <1>3 DEF FifoNext, fifoVars

\* The count of the bytes, from where each of them is.
LEMMA ContentsCount ==
  ASSUME DataInv
  PROVE  FifoConservation
<1> DEFINE u == Used(ring)
<1>1. produced \in Nat /\ Contents(ring, produced, received, lost)
  BY DEF DataInv, DataTypes
<1>2. /\ u \in Nat /\ u <= produced /\ Bytes(ring) = (produced - u + 1)..produced
  BY <1>1, RingBytes, FifoDeviceAssumption, SMT DEF Contents
<1>3. received \cup lost = 1..(produced - u) /\ received \cap lost = {}
  BY <1>1 DEF Contents
<1> HIDE DEF u
<1>4. Bytes(ring) \cup received \cup lost = 1..produced
  <2>1. 1..(produced - u) \cup (produced - u + 1)..produced = 1..produced
    BY <1>1, <1>2, SMT
  <2> QED BY <1>2, <1>3, <2>1
<1>5. /\ IsFiniteSet(1..(produced - u)) /\ Cardinality(1..(produced - u)) = produced - u
      /\ Cardinality((produced - u + 1)..produced) = u
  <2>1. 1 \in Int /\ produced \in Int /\ produced - u \in Int /\ produced - u + 1 \in Int
    BY <1>1, <1>2, SMT
  <2>2. /\ IsFiniteSet(1..(produced - u))
        /\ Cardinality(1..(produced - u)) = IF 1 > produced - u THEN 0 ELSE (produced - u) - 1 + 1
    BY <2>1, FS_Interval
  <2>3. Cardinality((produced - u + 1)..produced)
          = IF produced - u + 1 > produced THEN 0 ELSE produced - (produced - u + 1) + 1
    BY <2>1, FS_Interval
  <2>4. (IF 1 > produced - u THEN 0 ELSE (produced - u) - 1 + 1) = produced - u
    BY <1>1, <1>2, SMT
  <2>5. (IF produced - u + 1 > produced THEN 0 ELSE produced - (produced - u + 1) + 1) = u
    BY <1>1, <1>2, SMT
  <2> QED BY <2>2, <2>3, <2>4, <2>5, SMT
<1>6. /\ IsFiniteSet(received) /\ IsFiniteSet(lost)
      /\ Cardinality(received) \in Nat /\ Cardinality(lost) \in Nat
  BY <1>3, <1>5, FS_Subset, FS_CardinalityType
<1>7. Cardinality(received \cup lost) = Cardinality(received) + Cardinality(lost)
  <2>1. Cardinality(received \cup lost)
          = Cardinality(received) + Cardinality(lost) - Cardinality(received \cap lost)
    BY <1>6, FS_Union
  <2>2. Cardinality(received \cap lost) = 0
    BY <1>3, FS_EmptySet
  <2> QED BY <1>6, <2>1, <2>2, SMT
<1>8. Cardinality(Bytes(ring)) + Cardinality(received) + Cardinality(lost) = produced
  <2>1. Cardinality(Bytes(ring)) = u /\ Cardinality(received) + Cardinality(lost) = produced - u
    BY <1>2, <1>3, <1>5, <1>7
  <2> QED BY <1>1, <1>2, <1>6, <2>1, SMT
<1> QED BY <1>4, <1>8 DEF FifoConservation

\* Every byte that entered the buffer of a FIFO is still in it, was copied to one reader, or
\* was overwritten or flushed: for every driver, every size of the buffer, whatever the calls
\* of the threads, the interrupts and the signals.
THEOREM BytesAccounted == FifoSpec => []FifoConservation
<1>1. DataInv /\ [FifoNext]_fifoVars => DataInv'
  BY NextBytes
<1>2. DataInv => FifoConservation
  BY ContentsCount
<1> QED BY <1>1, <1>2, InitBytes, PTL DEF FifoSpec

\* Readers get the bytes in the order in which they entered the buffer, also when one call
\* drains it and refills it from a writer that waits, and when it wraps or is overwritten.
THEOREM BytesInOrder == FifoSpec => FifoOrder
<1>1. DataInv /\ [FifoNext]_fifoVars => DataInv'
  BY NextBytes
<1>2. DataInv /\ [FifoNext]_fifoVars
        => [\A b \in received' \ received, c \in received : c < b]_fifoVars
  BY NextBytes DEF InSequence
<1> QED BY <1>1, <1>2, InitBytes, PTL DEF FifoSpec, FifoOrder

-----------------------------------------------------------------------------
(* Nobody waits in vain                                                    *)

\* A transfer waits for data in an empty ring, or for room in a full one.
ReasonInv ==
  /\ handler["read"] # NoThread => Used(ring) = 0
  /\ handler["write"] # NoThread => Used(ring) = Size

\* The driver knows the threads that sleep in a transfer.
KnownInv ==
  \A t \in Threads : call[t].op = "transfer" /\ t \notin active => handler[xfer[t].op] = t

\* Together with what is known of the transfers and of the ring.
ServeInv == FifoInv /\ DataInv /\ ReasonInv

\* In fifo.c I_FIFO_SETATTR completes a write that waits; here writers set the attributes.
WritersSetAttr ==
  \A s \in Scenarios : "fifo" \in Drivers[s] =>
    \A t, u \in Threads : "setattr" \in s.program[t] /\ "write" \in s.program[u] => t = u

\* The count of the bytes as a number.
LEMMA RingFacts ==
  ASSUME NEW r, NEW p \in Nat, InOrder(r, p)
  PROVE  Used(r) \in Nat /\ Used(r) <= Size /\ Size \in Nat /\ Size > 0
<1>1. Used(r) \in 0..Size /\ Size \in Nat \ {0}
  BY RingBytes, FifoDeviceAssumption
<1> QED BY <1>1, SMT

\* What a driver knows of a transfer that waits.
LEMMA WaitingTransfer ==
  ASSUME FifoInv, DataInv, NEW op \in Transfers, handler[op] # NoThread
  PROVE  /\ handler[op] \in Threads /\ xfer[handler[op]].n \in Nat \ {0}
         /\ xfer[handler[op]].op = op /\ call[handler[op]].op # "none"
         /\ op \in program[handler[op]]
         /\ driver \in Inputs => op # "write"
<1> DEFINE w == handler[op]
<1>1. w \in Threads
  BY HandlerIsThread DEF FifoInv
<1>2. xfer[w].op = op /\ call[w].op \in {"transfer", "cancel"} /\ op # "none"
  BY DEF FifoInv, NoDanglingTransfer, Transfers
<1>3. xfer[w].n \in Nat /\ xfer[w].n # 0
  BY <1>1, <1>2 DEF DataInv, DataTypes, FifoInv, FifoTypeOK, IsTransfer
<1> QED BY <1>1, <1>2, <1>3 DEF FifoInv, ProgramInv

\* Both transfers cannot wait at once.
LEMMA OneWaits ==
  ASSUME ServeInv
  PROVE  handler["read"] = NoThread \/ handler["write"] = NoThread
<1>1. Size > 0
  BY FifoDeviceAssumption, SMT
<1> QED BY <1>1, FifoDeviceAssumption DEF ServeInv, ReasonInv

\* Where there is room a waiting writer gets it, and is told how much it was.
LEMMA TransmittedServes ==
  ASSUME ServeInv, NEW r, NEW gone, InOrder(r, produced), Used(r) < Size,
         handler["read"] # NoThread => Used(r) = 0, DataTransmitted(r, gone), UNCHANGED driver
  PROVE  ReasonInv' /\ (told = produced => told' = produced')
<1> DEFINE n == xfer[handler["write"]].n
           k == Room(r, writeblock', n)
<1>1. CASE handler["write"] = NoThread
  BY <1>1 DEF DataTransmitted, NothingToComplete, ReasonInv
<1>2. CASE handler["write"] # NoThread
  <2>1. n \in Nat \ {0}
    BY <1>2, WaitingTransfer DEF ServeInv, Transfers
  <2>2. Used(r) \in Nat /\ Size \in Nat
    BY RingFacts DEF ServeInv, DataInv, DataTypes
  <2>3. k # 0
    BY <2>1, <2>2, SMT DEF Room, Least
  <2>4. /\ handler' = [handler EXCEPT !["write"] = NoThread]
        /\ produced' = produced + k /\ told' = told + k
    BY <1>2, <2>3 DEF DataTransmitted, Complete
  <2>5. handler'["write"] = NoThread /\ handler'["read"] = NoThread
    BY <1>2, <2>4, OneWaits DEF ServeInv, DataInv, DataTypes, Transfers
  <2> QED BY <2>4, <2>5 DEF ReasonInv
<1> QED BY <1>1, <1>2

\* Where there are data a waiting reader gets them.
LEMMA ReceivedServes ==
  ASSUME ServeInv, NEW r, NEW p \in Nat, InOrder(r, p), Used(r) > 0, handler["write"] = NoThread,
         DataReceived(r), UNCHANGED driver
  PROVE  ReasonInv'
<1> DEFINE n == xfer[handler["read"]].n
           k == Least(n, Used(r))
<1>1. CASE handler["read"] = NoThread
  BY <1>1 DEF DataReceived, NothingToComplete, ReasonInv
<1>2. CASE handler["read"] # NoThread
  <2>1. n \in Nat \ {0}
    BY <1>2, WaitingTransfer DEF ServeInv, Transfers
  <2>2. Used(r) \in Nat
    BY RingFacts
  <2>3. k # 0
    BY <2>1, <2>2, SMT DEF Least
  <2>4. handler' = [handler EXCEPT !["read"] = NoThread]
    BY <1>2, <2>3 DEF DataReceived, Complete
  <2>5. handler'["write"] = NoThread /\ handler'["read"] = NoThread
    BY <2>4 DEF ServeInv, DataInv, DataTypes, Transfers
  <2> QED BY <2>5 DEF ReasonInv
<1> QED BY <1>1, <1>2

\* The calls and the interrupts keep the reasons to wait, and count what writers are told.
LEMMA ReadServes ==
  ASSUME ServeInv, NEW t \in Threads, NEW n \in Lengths, NEW nb \in BOOLEAN, Read(t, n, nb)
  PROVE  ReasonInv' /\ (told = produced => told' = produced')
<1> DEFINE k == Least(n, Used(ring))
<1>1. produced \in Nat /\ InOrder(ring, produced) /\ n \in Nat \ {0}
  BY FifoDeviceAssumption DEF ServeInv, DataInv, DataTypes, Contents
<1>2. Used(ring) \in Nat /\ Used(ring) <= Size /\ Size \in Nat
  BY <1>1, RingFacts
<1>3. handler["read"] = NoThread /\ UNCHANGED driver
  BY DEF Read
<1>4. CASE k = 0
  <2>1. Used(ring) = 0
    BY <1>1, <1>2, <1>4 DEF Least
  <2>2. /\ handler' = [handler EXCEPT !["read"] = t] /\ UNCHANGED <<ring, produced, told>>
    BY <1>4 DEF Read, SleepInTransfer, ghosts
  <2>3. handler'["write"] = handler["write"]
    BY <2>2 DEF ServeInv, DataInv, DataTypes, Transfers
  <2> QED BY <2>1, <2>2, <2>3 DEF ServeInv, ReasonInv
<1>5. CASE k # 0
  <2>1. k \in 0..Used(ring) /\ Used(ring) - k < Size
    BY <1>1, <1>2, <1>5, SMT DEF Least
  <2>2. DataTransmitted(Drained(ring, k), {})
    BY <1>5 DEF Read
  <2> HIDE DEF k
  <2>3. InOrder(Drained(ring, k), produced) /\ Used(Drained(ring, k)) = Used(ring) - k
    BY <1>1, <2>1, DrainedKeeps
  <2> QED BY <1>3, <2>1, <2>2, <2>3, TransmittedServes
<1> QED BY <1>4, <1>5

LEMMA EnterServes ==
  ASSUME ServeInv, NEW k \in Nat \ {0}, handler["write"] = NoThread,
         DataReceived(Filled(ring, k)), UNCHANGED driver
  PROVE  ReasonInv'
<1>1. produced \in Nat /\ InOrder(ring, produced) /\ produced + k \in Nat
  BY SMT DEF ServeInv, DataInv, DataTypes, Contents
<1>2. Used(ring) \in Nat /\ Size \in Nat /\ Size > 0
  BY <1>1, RingFacts
<1>3. /\ InOrder(Filled(ring, k), produced + k)
      /\ Used(Filled(ring, k)) = IF Used(ring) + k < Size THEN Used(ring) + k ELSE Size
  BY <1>1, FilledKeeps
<1>4. Used(Filled(ring, k)) > 0
  BY <1>2, <1>3, SMT
<1> QED BY <1>1, <1>3, <1>4, ReceivedServes

LEMMA WriteServes ==
  ASSUME ServeInv, NEW t \in Threads, NEW n \in Lengths, NEW nb \in BOOLEAN, Write(t, n, nb)
  PROVE  ReasonInv' /\ (told = produced => told' = produced')
<1> DEFINE blocks == writeblock \/ (nb /\ driver = "fifo")
           k == Room(ring, blocks, n)
<1>1. produced \in Nat /\ InOrder(ring, produced) /\ n \in Nat \ {0}
  BY FifoDeviceAssumption DEF ServeInv, DataInv, DataTypes, Contents
<1>2. Used(ring) \in Nat /\ Used(ring) <= Size /\ Size \in Nat
  BY <1>1, RingFacts
<1>3. handler["write"] = NoThread /\ UNCHANGED driver
  BY DEF Write
<1>4. CASE k = 0
  <2>1. Used(ring) = Size
    BY <1>1, <1>2, <1>4, SMT DEF Room, Least
  <2>2. /\ handler' = [handler EXCEPT !["write"] = t] /\ UNCHANGED <<ring, produced, told>>
    BY <1>4 DEF Write, SleepInTransfer, ghosts
  <2>3. handler'["read"] = handler["read"]
    BY <2>2 DEF ServeInv, DataInv, DataTypes, Transfers
  <2> QED BY <2>1, <2>2, <2>3 DEF ServeInv, ReasonInv
<1>5. CASE k # 0
  <2>1. k \in Nat \ {0}
    BY <1>1, <1>2, <1>5, SMT DEF Room, Least
  <2>2. produced' = produced + k /\ told' = told + k /\ DataReceived(Filled(ring, k))
    BY <1>5 DEF Write
  <2> HIDE DEF k
  <2> QED BY <1>3, <2>1, <2>2, EnterServes
<1> QED BY <1>4, <1>5

LEMMA ArriveServes ==
  ASSUME ServeInv, NEW k \in Lengths, Arrive(k), driver \in Inputs
  PROVE  ReasonInv' /\ (told = produced => told' = produced')
<1>1. handler["write"] = NoThread
  BY WaitingTransfer DEF ServeInv, Transfers
<1>2. k \in Nat \ {0}
  BY FifoDeviceAssumption
<1> QED BY <1>1, <1>2, EnterServes DEF Arrive

\* The ring fifo_flush leaves.
LEMMA EmptyFacts == Used(EmptyRing) = 0 /\ \A p \in Nat : InOrder(EmptyRing, p)
<1>1. EmptyRing \in Rings /\ Used(EmptyRing) = 0
  BY FifoDeviceAssumption, SMT DEF EmptyRing, Rings, Places, Used, IsFull
<1> QED BY <1>1, SMT DEF InOrder

\* Requests that empty the ring: an interrupt-driven driver has no writer that waits.
LEMMA ForgetServes ==
  ASSUME ServeInv, NEW ops, Forget(ops), driver \in Inputs \/ ops = Transfers
  PROVE  ReasonInv' /\ (told = produced => told' = produced')
<1>1. UNCHANGED <<produced, told>> /\ ring' = EmptyRing
  BY DEF Forget
<1>2. handler'["write"] = NoThread
  <2>1. handler'["write"] = IF "write" \in ops THEN NoThread ELSE handler["write"]
    BY DEF Forget, Transfers
  <2>2. driver \in Inputs => handler["write"] = NoThread
    BY WaitingTransfer DEF ServeInv, Transfers
  <2> QED BY <2>1, <2>2 DEF Transfers
<1> QED BY <1>1, <1>2, EmptyFacts DEF ReasonInv

LEMMA FlushReadServes ==
  ASSUME ServeInv, FlushRead, driver \in Inputs
  PROVE  ReasonInv' /\ (told = produced => told' = produced')
<1>1. UNCHANGED <<produced, told>> /\ ring' = EmptyRing
  BY DEF FlushRead
<1>2. handler["write"] = NoThread
  BY WaitingTransfer DEF ServeInv, Transfers
<1>3. UNCHANGED handler \/ handler' = [handler EXCEPT !["read"] = NoThread]
  BY DEF FlushRead, NothingToComplete, Complete
<1>4. handler'["write"] = NoThread
  BY <1>2, <1>3 DEF ServeInv, DataInv, DataTypes, Transfers
<1> QED BY <1>1, <1>4, EmptyFacts DEF ReasonInv

LEMMA FifoFlushServes ==
  ASSUME ServeInv, NEW t, FifoFlush(t)
  PROVE  ReasonInv' /\ (told = produced => told' = produced')
<1>1. InOrder(EmptyRing, produced) /\ Used(EmptyRing) < Size
  BY EmptyFacts, FifoDeviceAssumption, SMT DEF ServeInv, DataInv, DataTypes
<1> QED BY <1>1, EmptyFacts, TransmittedServes DEF FifoFlush

\* A write that waits finds the ring full: ffifo.c lets it wait on, fifo.c completes it with
\* nothing written, unless nobody waits.
LEMMA SetAttrServes ==
  ASSUME ServeInv, NEW t \in Threads, NEW blocks \in BOOLEAN, SetAttr(t, blocks)
  PROVE  ReasonInv' /\ (WritersSetAttr /\ told = produced => told' = produced')
<1> DEFINE n == xfer[handler["write"]].n
           k == Room(ring, writeblock', n)
<1>1. Calls(t, "setattr") /\ driver \notin Inputs /\ writeblock' = blocks /\ UNCHANGED driver
  BY DEF SetAttr
<1>2. CASE UNCHANGED <<handler, ring, produced, told>>
  BY <1>2 DEF ServeInv, ReasonInv
<1>3. CASE ~UNCHANGED <<handler, ring, produced, told>>
  <2>1. blocks /\ handler["write"] # NoThread
    BY <1>3 DEF SetAttr, DataTransmitted, NothingToComplete
  <2>2. n \in Nat \ {0} /\ "write" \in program[handler["write"]] /\ handler["write"] \in Threads
        /\ call[handler["write"]].op # "none"
    BY <2>1, WaitingTransfer DEF ServeInv, Transfers
  <2>3. Used(ring) = Size /\ Size \in Nat
    BY <2>1, FifoDeviceAssumption DEF ServeInv, ReasonInv
  <2>4. k = 0
    <3>1. k = Least(n, Size - Used(ring))
      BY ONLY <1>1, <2>1 DEF Room
    <3>2. n \in Int /\ n > 0 /\ Size - Used(ring) = 0
      BY ONLY <2>2, <2>3, SMT
    <3> QED BY ONLY <3>1, <3>2, SMT DEF Least
  <2>5. driver # "ffifo" /\ handler' = [handler EXCEPT !["write"] = NoThread]
    BY <1>3, <2>1, <2>4 DEF SetAttr, DataTransmitted, NothingToComplete, Complete
  <2>6. handler'["write"] = NoThread /\ handler'["read"] = NoThread
    BY <2>1, <2>5, OneWaits DEF ServeInv, DataInv, DataTypes, Transfers
  <2>7. driver = "fifo"
    BY <1>1, <2>5, DriverKinds DEF ServeInv, FifoInv
  <2>8. ~WritersSetAttr
    <3>1. Scenario \in Scenarios /\ "fifo" \in Drivers[Scenario] /\ Scenario.program = program
      BY <2>7 DEF ServeInv, FifoInv, FifoTypeOK, Scenario
    <3>2. "setattr" \in program[t] /\ call[t].op = "none"
      BY ONLY <1>1, SMT DEF Calls, Idle
    <3>3. t # handler["write"]
      BY ONLY <2>2, <3>2
    <3> QED BY <2>2, <3>1, <3>2, <3>3 DEF WritersSetAttr
  <2> QED BY <2>6, <2>8 DEF ReasonInv
<1> QED BY <1>2, <1>3

LEMMA ReturnServes ==
  ASSUME ServeInv, NEW t \in Threads, TransferReturn(t) \/ ClearDeviceAction(t)
  PROVE  ReasonInv' /\ (told = produced => told' = produced')
<1>1. UNCHANGED <<ring, produced, told>>
  BY DEF TransferReturn, ClearDeviceAction, ghosts
<1>2. UNCHANGED handler \/ \E o : handler' = [handler EXCEPT ![o] = NoThread]
  BY DEF TransferReturn, ClearDeviceAction
<1>3. \A o \in Transfers : handler'[o] # NoThread => handler[o] # NoThread
  BY <1>2 DEF ServeInv, DataInv, DataTypes
<1> QED BY <1>1, <1>3 DEF ServeInv, ReasonInv, Transfers

LEMMA NextServes ==
  ASSUME ServeInv, [FifoNext]_fifoVars
  PROVE  ReasonInv' /\ (WritersSetAttr /\ told = produced => told' = produced')
<1> DEFINE Goal == ReasonInv' /\ (WritersSetAttr /\ told = produced => told' = produced')
<1>1. CASE UNCHANGED device
  BY <1>1 DEF device, ghosts, ServeInv, ReasonInv
<1>2. ASSUME NEW k \in Lengths, UartDataReceived(k) \/ UsbDataReceived(k) \/ EventDataReady(k)
      PROVE  Goal
  BY <1>2, ArriveServes DEF UartDataReceived, UsbDataReceived, EventDataReady, Inputs
<1>3. ASSUME NEW t \in Threads, FifoStep(t) PROVE Goal
  <2>1. ASSUME NEW n \in Lengths, NEW nb \in BOOLEAN, Read(t, n, nb) \/ Write(t, n, nb)
        PROVE  Goal
    BY <2>1, ReadServes, WriteServes
  <2>2. CASE TransferReturn(t) \/ ClearDeviceAction(t)
    BY <2>2, ReturnServes
  <2>3. CASE FifoFlush(t)
    BY <2>3, FifoFlushServes
  <2>4. CASE FifoInit(t) \/ UartIoctl(t)
    BY <2>4, ForgetServes DEF FifoInit, UartIoctl, Inputs
  <2>5. CASE UsbIoctl(t) \/ DeviceFifoIoctl(t)
    BY <2>5, ForgetServes, FlushReadServes DEF UsbIoctl, DeviceFifoIoctl, Inputs
  <2>6. ASSUME NEW b \in BOOLEAN, SetAttr(t, b) PROVE Goal
    BY <2>6, SetAttrServes
  <2> QED BY <1>3, <2>1, <2>2, <2>3, <2>4, <2>5, <2>6 DEF FifoStep
<1> QED BY <1>1, <1>2, <1>3 DEF FifoNext, fifoVars

-----------------------------------------------------------------------------
(* The driver knows who sleeps                                             *)

\* Nobody initialises or opens the device meanwhile.
NobodyForgets == NobodyCalls("init") /\ NobodyCalls("open")

\* The thread whose transfer is completed is awake.
LEMMA CompleteKnown ==
  ASSUME FifoInv, KnownInv, NEW op \in Transfers, handler[op] # NoThread, NEW count,
         Complete(op, count)
  PROVE  KnownInv'
<1> DEFINE w == handler[op]
           v == IF count = 0 THEN xfer[w].n ELSE count
<1>1. w \in Threads
  BY HandlerIsThread DEF FifoInv
<1>2. /\ active' = active \cup {w} /\ UNCHANGED call /\ xfer' = WithResult(w, v)
      /\ handler' = [handler EXCEPT ![op] = NoThread]
  BY DEF Complete, AssertActive, WithResult
<1> HIDE DEF v
<1>3. \A t \in Threads : xfer'[t].op = xfer[t].op
  BY <1>1, <1>2, ResultStep DEF FifoInv
<1>4. ASSUME NEW t \in Threads, call'[t].op = "transfer", t \notin active'
      PROVE  handler'[xfer'[t].op] = t
  <2>1. handler[xfer[t].op] = t /\ t # w
    BY <1>2, <1>4 DEF KnownInv
  <2>2. xfer[t].op \in Transfers
    BY <1>2, <1>4 DEF FifoInv, ProgramInv, FifoTypeOK, IsTransfer
  <2> QED BY <1>2, <1>3, <2>1, <2>2 DEF FifoInv, FifoTypeOK
<1> QED BY <1>4 DEF KnownInv

LEMMA NothingKnown ==
  ASSUME KnownInv, NothingToComplete
  PROVE  KnownInv'
BY DEF KnownInv, NothingToComplete, kernel, block

LEMMA ReceivedKnown ==
  ASSUME FifoInv, KnownInv, NEW r, DataReceived(r)
  PROVE  KnownInv'
<1>1. CASE NothingToComplete
  BY <1>1, NothingKnown
<1>2. ASSUME NEW k, handler["read"] # NoThread, Complete("read", k) PROVE KnownInv'
  BY <1>2, CompleteKnown DEF Transfers
<1> QED BY <1>1, <1>2 DEF DataReceived

LEMMA TransmittedKnown ==
  ASSUME FifoInv, KnownInv, NEW r, NEW gone, DataTransmitted(r, gone)
  PROVE  KnownInv'
<1>1. CASE NothingToComplete
  BY <1>1, NothingKnown
<1>2. ASSUME NEW k, handler["write"] # NoThread, Complete("write", k) PROVE KnownInv'
  BY <1>2, CompleteKnown DEF Transfers
<1> QED BY <1>1, <1>2 DEF DataTransmitted

\* A thread that goes to sleep is in the handler, and was the only one.
LEMMA SleepKnown ==
  ASSUME FifoInv, KnownInv, NEW t \in Threads, NEW op \in Transfers, NEW n, handler[op] = NoThread,
         SleepInTransfer(t, op, n)
  PROVE  KnownInv'
<1>1. /\ active' = active \ {t} /\ handler' = [handler EXCEPT ![op] = t]
      /\ xfer' = [xfer EXCEPT ![t] = [op |-> op, n |-> n, result |-> 0]]
      /\ call' = [call EXCEPT ![t] = [op |-> "transfer", on |-> NULL]]
  BY DEF SleepInTransfer, Enter
<1>2. \A u \in Threads \ {t} : call'[u] = call[u] /\ xfer'[u] = xfer[u]
  BY <1>1 DEF FifoInv, FifoTypeOK
<1>3. xfer'[t].op = op /\ handler'[op] = t
  <2>1. xfer'[t] = [op |-> op, n |-> n, result |-> 0]
    BY <1>1 DEF FifoInv, FifoTypeOK
  <2> QED BY <1>1, <2>1 DEF FifoInv, FifoTypeOK
<1>4. ASSUME NEW u \in Threads \ {t}, call'[u].op = "transfer", u \notin active'
      PROVE  handler'[xfer'[u].op] = u
  <2>1. handler[xfer[u].op] = u
    BY <1>1, <1>2, <1>4 DEF KnownInv
  <2>2. xfer[u].op \in Transfers
    BY <1>2, <1>4 DEF FifoInv, ProgramInv, FifoTypeOK, IsTransfer
  <2>3. xfer[u].op # op
    BY <2>1, ConstantFacts
  <2> QED BY <1>1, <1>2, <2>1, <2>2, <2>3 DEF FifoInv, FifoTypeOK
<1> QED BY <1>3, <1>4 DEF KnownInv

LEMMA FlushReadKnown ==
  ASSUME FifoInv, KnownInv, FlushRead
  PROVE  KnownInv'
<1>1. CASE NothingToComplete
  BY <1>1, NothingKnown
<1>2. CASE handler["read"] # NoThread /\ Complete("read", Failed)
  BY <1>2, CompleteKnown DEF Transfers
<1> QED BY <1>1, <1>2 DEF FlushRead

\* Requests that empty the ring and forget nobody.
LEMMA ForgetKnown ==
  ASSUME FifoInv, KnownInv, Forget({})
  PROVE  KnownInv'
<1>1. UNCHANGED <<active, call, xfer>>
  BY DEF Forget, kernel, block
<1>2. handler' = handler
  BY DEF Forget, FifoInv, FifoTypeOK
<1> QED BY <1>1, <1>2 DEF KnownInv

\* A transfer returns.
LEMMA ReturnKnown ==
  ASSUME FifoInv, KnownInv, NEW t \in Threads, TransferReturn(t)
  PROVE  KnownInv'
<1>1. UNCHANGED <<active, handler>> /\ t \in active
  BY DEF TransferReturn, InCall, kernel, block, FifoInv, FifoTypeOK
<1>2. \A u \in Threads \ {t} : call'[u] = call[u] /\ xfer'[u] = xfer[u]
  BY DEF TransferReturn, Enter, Return, FifoInv, FifoTypeOK
<1> QED BY <1>1, <1>2 DEF KnownInv

\* The thread whose transfer the request clears is woken.
LEMMA ClearKnown ==
  ASSUME FifoInv, KnownInv, NEW t \in Threads, ClearDeviceAction(t)
  PROVE  KnownInv'
<1> DEFINE op == Cancels(xfer[t].op)
           w == handler[op]
<1>1. /\ handler' = [handler EXCEPT ![op] = NoThread] /\ call' = [call EXCEPT ![t] = Idle]
      /\ active' = active \/ active' = active \cup {w}
      /\ w = NoThread \/ active' = active \cup {w}
  BY DEF ClearDeviceAction, Return, AssertActive, kernel, block
<1>2. \/ xfer' = [xfer EXCEPT ![t] = NoTransfer]
      \/ xfer' = [xfer EXCEPT ![w].result = Failed, ![t] = NoTransfer]
  BY DEF ClearDeviceAction
<1> HIDE DEF op
<1>3. ASSUME NEW u \in Threads \ {t} PROVE xfer'[u].op = xfer[u].op /\ call'[u] = call[u]
  <2>1. call'[u] = call[u]
    BY <1>1 DEF FifoInv, FifoTypeOK
  <2>2. DOMAIN xfer = Threads
    BY DEF FifoInv, FifoTypeOK
  <2>3. xfer'[u] = xfer[u] \/ (u = w /\ xfer'[u] = [xfer[u] EXCEPT !.result = Failed])
    BY <1>2, <2>2
  <2>4. xfer[u] = [op |-> xfer[u].op, n |-> xfer[u].n, result |-> xfer[u].result]
    BY DEF FifoInv, FifoTypeOK, IsTransfer
  <2>5. [xfer[u] EXCEPT !.result = Failed] = [op |-> xfer[u].op, n |-> xfer[u].n, result |-> Failed]
    BY <2>4, SMT
  <2> QED BY <2>1, <2>3, <2>5
<1>4. call'[t].op # "transfer"
  BY <1>1 DEF FifoInv, FifoTypeOK, Idle
<1>5. ASSUME NEW u \in Threads \ {t}, call'[u].op = "transfer", u \notin active'
      PROVE  handler'[xfer'[u].op] = u
  <2>1. handler[xfer[u].op] = u /\ u # w
    BY <1>1, <1>3, <1>5, ConstantFacts DEF KnownInv
  <2>2. xfer[u].op \in Transfers
    BY <1>3, <1>5 DEF FifoInv, ProgramInv, FifoTypeOK, IsTransfer
  <2> QED BY <1>1, <1>3, <2>1, <2>2 DEF FifoInv, FifoTypeOK
<1> QED BY <1>4, <1>5 DEF KnownInv

\* Only a thread that is in no call goes to sleep in pause.
LEMMA KernelKnown ==
  ASSUME FifoInv, KnownInv, KernelStep, UNCHANGED device
  PROVE  KnownInv'
<1>1. UNCHANGED <<handler, xfer, call>>
  BY DEF device, KernelStep
<1>2. ASSUME NEW t \in Threads, t \notin active' PROVE t \notin active \/ call[t] = Idle
  BY <1>2 DEF KernelStep, RoundEnd, block, TimerMatch, Signal, SignalWait, AssertActive, Calls
<1> QED BY <1>1, <1>2, SMT DEF KnownInv, Idle

LEMMA NextKnown ==
  ASSUME FifoInv, KnownInv, NobodyForgets, [FifoNext]_fifoVars
  PROVE  KnownInv'
<1>1. CASE UNCHANGED fifoVars
  BY <1>1 DEF fifoVars, device, kernel, block, KnownInv
<1>2. CASE KernelStep /\ UNCHANGED device
  BY <1>2, KernelKnown
<1>3. ASSUME NEW k \in Lengths, UartDataReceived(k) \/ UsbDataReceived(k) \/ EventDataReady(k)
      PROVE  KnownInv'
  BY <1>3, ReceivedKnown DEF UartDataReceived, UsbDataReceived, EventDataReady, Arrive
<1>4. ASSUME NEW t \in Threads, FifoStep(t) PROVE KnownInv'
  <2>1. ASSUME NEW n \in Lengths, NEW nb \in BOOLEAN, Read(t, n, nb) PROVE KnownInv'
    <3>1. CASE SleepInTransfer(t, "read", n)
      BY <2>1, <3>1, SleepKnown DEF Read, Transfers
    <3>2. ASSUME NEW r, DataTransmitted(r, {}) PROVE KnownInv'
      BY <3>2, TransmittedKnown
    <3> QED BY <2>1, <3>1, <3>2 DEF Read
  <2>2. ASSUME NEW n \in Lengths, NEW nb \in BOOLEAN, Write(t, n, nb) PROVE KnownInv'
    <3>1. CASE SleepInTransfer(t, "write", n)
      BY <2>2, <3>1, SleepKnown DEF Write, Transfers
    <3>2. ASSUME NEW r, DataReceived(r) PROVE KnownInv'
      BY <3>2, ReceivedKnown
    <3> QED BY <2>2, <3>1, <3>2 DEF Write
  <2>3. CASE TransferReturn(t) \/ ClearDeviceAction(t)
    BY <2>3, ReturnKnown, ClearKnown
  <2>4. CASE FifoFlush(t)
    BY <2>4, TransmittedKnown DEF FifoFlush
  <2>5. CASE FifoInit(t) \/ UartIoctl(t)
    BY <2>5, ForgetKnown DEF FifoInit, UartIoctl, NobodyForgets, NobodyCalls, Calls
  <2>6. CASE UsbIoctl(t) \/ DeviceFifoIoctl(t)
    BY <2>6, ForgetKnown, FlushReadKnown DEF UsbIoctl, DeviceFifoIoctl
  <2>7. ASSUME NEW b \in BOOLEAN, SetAttr(t, b) PROVE KnownInv'
    BY <2>7, TransmittedKnown, NothingKnown DEF SetAttr
  <2> QED BY <1>4, <2>1, <2>2, <2>3, <2>4, <2>5, <2>6, <2>7 DEF FifoStep
<1> QED BY <1>1, <1>2, <1>3, <1>4 DEF FifoNext

LEMMA InitServes == FifoDeviceInit => ReasonInv /\ KnownInv /\ told = produced
<1> SUFFICES ASSUME FifoDeviceInit PROVE ReasonInv /\ KnownInv /\ told = produced
  OBVIOUS
<1>1. handler["read"] = NoThread /\ handler["write"] = NoThread /\ told = produced
  BY DEF FifoDeviceInit, Transfers
<1>2. KnownInv
  BY DEF FifoDeviceInit, KernelInit, KnownInv
<1> QED BY <1>1, <1>2 DEF ReasonInv

\* The inductive invariant of the two theorems below.
LEMMA ServeInvHolds == ASSUME SignalsSpareReaders PROVE FifoSpec => []ServeInv
<1>1. ServeInv /\ [FifoNext]_fifoVars => ServeInv'
  BY FifoInvNext, NextBytes, NextServes DEF ServeInv
<1>2. FifoDeviceInit => ServeInv
  BY FifoInvInit, InitBytes, InitServes DEF ServeInv
<1> QED BY <1>1, <1>2, PTL DEF FifoSpec

\* Who calls what does not change.
LEMMA SameProgram ==
  ASSUME FifoInv, [FifoNext]_fifoVars
  PROVE  program' = program
<1> USE DEF fixed, kernel
<1>1. CASE UNCHANGED fifoVars
  BY <1>1 DEF fifoVars
<1>2. CASE KernelStep
  BY <1>2 DEF KernelStep, RoundEnd, TimerMatch, Signal, SignalWait
<1>3. \A r : DataReceived(r) => program' = program
  BY DEF DataReceived, Complete, NothingToComplete
<1>4. \A r, gone : DataTransmitted(r, gone) => program' = program
  BY DEF DataTransmitted, Complete, NothingToComplete
<1>5. ASSUME NEW k, UartDataReceived(k) \/ UsbDataReceived(k) \/ EventDataReady(k)
      PROVE  program' = program
  BY <1>3, <1>5 DEF UartDataReceived, UsbDataReceived, EventDataReady, Arrive
<1>6. ASSUME NEW t, NEW n, NEW nb, Read(t, n, nb) \/ Write(t, n, nb) PROVE program' = program
  BY <1>3, <1>4, <1>6 DEF Read, Write, SleepInTransfer
<1>7. ASSUME NEW t, FifoFlush(t) \/ TransferReturn(t) \/ ClearDeviceAction(t)
      PROVE  program' = program
  BY <1>4, <1>7 DEF FifoFlush, TransferReturn, ClearDeviceAction
<1>8. (\E ops : Forget(ops)) \/ FlushRead => program' = program
  BY DEF Forget, FlushRead, Complete, NothingToComplete
<1>9. ASSUME NEW t, FifoInit(t) \/ UartIoctl(t) \/ UsbIoctl(t) \/ DeviceFifoIoctl(t)
      PROVE  program' = program
  BY <1>8, <1>9 DEF FifoInit, UartIoctl, UsbIoctl, DeviceFifoIoctl
<1>10. ASSUME NEW t, NEW b, SetAttr(t, b) PROVE program' = program
  BY <1>4, <1>10 DEF SetAttr, NothingToComplete
<1> QED BY <1>1, <1>2, <1>5, <1>6, <1>7, <1>9, <1>10 DEF FifoNext, FifoStep

\* A thread asleep in a read or a write is known to the driver, a reader finds the buffer
\* empty and a writer finds it full: the data and the room that fifo_data_received and
\* fifo_data_transmitted announce never pass a sleeper by, whatever completes, cancels or
\* flushes meanwhile; in fifo.c as long as readers get no signals.
THEOREM SleepersAreServed == ASSUME SignalsSpareReaders PROVE FifoSpec => []SleeperIsServed
<1> DEFINE Inv == NobodyForgets => KnownInv
<1>1. ServeInv /\ Inv /\ [FifoNext]_fifoVars => Inv'
  <2> SUFFICES ASSUME ServeInv, Inv, [FifoNext]_fifoVars, NobodyForgets' PROVE KnownInv'
    OBVIOUS
  <2>1. program' = program
    BY SameProgram DEF ServeInv
  <2>2. NobodyForgets
    BY <2>1 DEF NobodyForgets, NobodyCalls
  <2> QED BY <2>2, NextKnown DEF ServeInv
<1>2. FifoDeviceInit => Inv
  BY InitServes
<1>3. ServeInv /\ Inv => SleeperIsServed
  <2> SUFFICES ASSUME ServeInv, KnownInv, NEW t \in Threads, call[t].op = "transfer",
                      t \notin active
               PROVE  /\ handler[xfer[t].op] = t
                      /\ xfer[t].op = "read" => Used(ring) = 0
                      /\ xfer[t].op = "write" => Used(ring) = Size
    BY DEF SleeperIsServed, NobodyForgets
  <2>1. handler[xfer[t].op] = t /\ t # NoThread
    BY ConstantFacts DEF KnownInv
  <2> QED BY <2>1 DEF ServeInv, ReasonInv
<1> QED BY <1>1, <1>2, <1>3, ServeInvHolds, PTL DEF FifoSpec

\* The counts writers are told add up to the bytes that entered the buffer; in fifo.c as long
\* as readers get no signals and nobody calls I_FIFO_SETATTR while a writer waits.
THEOREM WritersAreToldTheTruth ==
  ASSUME SignalsSpareReaders, WritersSetAttr PROVE FifoSpec => []WriteCount
<1>1. ServeInv /\ WriteCount /\ [FifoNext]_fifoVars => WriteCount'
  BY NextServes DEF WriteCount
<1>2. FifoDeviceInit => WriteCount
  BY InitServes DEF WriteCount
<1> QED BY <1>1, <1>2, ServeInvHolds, PTL DEF FifoSpec
=============================================================================

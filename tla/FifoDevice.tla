----------------------------- MODULE FifoDevice -----------------------------
(***************************************************************************)
(* A character device with a FIFO, from read() and write() down to the ring *)
(* buffer: devfs_data_transfer blocks the caller and hands the driver a     *)
(* pointer to its arguments (the async), which the driver keeps in its      *)
(* transfer handler until data arrive or leave.                             *)
(*                                                                          *)
(* Five kinds of driver are modelled: "fifo" (fifo.c, cfifo.c) and "ffifo" *)
(* (frames in place of bytes), whose data threads write, and "uartfifo"     *)
(* (uartfifo.c), "usbfifo" and "device_fifo", whose data an interrupt       *)
(* brings.                                                                  *)
(* A driver's functions run in a service call or an interrupt, one step.    *)
(***************************************************************************)
EXTENDS Kernel, Functions

CONSTANTS
  Drivers,   \* the kinds of driver a model looks at in each scenario
  Size,      \* config->size, config->frame_count
  MaxBytes,  \* bound: the bytes (or frames) that enter the buffer
  Lengths    \* the lengths (nbyte) of the transfers

\* The drivers whose data an interrupt brings.
Inputs == {"uartfifo", "usbfifo", "device_fifo"}

ASSUME FifoDeviceAssumption ==
  /\ Drivers \in [Scenarios -> SUBSET ({"fifo", "ffifo"} \cup Inputs)]
  /\ Size \in Nat \ {0} /\ MaxBytes \in Nat /\ Lengths \subseteq Nat \ {0}

VARIABLES
  driver,      \* the kind of driver
  ring,        \* the buffer, its head and its tail
  writeblock,  \* FIFO_FLAG_SET_WRITEBLOCK
  handler,     \* transfer_handler.read, .write: the thread whose async it points to
  xfer,        \* the arguments of each thread's transfer, on its stack
  produced,    \* how many bytes entered the buffer; byte i is the i-th of them
  told,        \* how many bytes the writers were told they have written
  received,    \* the bytes copied to readers
  lost         \* the bytes overwritten or flushed

ghosts == <<produced, told, received, lost>>
device == <<driver, ring, writeblock, handler, xfer, ghosts>>
fifoVars == <<kernel, call, device>>

Transfers == {"read", "write"}
NoTransfer == [op |-> "none", n |-> 0, result |-> 0]
Failed == -1   \* EAGAIN or EIO in async.result

-----------------------------------------------------------------------------
(* The ring buffer                                                         *)

EmptyRing == [buffer |-> [i \in 0..Size - 1 |-> 0], head |-> 0, tail |-> 0]

\* The tail is Size when the buffer is full.
IsFull(r) == r.tail = Size
First(r) == IF IsFull(r) THEN r.head ELSE r.tail

\* fifo_getinfo
Used(r) ==
  IF IsFull(r) THEN Size
  ELSE IF r.head >= r.tail THEN r.head - r.tail ELSE Size - r.tail + r.head

\* Mutant: the tail of a full buffer is not restored.
Copied_FromTail(r, k) == [i \in 1..k |-> r.buffer[(r.tail + i - 1) % Size]]

\* What the first k reads return.
Copied(r, k) == [i \in 1..k |-> r.buffer[(First(r) + i - 1) % Size]]

Bytes(r) == Range(Copied(r, Used(r)))

\* Mutant: a full buffer is not marked.
PutByte_NoMark(r, b) ==
  [buffer |-> [r.buffer EXCEPT ![r.head] = b], head |-> (r.head + 1) % Size, tail |-> r.tail]

\* A byte is stored at the head, and fifo_inc_head.
PutByte(r, b) ==
  LET h == (r.head + 1) % Size IN
  [buffer |-> [r.buffer EXCEPT ![r.head] = b],
   head |-> h, tail |-> IF h = r.tail THEN Size ELSE r.tail]

\* One round of fifo_read_buffer.
DropByte(r) == [r EXCEPT !.tail = (First(r) + 1) % Size]

\* The rounds of fifo_write_buffer: the ring with the next k bytes.
Filled(r, k) ==
  LET after[i \in 0..k] == IF i = 0 THEN r ELSE PutByte(after[i - 1], produced + i)
  IN  after[k]

\* The rounds of fifo_read_buffer: the ring without the first k bytes.
Drained(r, k) ==
  LET after[i \in 0..k] == IF i = 0 THEN r ELSE DropByte(after[i - 1])
  IN  after[k]

Least(i, j) == IF i < j THEN i ELSE j

\* fifo_is_write_ok: how many of n bytes can be written.
Room(r, blocks, n) == IF blocks THEN Least(n, Size - Used(r)) ELSE n

-----------------------------------------------------------------------------
(* Completion                                                              *)

\* devfs_execute_read_handler, devfs_execute_write_handler and
\* root_data_transfer_callback: a count of 0 stands for the whole length.
Complete(op, count) ==
  LET w == handler[op] IN
  /\ xfer' = [xfer EXCEPT ![w].result = IF count = 0 THEN xfer[w].n ELSE count]
  /\ handler' = [handler EXCEPT ![op] = NoThread]
  /\ AssertActive({w}, "TRANSFER")
  /\ UNCHANGED <<fixed, priority, call>>
  /\ UpdateOnWake(priority[w])

NothingToComplete == UNCHANGED <<xfer, handler, kernel, call>>

\* The bytes, old or new, that k new ones push out of the ring r: all of them but
\* the last Size, whatever the head and the tail say.
Overwritten(r, k) ==
  {b \in Bytes(r) \cup (produced + 1)..(produced + k) : b <= produced + k - Size}

\* Mutant: nobody looks for a reader.
DataReceived_NoReader(r) ==
  ring' = r /\ NothingToComplete /\ UNCHANGED received

\* fifo_data_received with the ring r: a reader that waits gets what there is.
\* ffifo_data_received completes nothing when it has read nothing.
DataReceived(r) ==
  LET k == Least(xfer[handler["read"]].n, Used(r)) IN
  IF handler["read"] = NoThread \/ (k = 0 /\ driver = "ffifo")
  THEN ring' = r /\ NothingToComplete /\ UNCHANGED received
  ELSE /\ Complete("read", k)
       /\ received' = received \cup Range(Copied(r, k))
       /\ ring' = Drained(r, k)

\* Mutant: a count of 0 completes the write in every driver.
DataTransmitted_AnyCount(r, gone) ==
  LET n == xfer[handler["write"]].n
      k == Room(r, writeblock', n) IN
  IF handler["write"] = NoThread
  THEN ring' = r /\ lost' = lost \cup gone /\ NothingToComplete /\ UNCHANGED <<produced, told>>
  ELSE /\ Complete("write", k)
       /\ ring' = Filled(r, k)
       /\ lost' = lost \cup gone \cup Overwritten(r, k)
       /\ produced' = produced + k
       /\ told' = told + (IF k = 0 THEN n ELSE k)

\* fifo_data_transmitted with the ring r, of which gone was overwritten or
\* flushed: a writer that waits writes what fits.
DataTransmitted(r, gone) ==
  LET n == xfer[handler["write"]].n
      k == Room(r, writeblock', n) IN
  IF handler["write"] = NoThread \/ (k = 0 /\ driver = "ffifo")
  THEN ring' = r /\ lost' = lost \cup gone /\ NothingToComplete /\ UNCHANGED <<produced, told>>
  ELSE /\ Complete("write", k)
       /\ ring' = Filled(r, k)
       /\ lost' = lost \cup gone \cup Overwritten(r, k)
       /\ produced' = produced + k
       /\ told' = told + (IF k = 0 THEN n ELSE k)

-----------------------------------------------------------------------------
(* Transfers                                                               *)

\* root_check_op_complete: the caller sleeps until the callback.
SleepInTransfer(t, op, n) ==
  /\ xfer' = [xfer EXCEPT ![t] = [op |-> op, n |-> n, result |-> 0]]
  /\ handler' = [handler EXCEPT ![op] = t]
  /\ active' = active \ {t}
  /\ blockObject' = [blockObject EXCEPT ![t] = op]
  /\ Enter(t, "transfer", NULL)
  /\ UNCHANGED <<unblockType, wake, fixed, priority>>
  /\ UpdateOnStopped

\* read() of n bytes: svcall_device_data_transfer with fifo_read_local.  A call
\* that finds the handler taken (EBUSY) or, if nb, no data (EAGAIN) changes
\* nothing.
Read(t, n, nb) ==
  LET k == Least(n, Used(ring)) IN
  /\ Calls(t, "read") /\ handler["read"] = NoThread
  /\ UNCHANGED <<driver, writeblock>>
  /\ IF k = 0
     THEN ~nb /\ SleepInTransfer(t, "read", n) /\ UNCHANGED <<ring, ghosts>>
     ELSE /\ received' = received \cup Range(Copied(ring, k))
          /\ DataTransmitted(Drained(ring, k), {})

\* write() of n bytes with fifo_write_local or ffifo_write_local.
Write(t, n, nb) ==
  LET k == Room(ring, writeblock \/ (nb /\ driver = "fifo"), n) IN
  /\ Calls(t, "write") /\ driver \notin Inputs /\ handler["write"] = NoThread
  /\ produced + n <= MaxBytes
  /\ IF k = 0
     THEN /\ ~(nb /\ (writeblock \/ driver = "ffifo"))
          /\ SleepInTransfer(t, "write", n) /\ UNCHANGED <<ring, ghosts>>
     ELSE /\ produced' = produced + k /\ told' = told + k
          /\ lost' = lost \cup Overwritten(ring, k)
          /\ DataReceived(Filled(ring, k))
  /\ UNCHANGED <<driver, writeblock>>

\* An interrupt brings k bytes, which are stored whether there is room or not.
Arrive(k) ==
  /\ produced + k <= MaxBytes
  /\ produced' = produced + k /\ told' = told + k
  /\ lost' = lost \cup Overwritten(ring, k)
  /\ DataReceived(Filled(ring, k))
  /\ UNCHANGED <<driver, writeblock>>

\* data_received of uartfifo.c
UartDataReceived(k) == driver = "uartfifo" /\ Arrive(k)

\* data_received of usbfifo.c
UsbDataReceived(k) == driver = "usbfifo" /\ Arrive(k)

\* event_data_ready of device_fifo.c
EventDataReady(k) == driver = "device_fifo" /\ Arrive(k)

\* Mutant: an interrupted transfer is not taken back.
TransferReturn_NoCancel(t) ==
  /\ InCall(t, {"transfer"})
  /\ Return(t) /\ xfer' = [xfer EXCEPT ![t] = NoTransfer]
  /\ UNCHANGED <<kernel, driver, ring, writeblock, handler, ghosts>>

\* devfs_data_transfer after its service call: a transfer that was interrupted
\* by a signal and not completed is taken back next; any other returns.  (A
\* thread woken for another reason tries again and finds its own async in the
\* handler: EBUSY.)
TransferReturn(t) ==
  /\ InCall(t, {"transfer"})
  /\ IF unblockType[t] = "SIGNAL" /\ xfer[t].result = 0
     THEN Enter(t, "cancel", NULL) /\ UNCHANGED xfer
     ELSE Return(t) /\ xfer' = [xfer EXCEPT ![t] = NoTransfer]
  /\ UNCHANGED <<kernel, driver, ring, writeblock, handler, ghosts>>

\* The transfer that I_MCU_SETACTION without a callback cancels, for a caller
\* whose own is op: in fifo.c, in ffifo.c, in the interrupt-driven drivers.
FifoCancels(op) == "write"
FfifoCancels(op) == op
InputCancels(op) == "read"

Cancels(op) ==
  CASE driver = "fifo" -> FifoCancels(op) [] driver = "ffifo" -> FfifoCancels(op)
    [] OTHER -> InputCancels(op)

\* clear_device_action; devfs_data_transfer returns EINTR.
ClearDeviceAction(t) ==
  LET op == Cancels(xfer[t].op)
      w  == handler[op] IN
  /\ InCall(t, {"cancel"})
  /\ handler' = [handler EXCEPT ![op] = NoThread]
  /\ Return(t)
  /\ IF w = NoThread
     THEN xfer' = [xfer EXCEPT ![t] = NoTransfer] /\ UNCHANGED kernel
     ELSE /\ xfer' = [xfer EXCEPT ![w].result = Failed, ![t] = NoTransfer]
          /\ AssertActive({w}, "TRANSFER")
          /\ UNCHANGED <<fixed, priority>>
          /\ UpdateOnWake(priority[w])
  /\ UNCHANGED <<driver, ring, writeblock, ghosts>>

-----------------------------------------------------------------------------
(* Requests                                                                *)

\* Mutant: nobody is told that there is room.
FifoFlush_Silent(t) ==
  /\ Calls(t, "flush") /\ driver \in {"fifo", "ffifo"}
  /\ ring' = EmptyRing /\ lost' = lost \cup Bytes(ring)
  /\ UNCHANGED <<kernel, call, driver, writeblock, handler, xfer, produced, told, received>>

\* I_FIFO_FLUSH of fifo.c and ffifo.c: a writer that waits can go on.
FifoFlush(t) ==
  /\ Calls(t, "flush") /\ driver \in {"fifo", "ffifo"}
  /\ UNCHANGED <<driver, writeblock, received>>
  /\ DataTransmitted(EmptyRing, Bytes(ring))

\* The buffer is emptied and the handlers ops are forgotten, not called.
Forget(ops) ==
  /\ ring' = EmptyRing /\ lost' = lost \cup Bytes(ring)
  /\ handler' = [op \in Transfers |-> IF op \in ops THEN NoThread ELSE handler[op]]
  /\ UNCHANGED <<kernel, call, driver, writeblock, xfer, produced, told, received>>

\* The buffer is emptied and a waiting read fails.
FlushRead ==
  /\ ring' = EmptyRing /\ lost' = lost \cup Bytes(ring)
  /\ IF handler["read"] = NoThread THEN NothingToComplete ELSE Complete("read", Failed)
  /\ UNCHANGED <<driver, writeblock, produced, told, received>>

\* I_FIFO_INIT of fifo.c and ffifo.c
FifoInit(t) == Calls(t, "init") /\ driver \in {"fifo", "ffifo"} /\ Forget(Transfers)

\* I_FIFO_FLUSH, I_FIFO_INIT and the open of uartfifo.c
UartIoctl(t) ==
  /\ driver = "uartfifo"
  /\ \/ (Calls(t, "flush") \/ Calls(t, "init")) /\ Forget({})
     \/ Calls(t, "open") /\ Forget({"read"})

\* I_FIFO_FLUSH and I_FIFO_INIT of usbfifo.c
UsbIoctl(t) ==
  /\ driver = "usbfifo"
  /\ \/ Calls(t, "flush") /\ FlushRead
     \/ Calls(t, "init") /\ Forget({})

\* I_FIFO_FLUSH and I_FIFO_INIT of device_fifo.c
DeviceFifoIoctl(t) ==
  /\ driver = "device_fifo"
  /\ Calls(t, "flush") \/ Calls(t, "init")
  /\ FlushRead

\* I_FIFO_SETATTR: writers block on a full buffer or overwrite it.
SetAttr(t, blocks) ==
  /\ Calls(t, "setattr") /\ driver \notin Inputs
  /\ writeblock' = blocks
  /\ IF blocks THEN DataTransmitted(ring, {})
     ELSE NothingToComplete /\ UNCHANGED <<ring, lost, produced, told>>
  /\ UNCHANGED <<driver, received>>

-----------------------------------------------------------------------------
FifoDeviceInit ==
  /\ KernelInit
  /\ driver \in Drivers[[program |-> program, base |-> base]]
  /\ ring = EmptyRing
  /\ writeblock = (driver \notin Inputs)
  /\ handler = [op \in Transfers |-> NoThread]
  /\ xfer = [t \in Threads |-> NoTransfer]
  /\ produced = 0 /\ told = 0 /\ received = {} /\ lost = {}

FifoStep(t) ==
  \/ \E n \in Lengths, nb \in BOOLEAN :
        (nb => "nonblock" \in program[t]) /\ (Read(t, n, nb) \/ Write(t, n, nb))
  \/ TransferReturn(t) \/ ClearDeviceAction(t)
  \/ FifoFlush(t) \/ FifoInit(t) \/ UartIoctl(t) \/ UsbIoctl(t) \/ DeviceFifoIoctl(t)
  \/ \E b \in BOOLEAN : SetAttr(t, b)

FifoNext ==
  \/ KernelStep /\ UNCHANGED device
  \/ \E k \in Lengths : UartDataReceived(k) \/ UsbDataReceived(k) \/ EventDataReady(k)
  \/ \E t \in Threads : FifoStep(t)

FifoSpec == FifoDeviceInit /\ [][FifoNext]_fifoVars

-----------------------------------------------------------------------------
(* Properties                                                              *)

NobodyCalls(op) == \A t \in Threads : op \notin program[t]

\* Every byte that entered the buffer is still in it, was copied to one reader,
\* or was overwritten or flushed: the head and the tail never lose count, also
\* when one call drains the ring and lets a waiting writer refill it.
FifoConservation ==
  /\ Bytes(ring) \cup received \cup lost = 1..produced
  /\ Cardinality(Bytes(ring)) + Cardinality(received) + Cardinality(lost) = produced

\* Readers get the bytes in the order they entered, whoever wrote and reads them.
FifoOrder ==
  [][\A b \in received' \ received, c \in received : c < b]_fifoVars

\* A thread asleep in a transfer is known to the driver, and has a reason to
\* wait: a reader an empty buffer, a writer a full one.  Nobody sleeps through
\* the data or the room fifo_data_received and fifo_data_transmitted announce.
\* Of devices nobody initialises or opens again meanwhile.
SleeperIsServed ==
  NobodyCalls("init") /\ NobodyCalls("open") =>
    \A t \in Threads : call[t].op = "transfer" /\ t \notin active =>
      /\ handler[xfer[t].op] = t
      /\ xfer[t].op = "read" => Used(ring) = 0
      /\ xfer[t].op = "write" => Used(ring) = Size

\* The driver points at a thread's arguments only while that thread is in the
\* call that owns them: devfs_data_transfer takes the async back before it
\* returns, by I_MCU_SETACTION if a signal interrupted it.
NoDanglingTransfer ==
  \A op \in Transfers : handler[op] # NoThread =>
     /\ xfer[handler[op]].op = op /\ xfer[handler[op]].result = 0
     /\ call[handler[op]].op \in {"transfer", "cancel"}

\* The bytes writers were told they have written did enter the buffer.
WriteCount == told = produced
=============================================================================

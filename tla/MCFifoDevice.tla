---------------------------- MODULE MCFifoDevice ----------------------------
(* Instances of FifoDevice for TLC.                                         *)
EXTENDS FifoDevice

All(v) == [t \in Threads |-> v]
Three(a, b, c) == [t \in Threads |-> IF t = 1 THEN a ELSE IF t = 2 THEN b ELSE c]
With(p, b) == [program |-> p, base |-> b]

\* A reader and two writers, one of a higher priority; two readers and a writer
\* that does not block; devices that are flushed and set up anew.
Writers == With(Three({"read"}, {"write"}, {"write"}), Three(0, 0, 1))
Readers == With(Three({"read"}, {"read", "nonblock"}, {"write", "nonblock"}), All(0))
Setup   == With(Three({"read", "flush"}, {"write", "setattr"}, {"init", "open"}), All(0))
Attr    == With(Three({"read"}, {"write"}, {"setattr", "flush"}), All(0))

\* Readers and writers that get signals.
Signals == With(Three({"read", "signal"}, {"write", "signal"}, {"read", "write"}), All(0))
Writing == With(Three({"read"}, {"write", "signal"}, {"write"}), All(0))

Everything == {Writers, Readers, Setup, Attr, Signals, Writing}
Interrupted == {Signals}

\* All the drivers, but fifo.c without reads that a signal interrupts and without
\* I_FIFO_SETATTR while a writer waits.
Kinds == {"fifo", "ffifo", "uartfifo", "usbfifo", "device_fifo"}
DriversDef == [s \in Everything |-> IF s \in {Attr, Signals} THEN Kinds \ {"fifo"} ELSE Kinds]
FifoOnly == [s \in Interrupted |-> {"fifo"}]
=============================================================================

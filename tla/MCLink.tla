------------------------------- MODULE MCLink -------------------------------
(* Instances of Link for TLC.                                              *)
EXTENDS Link

Op(name) == [NoOp EXCEPT !.name = name]
Sized(name, n) == [Op(name) EXCEPT !.n = n]
LongPath(name) == [Op(name) EXCEPT !.long = TRUE]

\* Every call of the system, with transfers of no byte, of less than a packet, of one and
\* of two packets and in between.
OsCalls ==
  {Op(c) : c \in DOMAIN Calls \ {"readserialno", "read", "write", "erase", "writepage",
                                 "verify", "getinfo", "readflash"}}
  \cup {Sized(c, n) : c \in {"read", "write"}, n \in 0..4}

\* Nothing goes wrong on the way.  fstat does not fail on the device: if it does, host and
\* device are out of step.
Clean ==
  [kind |-> "os", calls |-> OsCalls, script |-> <<>>, ncalls |-> 2, retries |-> FALSE,
   succeed |-> {"fstat"}, faults |-> [late |-> 0, abort |-> 0, power |-> 0]]

\* Late answers and a host that ends, with calls of one, of two and of long payloads.
Faulty ==
  [Clean EXCEPT
     !.calls = {Op("open"), Op("rename"), Op("ioctl_rw"), Op("mkfs"),
                LongPath("mkdir"), Sized("write", 3), Sized("read", 3)},
     !.faults = [late |-> 2, abort |-> 1, power |-> 0]]

\* A host that calls again after a failed transfer, and recovers with link_handle_err.
Stubborn ==
  [Faulty EXCEPT
     !.calls = {Op("ioctl_r"), Sized("read", 3)},
     !.retries = TRUE, !.ncalls = 3, !.faults = [late |-> 1, abort |-> 0, power |-> 0]]

\* The boot loader's calls, in any order.
BootCalls ==
  [Clean EXCEPT
     !.kind = "boot", !.succeed = {},
     !.calls = {Op("getinfo"), Sized("readflash", 3), Op("ioctl_r"), Op("open")}]

\* An update of the program.
Update ==
  [BootCalls EXCEPT
     !.calls = {}, !.ncalls = 4,
     !.script = <<Op("erase"), Sized("writepage", 1), Sized("writepage", 2), Op("verify")>>,
     !.faults = [late |-> 2, abort |-> 1, power |-> 1]]

Everything == {Clean, Faulty, Stubborn, BootCalls, Update}
=============================================================================

-------------------------------- MODULE Link --------------------------------
(***************************************************************************)
(* A host that calls a device over the link: the host's library, the two    *)
(* streams and the device's command loop together.                          *)
(***************************************************************************)
EXTENDS LinkHost, LinkDevice, FiniteSets

CONSTANT Scenarios
\* The hosts to look at, records of
\*   kind     the command loop that runs at first, of the system ("os") or the boot loader
\*   script   the calls in their order, each of them after the success of the one before,
\*            or <<>>: any of calls, in any order
\*   ncalls   how many calls at most
\*   retries  it makes a call although the last one failed in a transfer; the other hosts
\*            disconnect first
\*   succeed  the calls that do not fail on the device
\*   faults   bounds on late answers, on ends of the host's process, on power failures

VARIABLES
  scenario,   \* what this host does
  ncalls,     \* how many calls it made
  faults      \* the faults that may still happen

linkVars == <<streams, host, device, scenario, ncalls, faults>>

LinkInit ==
  /\ scenario \in Scenarios
  /\ toDev = <<>> /\ toHost = <<>>
  /\ host = Idle
  /\ dev = Loop(scenario.kind)
  /\ flash \in [0..Pages -> {"old"}]
  /\ ncalls = 0
  /\ faults = scenario.faults

Fault(f) == faults[f] > 0 /\ faults' = [faults EXCEPT ![f] = @ - 1]
rest == <<scenario, ncalls>>

\* The next call: any of the scenario's, or the next one of its script.
NextCalls ==
  IF scenario.script = <<>> THEN scenario.calls
  ELSE IF ncalls < Len(scenario.script) /\ host.ok THEN {scenario.script[ncalls + 1]} ELSE {}

\* The device waits for the host.
Silent == toDev = <<>> /\ Receiving

\* The host connects once the device has settled.
HostConnect ==
  /\ Silent
  /\ link_connect
  /\ ncalls' = IF scenario.script = <<>> THEN ncalls ELSE 0
  /\ UNCHANGED <<device, scenario, faults>>

\* A host that gives up a connection does so of its own accord.
HostDisconnect == link_disconnect /\ UNCHANGED <<device, rest, faults>>

HostCall ==
  /\ ncalls < scenario.ncalls /\ (host.clean \/ scenario.retries)
  /\ \E op \in NextCalls : Begin(op, ncalls + 1)
  /\ ncalls' = ncalls + 1
  /\ UNCHANGED <<device, scenario, faults>>

HostTransfer ==
  /\ MasterSend \/ WaitAck \/ WaitProbe \/ MasterRead
  /\ UNCHANGED <<device, rest, faults>>

\* The host's timeout passes: nothing can come any more, or the device is late.
HostGivesUp == Silent /\ HostTimeout /\ UNCHANGED <<device, rest, faults>>
HostTooEarly == ~Silent /\ HostTimeout /\ Fault("late") /\ UNCHANGED <<device, rest>>

HostEnds == Abort /\ Fault("abort") /\ UNCHANGED <<device, rest>>

MayFail == dev.op.name \notin scenario.succeed

DeviceStep ==
  /\ \/ SlaveNack \/ SlaveCommand \/ PathTooLong \/ SlaveSend \/ EraseFlash
     \/ \E fails \in BOOLEAN : (fails => MayFail) /\ SlavePayload(fails)
     \/ \E ok \in BOOLEAN : (MayFail \/ ok) /\ (Run(ok) \/ Program(ok) \/ Commit(ok))
     \/ \E a \in 0..dev.op.n : SlaveReadFile(a)
  /\ UNCHANGED <<host, rest, faults>>

\* Power fails; the host's open device is gone.
PowerFails ==
  /\ Restart /\ Fault("power")
  /\ host' = [Idle EXCEPT !.epoch = host.epoch]
  /\ UNCHANGED rest

LinkNext ==
  \/ HostConnect \/ HostDisconnect \/ HostCall \/ HostTransfer
  \/ HostGivesUp \/ HostTooEarly \/ HostEnds \/ DeviceStep \/ PowerFails

\* Fairness: the library's loops and timeouts and the device's loop go on, and the host
\* tries to connect again when it can.
LinkSpec ==
  /\ LinkInit /\ [][LinkNext]_linkVars
  /\ WF_linkVars(HostTransfer \/ HostGivesUp) /\ WF_linkVars(DeviceStep)
  /\ WF_linkVars(HostConnect)
-----------------------------------------------------------------------------
(* Properties                                                              *)

Ready == host.pc = "idle" /\ host.open /\ host.clean

\* The steps by which a handler takes or sends something; an entry that was not asked for
\* is not sent.
Talks(s) == s \in Payloads \cup {"file out", "io out", "reply", "entry anyway"}

\* Host and device agree on where a call ends: when one that met no fault has returned,
\* nothing of it is in the streams and its handler takes and sends nothing more, whatever
\* the call, its result and the sizes of its transfers are.  The lists of transfers are
\* written twice, in src/link/link_*.c and in the handlers of link_thread.c and
\* boot_link.c.
LinkInStep ==
  Ready => /\ toDev = <<>> /\ toHost = <<>>
           /\ \A i \in 1..Len(dev.prog) : ~Talks(dev.prog[i])

\* A call that returns its result returns what the device sent for this very call and not
\* a late answer to an earlier one: after late answers, and after a host that ended in the
\* middle of a call, opening the device and probing it (link_connect, resolve_protocol)
\* find a fresh start.
LinkOwnResult == Ready => host.got \subseteq {host.id}

\* The device runs a call, or programs a page, only with paths and data that the host sent
\* for that call, if the host disconnects after a failed transfer: a handler that waits for
\* its payload while the host has given up or has ended does not take the packets of the
\* next connection for it (slaveread refuses the probe that comes first, and with it the
\* payload).
LinkOwnPayload ==
  At({"run", "program", "commit"}) /\ ~scenario.retries => dev.pay \subseteq {dev.id}

\* Whatever fails in an update, flash memory, the host or the power, and wherever: the
\* program that check_run_app would start is whole, all of it the old or all of it the new
\* one.  The stack pointer is erased first and written last.
BootsWholeImage == RunsApp(flash) => \A p \in 0..Pages : flash[p] = flash[0]

\* A host that keeps trying to connect gets a connection: no fault leaves the device where
\* a probe is not answered or a serial number not read.
LinkReconnects == ~host.open ~> host.open
=============================================================================

------------------------------ MODULE LinkHost ------------------------------
(***************************************************************************)
(* The host's library: link_connect and the calls that run on the device.  *)
(* A call is a list of transfers, written or read by the master side of the *)
(* transport, and link_handle_err when one of them fails.                   *)
(***************************************************************************)
EXTENDS LinkTransport

VARIABLE host

\* The calls.  handled: a failed transfer ends in link_handle_err and not in a return;
\* checks: the path's length is checked before anything is sent.
Call(steps, handled, checks) == [steps |-> steps, handled |-> handled, checks |-> checks]

link_readserialno == Call(<<"op", "reply", "entry">>, TRUE, FALSE)
link_open    == Call(<<"op", "path", "reply">>, TRUE, TRUE)
link_close   == Call(<<"op", "reply">>, TRUE, FALSE)
link_read    == Call(<<"op", "file in", "reply">>, TRUE, FALSE)
link_write   == Call(<<"op", "file out", "reply">>, TRUE, FALSE)
link_ioctl   == Call(<<"op", "reply">>, TRUE, FALSE)
link_ioctl_w == Call(<<"op", "io out", "reply">>, TRUE, FALSE)
link_ioctl_r == Call(<<"op", "io in", "reply">>, TRUE, FALSE)
link_ioctl_rw == Call(<<"op", "io out", "io in", "reply">>, TRUE, FALSE)
link_symlink == Call(<<"op", "path", "path", "reply">>, FALSE, TRUE)
link_unlink  == Call(<<"op", "path", "reply">>, FALSE, TRUE)
link_lseek   == Call(<<"op", "reply">>, FALSE, FALSE)
link_stat    == Call(<<"op", "path", "reply", "entry">>, FALSE, TRUE)
link_fstat   == Call(<<"op", "reply", "entry">>, FALSE, FALSE)
link_rename  == Call(<<"op", "path", "path", "reply">>, FALSE, TRUE)
link_chown   == Call(<<"op", "path", "reply">>, FALSE, TRUE)
link_chmod   == Call(<<"op", "path", "reply">>, FALSE, TRUE)
link_mkdir   == Call(<<"op", "path", "reply">>, FALSE, FALSE)
link_rmdir   == Call(<<"op", "path", "reply">>, FALSE, FALSE)
link_opendir == Call(<<"op", "path", "reply">>, FALSE, FALSE)
link_readdir_r == Call(<<"op", "reply", "entry">>, FALSE, FALSE)
link_closedir == Call(<<"op", "reply">>, FALSE, FALSE)
link_exec    == Call(<<"op", "path", "reply">>, FALSE, TRUE)
link_mkfs    == Call(<<"op", "path", "reply">>, FALSE, FALSE)
link_eraseflash == link_ioctl
link_writeflash == link_ioctl_w
link_verify_signature == link_ioctl_w
link_bootloader_attr == link_ioctl_r
link_readflash == Call(<<"op", "file in", "reply">>, FALSE, FALSE)

Calls ==
  [readserialno |-> link_readserialno, open |-> link_open, close |-> link_close,
   read |-> link_read, write |-> link_write, ioctl |-> link_ioctl,
   ioctl_w |-> link_ioctl_w, ioctl_r |-> link_ioctl_r, ioctl_rw |-> link_ioctl_rw,
   symlink |-> link_symlink, unlink |-> link_unlink, lseek |-> link_lseek,
   stat |-> link_stat, fstat |-> link_fstat, rename |-> link_rename,
   chown |-> link_chown, chmod |-> link_chmod, mkdir |-> link_mkdir,
   rmdir |-> link_rmdir, opendir |-> link_opendir, readdir |-> link_readdir_r,
   closedir |-> link_closedir, exec |-> link_exec, mkfs |-> link_mkfs,
   erase |-> link_eraseflash, writepage |-> link_writeflash,
   verify |-> link_verify_signature, getinfo |-> link_bootloader_attr,
   readflash |-> link_readflash]

Steps(h) == Calls[h.op.name].steps
Step(h)  == Steps(h)[h.step]
IsWrite(s) == s \in {"op", "path", "file out", "io out"}

\* The bytes of a transfer; those of an I/O control differ from those of a reply.
Bytes(s, op) ==
  CASE s \in {"file in", "file out"} -> op.n
    [] s \in {"io in", "io out"}     -> 2
    [] OTHER                         -> 1

Idle == [pc |-> "idle", op |-> NoOp, id |-> NoId, step |-> 1, bytes |-> 0, tries |-> 0,
         recovers |-> FALSE, version |-> 0, open |-> FALSE, ok |-> TRUE,
         clean |-> TRUE, got |-> {}, epoch |-> 0]

\* How many bytes the masterwrite or masterread at hand has to move.
Length(h) == IF h.recovers THEN 0 ELSE Bytes(Step(h), h.op)

-----------------------------------------------------------------------------
(* The end of a call                                                       *)

\* The call returns; link_connect keeps the connection if it read a serial number.
Return(h) ==
  [h EXCEPT !.pc = "idle", !.recovers = FALSE,
            !.open = IF h.op.name = "readserialno" THEN h.clean ELSE h.open]

Broken(h) == Return([h EXCEPT !.clean = FALSE, !.ok = FALSE])

\* The next transfer.
Advance(h) ==
  LET next == h.step + 1
      end  == next > Len(Steps(h)) \/ (Steps(h)[next] = "entry" /\ ~h.ok)
  IN IF end THEN Return(h)
     ELSE [h EXCEPT !.step = next, !.bytes = 0,
                    !.pc = IF IsWrite(Steps(h)[next]) THEN "write" ELSE "read"]

\* link_handle_err once the host has flushed: only a protocol error is worked on, with
\* packets of size 0 until one is acknowledged.
link_handle_err(h, err) ==
  IF err = "prot"
  THEN [h EXCEPT !.recovers = TRUE, !.tries = 0, !.bytes = 0, !.pc = "write", !.clean = FALSE]
  ELSE Broken(h)

MAX_TRIES == 2
Epochs == 2     \* a bound: connections are numbered modulo Epochs

\* A transfer fails with err.
Fail(h, err) ==
  IF h.recovers
  THEN IF h.tries + 1 < MAX_TRIES
       THEN [h EXCEPT !.tries = h.tries + 1, !.pc = "write"]
       ELSE Broken(h)
  ELSE IF Calls[h.op.name].handled /\ ~(h.op.name = "readserialno" /\ h.step = 3)
       THEN link_handle_err(h, err)
       ELSE Broken(h)

\* A masterwrite is done; one that recovers flushes and gives up the call.
Written(h) == IF h.recovers THEN Broken(h) ELSE Advance(h)

-----------------------------------------------------------------------------
(* The actions                                                             *)

Start(op, id, h) ==
  [h EXCEPT !.op = op, !.id = id, !.step = 1, !.bytes = 0, !.ok = TRUE, !.got = {},
            !.pc = "write"]

link_connect_KeepsVersion ==
  /\ host.pc = "idle" /\ ~host.open
  /\ LET epoch == (host.epoch + 1) % Epochs
     IN host' = Start([NoOp EXCEPT !.name = "readserialno"], <<epoch, 0>>,
                      [host EXCEPT !.clean = TRUE, !.epoch = epoch])
  /\ toHost' = <<>>
  /\ UNCHANGED toDev

\* link_connect opens the device, which flushes it, and reads the serial number.
link_connect ==
  /\ host.pc = "idle" /\ ~host.open
  /\ LET epoch == (host.epoch + 1) % Epochs
     IN host' = Start([NoOp EXCEPT !.name = "readserialno"], <<epoch, 0>>,
                      [host EXCEPT !.version = 0, !.clean = TRUE, !.epoch = epoch])
  /\ toHost' = <<>>
  /\ UNCHANGED toDev

link_disconnect ==
  /\ host.pc = "idle" /\ host.open
  /\ host' = [host EXCEPT !.open = FALSE]
  /\ UNCHANGED streams

\* A call begins.  A path whose length it checks is not too long.
Begin(op, n) ==
  /\ host.pc = "idle" /\ host.open
  /\ op.long => ~Calls[op.name].checks
  /\ host' = Start(op, <<host.epoch, n>>, host)
  /\ UNCHANGED streams

\* masterwrite sends a packet; resolve_protocol sends the probe first.
MasterSend ==
  /\ host.pc = "write"
  /\ IF host.version = 0
     THEN toDev' = Append(toDev, Probe) /\ host' = [host EXCEPT !.pc = "probe"]
     ELSE LET body == IF host.recovers THEN NoBody
                      ELSE Body(host.id, IF Step(host) = "op" THEN host.op ELSE NoOp)
          IN /\ toDev' = Append(toDev, Packet(body, NextSize(Length(host), host.bytes)))
             /\ host' = [host EXCEPT !.pc = "ack"]
  /\ UNCHANGED toHost

\* What two bytes read from q leave of it.
Two(q) ==
  CASE Head(q).kind = "packet" -> {<<Rest>> \o Tail(q)}
    [] Head(q).kind = "rest"   -> {q, Tail(q)}
    [] OTHER                   -> {Tail(q)}

\* wait_ack, and masterwrite after it.
WaitAck ==
  /\ host.pc = "ack" /\ toHost # <<>>
  /\ UNCHANGED toDev
  /\ \/ /\ Head(toHost).kind = "ack"
        /\ LET size == NextSize(Length(host), host.bytes)
               h == [host EXCEPT !.bytes = @ + size]
           IN host' = IF Last(Length(host), host.bytes, size)
                      THEN Written(h) ELSE [h EXCEPT !.pc = "write"]
        /\ IF host.recovers THEN toHost' \in Flushed(Tail(toHost))
           ELSE toHost' = Tail(toHost)
     \/ /\ Head(toHost).kind # "ack"           \* the first byte is not LINK2_PACKET_ACK
        /\ host' = Fail(host, "other")
        /\ \E q \in Two(toHost) :
             IF Calls[host.op.name].handled /\ ~host.recovers
             THEN toHost' \in Flushed(q) ELSE toHost' = q
     \/ /\ Head(toHost).kind = "rest"          \* nor is the second one the checksum
        /\ host' = Fail(host, "prot")
        /\ \E q \in Two(toHost) : toHost' \in Flushed(q)

\* resolve_protocol looks at the answer to its probe.
WaitProbe ==
  /\ host.pc = "probe" /\ toHost # <<>>
  /\ UNCHANGED toDev
  /\ IF Head(toHost).kind = "nack"
     THEN host' = [host EXCEPT !.version = 2, !.pc = "write"] /\ toHost' = Tail(toHost)
     ELSE /\ host' = Fail(host, "prot")
          /\ \E q \in Two(toHost) : toHost' \in Flushed(q)

\* masterread takes a packet, or finds that there is none where it looks.
MasterRead ==
  /\ host.pc = "read" /\ toHost # <<>>
  /\ UNCHANGED toDev
  /\ LET p == Head(toHost)
         size == Least(p.size, Length(host) - host.bytes)
         h == [host EXCEPT !.bytes = @ + size, !.got = @ \cup {p.body.id},
                           !.ok = IF Step(host) = "reply" THEN p.body.ok ELSE @]
         ended == Last(Length(host), host.bytes, size)
         short == Step(host) = "io in" /\ h.bytes # Length(host)
     IN IF p.kind # "packet"
        THEN host' = Fail(host, "prot") /\ toHost' \in Flushed(Tail(toHost))
        ELSE IF ended /\ short /\ h.bytes # Bytes("reply", host.op)
        THEN host' = link_handle_err(h, "prot") /\ toHost' \in Flushed(Tail(toHost))
        ELSE /\ toHost' = Tail(toHost)
             /\ host' = IF ~ended THEN h
                        ELSE IF short THEN Return([h EXCEPT !.ok = p.body.ok])  \* a reply
                        ELSE Advance(h)

\* Nothing comes within the timeout.  resolve_protocol turns this into a protocol error.
HostTimeout ==
  /\ host.pc \in {"ack", "probe", "read"} /\ toHost = <<>>
  /\ host' = Fail(host, IF host.pc = "probe" THEN "prot" ELSE "timeout")
  /\ UNCHANGED streams

\* The host's process ends, in the middle of a call or not.
Abort ==
  /\ host.open \/ host.pc # "idle"
  /\ host' = [Idle EXCEPT !.epoch = host.epoch]
  /\ UNCHANGED streams
=============================================================================

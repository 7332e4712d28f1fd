----------------------------- MODULE LinkDevice -----------------------------
(***************************************************************************)
(* The device's side: the command loops of the system (link_thread.c) and   *)
(* of the boot loader (boot_link.c) over the slave side of the transport.   *)
(* A command's handler is a list of steps: the payloads it reads, the call  *)
(* it runs, and what it sends.  The device's reads block: only the host has *)
(* timeouts.                                                                *)
(***************************************************************************)
EXTENDS LinkTransport

CONSTANTS
  Pages,    \* the pages of the program that follow the first 256 bytes: 1..Pages
  Signed    \* CONFIG_BOOT_IS_VERIFY_SIGNATURE

VARIABLES
  dev,      \* the command loop
  flash     \* the program: flash[0] is its first 256 bytes, with the stack pointer

device == <<dev, flash>>

Blank == "blank"

\* prog: what the handler has left to do; reply: data.reply, which is not cleared;
\* pay: the calls whose payloads the handler took; first: first_page; hash: the pages
\* the signature covers.
Loop(kind) ==
  [kind |-> kind, prog |-> <<>>, op |-> NoOp, id |-> NoId, bytes |-> 0,
   reply |-> NoBody, pay |-> {}, first |-> "zero", hash |-> <<>>]

-----------------------------------------------------------------------------
(* The handlers of link_thread.c                                           *)

link_cmd_readserialno == <<"accept", "reply", "entry">>
link_cmd_open    == <<"path", "run", "reply">>
link_cmd_link    == <<"path", "path", "run", "reply">>
link_cmd_ioctl   == <<"run", "reply">>
link_cmd_ioctl_w == <<"io in", "run", "reply">>
link_cmd_ioctl_r_ReplyFirst == <<"run", "reply", "io out">>
link_cmd_ioctl_r == <<"run", "io out", "reply">>
link_cmd_ioctl_rw == <<"io in", "run", "io out", "reply">>
link_cmd_read    == <<"file out", "reply">>
link_cmd_write   == <<"file in", "reply">>
link_cmd_close   == <<"run", "reply">>
link_cmd_unlink  == <<"path", "run", "reply">>
link_cmd_lseek   == <<"run", "reply">>
link_cmd_stat    == <<"path", "run", "reply", "entry">>
link_cmd_fstat   == <<"run", "reply", "entry anyway">>
link_cmd_mkdir   == <<"path", "run", "reply">>
link_cmd_rmdir   == <<"path", "run", "reply">>
link_cmd_opendir == <<"path", "run", "reply">>
link_cmd_readdir == <<"run", "reply", "entry">>
link_cmd_closedir == <<"run", "reply">>
link_cmd_rename  == <<"path", "path", "run", "reply">>
link_cmd_chown   == <<"path", "run", "reply">>
link_cmd_chmod   == <<"path", "run", "reply">>
link_cmd_exec    == <<"path", "run", "reply">>
link_cmd_mkfs    == <<"path", "accept", "reply", "run">>

link_cmd_func_table ==
  [readserialno |-> link_cmd_readserialno, open |-> link_cmd_open, close |-> link_cmd_close,
   read |-> link_cmd_read, write |-> link_cmd_write, ioctl |-> link_cmd_ioctl,
   ioctl_w |-> link_cmd_ioctl_w, ioctl_r |-> link_cmd_ioctl_r,
   ioctl_rw |-> link_cmd_ioctl_rw, symlink |-> link_cmd_link, unlink |-> link_cmd_unlink,
   lseek |-> link_cmd_lseek, stat |-> link_cmd_stat, fstat |-> link_cmd_fstat,
   rename |-> link_cmd_rename, chown |-> link_cmd_chown, chmod |-> link_cmd_chmod,
   mkdir |-> link_cmd_mkdir, rmdir |-> link_cmd_rmdir, opendir |-> link_cmd_opendir,
   readdir |-> link_cmd_readdir, closedir |-> link_cmd_closedir, exec |-> link_cmd_exec,
   mkfs |-> link_cmd_mkfs,
   erase |-> link_cmd_ioctl, writepage |-> link_cmd_ioctl_w, verify |-> link_cmd_ioctl_w,
   getinfo |-> link_cmd_ioctl_r, readflash |-> link_cmd_read]

(* The handlers of boot_link.c; the cases of boot_link_cmd_ioctl one by one. *)

boot_link_cmd_readserialno == <<"accept", "reply", "entry">>
boot_erase     == <<"accept", "reply", "erase">>
boot_getinfo   == <<"accept", "io out", "reply">>
boot_writepage == <<"io in", "program", "reply">>
boot_verify    == <<"io in", "commit", "reply">>
boot_default   == <<"refuse", "reply">>
boot_link_cmd_read == <<"file out", "reply">>

boot_link_cmd_func_table ==
  [readserialno |-> boot_link_cmd_readserialno, erase |-> boot_erase,
   getinfo |-> boot_getinfo, writepage |-> boot_writepage, verify |-> boot_verify,
   readflash |-> boot_link_cmd_read, ioctl_r |-> boot_default]

\* A command that is not in the loop's table is refused.
Handler(kind, op) ==
  LET table == IF kind = "boot" THEN boot_link_cmd_func_table ELSE link_cmd_func_table
  IN IF op.name \in DOMAIN table THEN table[op.name] ELSE <<"refuse", "reply">>

Payloads == {"path", "io in", "file in"}

\* The bytes a payload has.
Expected(s, op) == CASE s = "file in" -> op.n [] s = "io in" -> 2 [] OTHER -> 1

\* What the device does next; "command" is the loop's slaveread.
Todo == IF dev.prog = <<>> THEN "command" ELSE Head(dev.prog)
Receiving == Todo \in Payloads \cup {"command"}

-----------------------------------------------------------------------------
(* slaveread                                                               *)

\* The loop takes a command.  boot_link_update clears the reply first.
Accept(p) ==
  [dev EXCEPT !.op = p.body.op, !.id = p.body.id, !.bytes = 0, !.pay = {},
              !.prog = IF p.body.op = NoOp THEN <<"refuse", "reply">>
                       ELSE Handler(dev.kind, p.body.op),
              !.reply = IF dev.kind = "boot" THEN Body(p.body.id, NoOp) ELSE @]

\* A payload could not be read.  A path's handler returns with the reply of an earlier
\* command in data.reply, and the loop sends it.
ReadFailed ==
  CASE Todo = "command" -> dev
    [] Todo = "path" -> [dev EXCEPT !.prog = <<"reply">>]
    [] Todo = "file in" ->
         [dev EXCEPT !.prog = <<"reply">>, !.reply = [Body(dev.id, NoOp) EXCEPT !.ok = FALSE]]
    [] Todo = "io in" ->
         IF dev.kind = "boot" THEN [dev EXCEPT !.prog = <<"reply">>]
         ELSE [dev EXCEPT !.prog = <<>>, !.reply.ok = FALSE]

SlaveNack_WaitsOn ==
  /\ Receiving /\ toDev # <<>> /\ Head(toDev).version # 2
  /\ toDev' \in Flushed(Tail(toDev))
  /\ toHost' = Append(toHost, Nack)
  /\ UNCHANGED device

SlaveNack_NoAnswer ==
  /\ Receiving /\ toDev # <<>> /\ Head(toDev).version # 2
  /\ toDev' \in Flushed(Tail(toDev))
  /\ dev' = ReadFailed
  /\ UNCHANGED <<toHost, flash>>

\* A packet of another version: the device flushes and answers LINK2_PACKET_NACK.
SlaveNack ==
  /\ Receiving /\ toDev # <<>> /\ Head(toDev).version # 2
  /\ toDev' \in Flushed(Tail(toDev))
  /\ toHost' = Append(toHost, Nack)
  /\ dev' = ReadFailed
  /\ UNCHANGED flash

\* A packet where a command is expected.  One without data is a ping.
SlaveCommand ==
  /\ Todo = "command" /\ toDev # <<>> /\ Head(toDev).version = 2
  /\ toHost' = Append(toHost, Ack)
  /\ IF Head(toDev).size = 0
     THEN toDev' \in Flushed(Tail(toDev)) /\ UNCHANGED dev
     ELSE toDev' = Tail(toDev) /\ dev' = Accept(Head(toDev))
  /\ UNCHANGED flash

\* A packet where a payload is expected, whatever it holds.  write_device_callback may
\* fail (the file's write fails): the packet is refused and the command over.
SlavePayload(fails) ==
  LET s == Todo
      p == Head(toDev)
      n == Expected(s, dev.op)
      d == [dev EXCEPT !.bytes = @ + p.size, !.pay = @ \cup {p.body.id}]
      reply == Body(dev.id, NoOp)
  IN /\ s \in Payloads /\ toDev # <<>> /\ p.version = 2
     /\ ~(s = "path" /\ dev.op.long)
     /\ \/ /\ ~fails
           /\ toHost' = Append(toHost, Ack)
           /\ dev' = IF ~Last(n, dev.bytes, p.size) THEN d
                     ELSE [d EXCEPT !.prog = Tail(@), !.bytes = 0,
                                    !.reply = IF s = "file in" THEN reply ELSE @]
           /\ IF d.bytes = 0 THEN toDev' \in Flushed(Tail(toDev)) ELSE toDev' = Tail(toDev)
        \/ /\ fails /\ s = "file in"
           /\ toHost' = Append(toHost, Nack)
           /\ dev' = [d EXCEPT !.prog = Tail(@), !.reply = [reply EXCEPT !.ok = FALSE]]
           /\ toDev' = Tail(toDev)
     /\ UNCHANGED flash

\* read_path does not read a path that is longer than its buffer.
PathTooLong ==
  /\ Todo = "path" /\ dev.op.long
  /\ toDev' \in Flushed(toDev)
  /\ dev' = ReadFailed
  /\ UNCHANGED <<toHost, flash>>

-----------------------------------------------------------------------------
(* The other steps of a handler                                            *)

At(steps) == Todo \in steps
Next1 == [dev EXCEPT !.prog = Tail(@)]
Result(ok) == [Next1 EXCEPT !.reply = [Body(dev.id, NoOp) EXCEPT !.ok = ok]]

\* The requests for the boot loader are refused by the system (EBADF).
ForBootLoader == {"erase", "writepage", "verify", "getinfo", "readflash"}

\* The call runs and succeeds or not; "accept" and "refuse" only set the reply.
Run(ok) ==
  /\ At({"run", "accept", "refuse"})
  /\ Todo = "accept" => ok
  /\ Todo = "refuse" => ~ok
  /\ Todo = "run" /\ dev.op.name \in ForBootLoader => ~ok
  /\ dev' = Result(ok)
  /\ UNCHANGED <<streams, flash>>

\* slavewrite: the reply, the data of an I/O control, or the entry that follows a reply.
SlaveSend ==
  /\ At({"reply", "io out", "entry", "entry anyway"})
  /\ LET s == Todo
         body == IF s = "reply" THEN dev.reply ELSE Body(dev.id, NoOp)
     IN toHost' = IF s = "entry" /\ ~dev.reply.ok THEN toHost
                  ELSE Append(toHost, Packet(body, IF s = "io out" THEN 2 ELSE 1))
  /\ dev' = Next1
  /\ UNCHANGED <<toDev, flash>>

\* read_device, read_flash: slavewrite with a callback that has a bytes.
SlaveReadFile(a) ==
  /\ At({"file out"})
  /\ toHost' = toHost \o SlavePackets(Body(dev.id, NoOp), dev.op.n, a)
  /\ \E ok \in IF a > 0 THEN {TRUE} ELSE BOOLEAN : dev' = Result(ok)
  /\ UNCHANGED <<toDev, flash>>

EraseFlash_Downwards ==
  /\ At({"erase"})
  /\ flash' = [flash EXCEPT ![Pages - dev.bytes] = Blank]
  /\ dev' = IF dev.bytes = Pages THEN [Next1 EXCEPT !.bytes = 0] ELSE [dev EXCEPT !.bytes = @ + 1]
  /\ UNCHANGED streams

\* erase_flash erases page after page, upwards.
EraseFlash ==
  /\ At({"erase"})
  /\ flash' = [flash EXCEPT ![dev.bytes] = Blank]
  /\ dev' = IF dev.bytes = Pages THEN [Next1 EXCEPT !.bytes = 0] ELSE [dev EXCEPT !.bytes = @ + 1]
  /\ UNCHANGED streams

\* I_BOOTLOADER_WRITEPAGE of page op.n: the first 256 bytes of the program stay in RAM.
\* Flash memory that fails leaves the page as it is.
Program(ok) ==
  /\ At({"program"})
  /\ flash' = [flash EXCEPT ![dev.op.n] = IF ok THEN "new" ELSE @]
  /\ dev' = [Result(ok) EXCEPT
               !.first = IF dev.op.n = 1 THEN "new" ELSE @,
               !.hash = IF dev.op.n = 1 THEN <<1>> ELSE Append(@, dev.op.n)]
  /\ UNCHANGED streams

Verified == Signed => dev.hash = [i \in 1..Pages |-> i]

\* I_BOOTLOADER_VERIFY_SIGNATURE: the first 256 bytes are written last.  The reply says
\* that all is well also when the image is not signed.
Commit(ok) ==
  /\ At({"commit"})
  /\ flash' = [flash EXCEPT ![0] = IF Verified /\ ok THEN dev.first ELSE @]
  /\ dev' = Result(~Verified \/ ok)
  /\ UNCHANGED streams

\* check_run_app finds a program; a pin or a word in RAM may still ask for the boot loader.
RunsApp(f) == f[0] # Blank

\* boot_main after a power failure: RAM and the streams are lost.
Restart ==
  /\ \E kind \in IF RunsApp(flash) THEN {"os", "boot"} ELSE {"boot"} : dev' = Loop(kind)
  /\ toDev' = <<>> /\ toHost' = <<>>
  /\ UNCHANGED flash
=============================================================================

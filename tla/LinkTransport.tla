---------------------------- MODULE LinkTransport ----------------------------
(***************************************************************************)
(* The packets of the link protocol between a host and a device, and the    *)
(* two byte streams that carry them.  The streams neither lose nor reorder  *)
(* (USB bulk endpoints), but a flush drops only what has arrived, and the   *)
(* device may answer after the host gave up.                                *)
(*                                                                          *)
(* A packet of version 2 is a start byte, a size of at most                 *)
(* LINK2_PACKET_DATA_SIZE and the data; the device acknowledges every       *)
(* packet of the host, the host acknowledges none.  A version 1 packet of   *)
(* size 0 is the probe by which the host finds out the version.             *)
(***************************************************************************)
EXTENDS Integers, Sequences

CONSTANT PacketMax   \* LINK2_PACKET_DATA_SIZE

VARIABLES
  toDev,   \* the packets on their way to the device
  toHost   \* the packets and acknowledgements on their way to the host

streams == <<toDev, toHost>>

NoOp == [name |-> "none", n |-> 0, long |-> FALSE]

\* What a packet carries: the command op of the host's call id, or data of that call; ok is
\* what a reply reports.  A call's id is the connection's number and the call's number in it.
\* Packets without data carry NoBody.
NoId == <<0, -1>>
Body(id, op) == [id |-> id, op |-> op, ok |-> TRUE]
NoBody == Body(NoId, NoOp)

Packet(body, size) == [kind |-> "packet", version |-> 2, size |-> size, body |-> body]
Zero  == Packet(NoBody, 0)
Probe == [Zero EXCEPT !.version = 1]
Ack   == [Zero EXCEPT !.kind = "ack"]
Nack  == [Zero EXCEPT !.kind = "nack"]

\* What is left of a packet two bytes of which were read as an acknowledgement.
Rest  == [Zero EXCEPT !.kind = "rest"]

Least(i, j) == IF i < j THEN i ELSE j

\* The size of the next packet when done of n bytes were sent, and whether a packet of
\* that size ends the transfer: the condition of all four loops.
NextSize(n, done) == Least(PacketMax, n - done)
Last(n, done, size) == done + size >= n \/ size < PacketMax

\* The packets slavewrite sends when its callback has a bytes for the n it is asked for
\* and then ends or fails.
SlavePackets(body, n, a) ==
  LET total == Least(a, n)
      count == IF total = n /\ n > 0 THEN (n + PacketMax - 1) \div PacketMax
               ELSE total \div PacketMax + 1
  IN [i \in 1..count |-> Packet(body, Least(PacketMax, total - (i - 1) * PacketMax))]

\* The streams a flush may leave: what has arrived is dropped, the rest is in flight.
Flushed(q) == {SubSeq(q, k + 1, Len(q)) : k \in 0..Len(q)}
=============================================================================

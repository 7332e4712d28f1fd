-------------------------------- MODULE Sffs --------------------------------
(***************************************************************************)
(* The Stratify flash file system: mounting with the recovery from a power *)
(* failure (sffs_init), formatting, and the calls on files.  A call runs    *)
(* under the mutex of the drive and is one step, which ends when the call   *)
(* returns or, after any of its writes, because power fails.                *)
(***************************************************************************)
EXTENDS SffsFile

CONSTANTS
  Names,       \* the names of files
  MaxOpen,     \* bound: the files open at a time
  Vals,        \* what a segment may hold
  MaxSegs,     \* bound: the segments of a file
  Scenarios    \* how the file system is used, with the bounds on the calls and on the boots

\* modes: how files are opened ("excl" creates them); over: files are overwritten, not only
\* appended to; crash: where power fails; open: how many files are open at a time.
ASSUME SffsAssumption ==
  /\ Names \subseteq STRING /\ 0 \notin Vals /\ MaxOpen \in Nat /\ MaxSegs \in Nat
  /\ \A s \in Scenarios :
        s \in [modes : SUBSET {"excl", "rdwr", "trunc", "read"}, over : BOOLEAN,
               crash : SUBSET {"call", "mount"}, open : 0..MaxOpen,
               sections : Nat, cap : Nat, calls : Nat, boots : Nat]

VARIABLES
  scenario,    \* how the file system is used
  flash,       \* the blocks of the drive and the scratch pad
  power,       \* "on" when mounted
  list_block,  \* sffs_state_t.list_block: where the list of serial numbers starts
  serialno,    \* sffs_state_t.serialno
  handle,      \* the cl_handle_t of each open file
  allowed,     \* what each file may contain (auxiliary)
  erred,       \* a call has failed since the file system was mounted (auxiliary)
  calls, boots

vars == <<scenario, flash, power, list_block, serialno, handle, allowed, erred, calls, boots>>

NoHandle ==
  [used |-> FALSE, w |-> FALSE, hdr |-> INVALID, list |-> INVALID, addr |-> <<0, 0>>, size |-> 0,
   segment |-> INVALID, val |-> 0, status |-> FREE, sn |-> 0, name |-> "none", img |-> <<>>]
Handles == 1..MaxOpen
Closed == [h \in Handles |-> NoHandle]

CL_BLOCK_LIST == 4660
MaxBadFiles == 4

\* Contents of a file, besides sequences of values.
Absent == <<-1>>
Unknown == <<-2>>

-----------------------------------------------------------------------------
(* The list of serial numbers                                              *)

\* sffs_serialno_mkfs
SerialnoMkfs(drive) ==
  Then(Alloc(drive, SerialnoList, INVALID, "snlist"), LAMBDA a :
    Then(CloseBlock(a, a.ret), LAMBDA c :
      ListAppend([c EXCEPT !.lb = a.ret], a.ret, "snlist", Item(SnCLOSED, SerialnoList, CL_BLOCK_LIST))))

\* sffs_mkfs
Mkfs(d) == SerialnoMkfs(Burn(d, EmptyFlash(Total(d.flash) \div EraseSize, d.flash.cap), TRUE))

\* find_list_block: the first list that is not being discarded.
FindListBlock(drive) ==
  LET Is(x, b, status) == BlockOf(x, b, status, SerialnoList) = CL_BLOCK_LIST
      Open(x, b) == IF x.flash.blk[b].status = OPEN THEN SetListStatus(x, b, CLOSED) ELSE x
      Look(y, b) ==
        Then(y, LAMBDA x :
          IF x.lb # INVALID \/ ~Live(x.flash.blk[b]) \/ x.flash.blk[b].type # "snlist" THEN x
          ELSE IF Is(x, b, SnCLOSED) THEN [Open(x, b) EXCEPT !.lb = b]
          ELSE IF Is(x, b, SnDISCARDING)
          THEN SetItem(SetListStatus(x, b, DIRTY), AddrOf(x, b, SnDISCARDING, SerialnoList), DIRTY)
          ELSE x)
  IN FoldLeft(Look, [drive EXCEPT !.lb = INVALID], [n \in 1..Total(drive.flash) |-> n - 1])

\* A mutation: the old list is marked before it is copied.
SerialnoConsolidateEarly(d) ==
  LET addr == AddrOf(d, d.lb, SnCLOSED, SerialnoList)
  IN Then(Consolidate(SetItem(d, addr, SnDISCARDING), SerialnoList, d.lb, "snlist"), LAMBDA c :
       Then(SetItem(SetListStatus(SetListStatus(c, c.ret, CLOSED), d.lb, DIRTY), addr, DIRTY),
            LAMBDA x : [x EXCEPT !.lb = c.ret]))

\* consolidate_list: copy the list, mark the old one, close the copy, discard the old one.
SerialnoConsolidate(d) ==
  LET addr == AddrOf(d, d.lb, SnCLOSED, SerialnoList)
  IN Then(Consolidate(d, SerialnoList, d.lb, "snlist"), LAMBDA c :
       Then(SetItem(SetListStatus(SetListStatus(SetItem(c, addr, SnDISCARDING), c.ret, CLOSED),
                                  d.lb, DIRTY), addr, DIRTY),
            LAMBDA x : [x EXCEPT !.lb = c.ret]))

\* sffs_serialno_init: look for a serial number whose file has to be cleaned (bad) and for
\* the largest one.
ScanSerialnos(d, b) ==
  LET Bad(e) == e.item.status \notin {SnCLOSED, DIRTY}
      Good(e) == e.item.status = SnCLOSED
  IN On(List(d, b), LAMBDA list :
       [d |-> IF list.end = "none" THEN Fail(d) ELSE d,
        bad |-> SelectSeq(list.seen, Bad),
        sn |-> Max({1} \cup {e.item.key : e \in ToSet(SelectSeq(list.seen, Good))}) + 1])

\* sffs_serialno_init: the first time, find the list and consolidate it (an error of that is
\* ignored); that time the old list is scanned.
SerialnoInit(drive) ==
  IF drive.lb \notin {0, INVALID} THEN ScanSerialnos(drive, drive.lb)
  ELSE On(FindListBlock(drive), LAMBDA found :
         IF ~found.ok \/ found.lb = INVALID THEN [d |-> Fail(found), bad |-> <<>>, sn |-> 0]
         ELSE ScanSerialnos([SerialnoConsolidate(found) EXCEPT !.ok = TRUE], found.lb))

\* sffs_block_discardopen
DiscardOpen(drive) ==
  LET DiscardOne(x, b) == Then(x, LAMBDA d : IF d.flash.blk[b].status = OPEN THEN Discard(d, b) ELSE d)
  IN Then(drive, LAMBDA d : FoldLeft(DiscardOne, d, [b \in FirstBlock..Total(d.flash) - 1 |-> b]))

\* sffs_init: clean file by file, then restore the scratch pad.  With too many files to
\* clean, or without a list, the drive is formatted.
RECURSIVE SffsInit(_, _, _)
SffsInit(drive, count, dirty) ==
  LET Result(d, as, sn) == [d |-> d, as |-> as, sn |-> sn]
      Ready(d, sn) == On(IF dirty THEN DiscardOpen(ScratchRestore(d)) ELSE ScratchRestore(d),
                         LAMBDA x : Result(x, IF x.ok THEN "on" ELSE "failed", sn))
  IN On(SerialnoInit(drive), LAMBDA i :
       IF ~i.d.ok THEN Result(Mkfs(i.d), "formatted", 0)
       ELSE IF i.bad = <<>> THEN Ready(i.d, i.sn)
       ELSE On(FileClean(i.d, i.bad[1].item.key, i.bad[1].item.block, i.bad[1].item.status), LAMBDA c :
              IF ~c.ok THEN Result(c, "failed", 0)
              ELSE IF count = MaxBadFiles THEN Result(Mkfs(c), "formatted", 0)
              ELSE SffsInit(c, count + 1, dirty \/ c.ret = 1)))

-----------------------------------------------------------------------------
(* Looking at files                                                        *)

Drive(h) == DriveOf(flash, list_block, h)

\* sffs_dir_lookup: the serial number of the first closed file with this name.
Lookup(n) ==
  LET Is(e) == e.item.status = SnCLOSED /\ e.item.key # SerialnoList
               /\ flash.blk[e.item.block].name = n
  IN SelectSeq(List(Drive(NoHandle), list_block).seen, Is)
Exists(n) == Lookup(n) # <<>>
SerialnoOf(n) == Lookup(n)[1].item.key

\* The values of the first size segments of a list.
Segments(list, size) ==
  LET Val(b) == IF b = INVALID THEN 0 ELSE flash.blk[b].val
  IN [i \in 1..size |-> Val(BlockOf(Drive(NoHandle), list, CURRENT, i - 1))]

Stored(n) ==
  IF ~Exists(n) THEN Absent
  ELSE LET hdr == flash.blk[Lookup(n)[1].item.block]
       IN Segments(hdr.content, IF hdr.size < 0 THEN 0 ELSE hdr.size)

-----------------------------------------------------------------------------
(* Calls                                                                   *)

Calls == power = "on" /\ calls < scenario.calls /\ calls' = calls + 1

\* Power fails when the flash is f: what is in memory is lost.
PowerFailsAt(f) ==
  /\ boots < scenario.boots
  /\ flash' = f /\ power' = "off" /\ handle' = Closed
  /\ list_block' = 0 /\ serialno' = 0
  /\ erred' = FALSE
  /\ UNCHANGED <<scenario, boots>>

\* Power fails after one of the writes of a call; the file has one of contents then.
PowerFailsIn(d, n, contents) ==
  /\ "call" \in scenario.crash
  /\ \E k \in DOMAIN d.log : PowerFailsAt(d.log[k])
  /\ allowed' = [allowed EXCEPT ![n] = @ \cup contents]

\* The call returns.  The model ends when the allocator has left the drive.
Finish(d) ==
  /\ flash' = d.flash
  /\ power' = IF d.outside THEN "outside" ELSE "on"
  /\ list_block' = d.lb
  /\ erred' = (erred \/ ~d.ok)
  /\ UNCHANGED <<scenario, boots>>

\* Between two calls; in an orderly way when no file is open.
PowerFails ==
  /\ power = "on"
  /\ "call" \in scenario.crash \/ handle = Closed
  /\ PowerFailsAt(flash)
  /\ UNCHANGED <<allowed, calls>>

\* sffs_init at boot
Mount ==
  /\ power \in {"off", "formatted", "failed"} /\ boots < scenario.boots
  /\ boots' = boots + 1
  /\ \E r \in {SffsInit(Drive(NoHandle), 0, FALSE)} :
        \/ /\ flash' = r.d.flash
           /\ power' = IF r.d.outside THEN "outside" ELSE r.as
           /\ list_block' = IF r.as = "on" THEN r.d.lb ELSE 0
           /\ serialno' = r.sn
        \/ /\ "mount" \in scenario.crash /\ boots' < scenario.boots
           /\ \E k \in DOMAIN r.d.log : flash' = r.d.log[k]
           /\ UNCHANGED <<power, list_block, serialno>>
  /\ UNCHANGED <<scenario, handle, allowed, erred, calls>>

InUse(n) == \E h \in Handles : handle[h].used /\ handle[h].name = n

FileOpen(d, sn, mode) ==
  LET hb == Lookup(d.h.name)[1].item.block
  IN IF mode = "read" THEN OpenToRead(d, sn, hb) ELSE OpenToWrite(d, sn, hb, mode = "trunc")

\* sffs_open
OpenFile(h, n, mode) ==
  /\ Calls /\ mode \in scenario.modes /\ ~InUse(n)
  /\ h <= scenario.open /\ h = Min({i \in Handles : ~handle[i].used} \cup {MaxOpen + 1})
  /\ Exists(n) # (mode = "excl")
  /\ LET sn == IF Exists(n) THEN SerialnoOf(n) ELSE serialno + 1
         trunc == mode = "trunc"
         start == [NoHandle EXCEPT !.used = TRUE, !.name = n,
                                   !.img = IF trunc \/ ~Exists(n) THEN <<>> ELSE Stored(n)]
     IN \E d \in {IF Exists(n) THEN FileOpen(Drive(start), sn, mode)
                  ELSE FileNew(Drive(start), n, sn)} :
          \/ /\ Finish(d)
             /\ handle' = [handle EXCEPT ![h] = IF d.ok THEN d.h ELSE NoHandle]
             /\ serialno' = IF Exists(n) THEN serialno ELSE sn
             /\ UNCHANGED allowed
          \/ PowerFailsIn(d, n, {})

\* The buffer of a handle with segment loc written.
Buffered(h, loc, v) ==
  [h EXCEPT !.val = v, !.status = CLOSED, !.size = IF loc + 1 > h.size THEN loc + 1 ELSE h.size]

\* sffs_file_finishwrite
FinishWrite(drive, loc, n, v) ==
  Then(LoadSegment(SaveSegment(drive), loc), LAMBDA one :
    LET first == [one EXCEPT !.h = Buffered(one.h, loc, v)]
        Sized(d) == [d EXCEPT !.h.size = IF loc + n > @ THEN loc + n ELSE @]
    IN IF n = 1 THEN first
       ELSE LoadSegment(Then(WriteSegments(SaveSegment(first), loc + 1, n - 1, v), Sized), loc + n))

\* What the file looks like to its writer after n values at loc.
Overwrite(s, loc, n, v) ==
  [i \in 1..(IF loc + n > Len(s) THEN loc + n ELSE Len(s)) |-> IF i > loc /\ i <= loc + n THEN v ELSE s[i]]

\* sffs_write: the segment in the buffer needs no access to the drive.
WriteFile(h, loc, n, v) ==
  /\ Calls /\ handle[h].used /\ handle[h].w
  /\ loc <= handle[h].size /\ loc + n <= MaxSegs
  /\ scenario.over \/ loc = handle[h].size
  /\ LET x == [handle[h] EXCEPT !.img = IF @ = Unknown THEN @ ELSE Overwrite(@, loc, n, v)]
         k == IF loc = x.segment THEN 1 ELSE 0
         y == IF k = 1 THEN Buffered(x, loc, v) ELSE x
     IN \E d \in {IF n = k THEN Drive(y) ELSE FinishWrite(Drive(y), loc + k, n - k, v)} :
          \/ /\ Finish(d)
             /\ handle' = [handle EXCEPT ![h] = IF d.ok THEN d.h ELSE [d.h EXCEPT !.img = Unknown]]
             /\ UNCHANGED <<serialno, allowed>>
          \/ PowerFailsIn(d, x.name, {})

\* sffs_read of one segment: the buffer is saved before another one is loaded.
ReadFile(h, loc) ==
  /\ Calls /\ handle[h].used /\ loc <= handle[h].size
  /\ loc # handle[h].segment \/ loc = handle[h].size
  /\ \E d \in {LoadSegment(SaveSegment(Drive(handle[h])), loc)} :
       \/ /\ Finish(d)
          /\ handle' = [handle EXCEPT ![h] = IF d.ok THEN d.h ELSE [d.h EXCEPT !.img = Unknown]]
          /\ UNCHANGED <<serialno, allowed>>
       \/ PowerFailsIn(d, handle[h].name, {})

\* sffs_close
CloseFile(h) ==
  /\ Calls /\ handle[h].used
  /\ LET x == handle[h]
     IN \E d \in {FileClose(Drive(x))} :
          \/ /\ Finish(d)
             /\ handle' = [handle EXCEPT ![h] = NoHandle]
             /\ allowed' = [allowed EXCEPT ![x.name] =
                              IF ~x.w THEN @ ELSE IF d.ok THEN {x.img} ELSE @ \cup {x.img}]
             /\ UNCHANGED serialno
          \/ PowerFailsIn(d, x.name, {x.img})

\* sffs_unlink: not of a file that somebody writes.
Unlink(n) ==
  /\ Calls /\ Exists(n) /\ ~InUse(n)
  /\ BlockOf(Drive(NoHandle), list_block, SnOPEN, SerialnoOf(n)) = INVALID
  /\ \E d \in {FileRemove(Drive(NoHandle), SerialnoOf(n))} :
       \/ /\ Finish(d)
          /\ allowed' = [allowed EXCEPT ![n] = IF d.ok THEN {Absent} ELSE @ \cup {Absent}]
          /\ UNCHANGED <<handle, serialno>>
       \/ PowerFailsIn(d, n, {Absent})

-----------------------------------------------------------------------------
SffsInitial ==
  /\ scenario \in Scenarios
  /\ flash = SerialnoMkfs(DriveOf(EmptyFlash(scenario.sections, scenario.cap), 0, NoHandle)).flash
  /\ power = "off" /\ list_block = 0 /\ serialno = 0
  /\ handle = Closed
  /\ allowed = [n \in Names |-> {Absent}]
  /\ erred = FALSE
  /\ calls = 0 /\ boots = 0

SffsNext ==
  \/ Mount \/ PowerFails
  \/ \E h \in Handles :
       \/ \E n \in Names, mode \in {"excl", "rdwr", "trunc", "read"} : OpenFile(h, n, mode)
       \/ \E loc \in 0..MaxSegs : ReadFile(h, loc) \/ \E n \in 1..2, v \in Vals : WriteFile(h, loc, n, v)
       \/ CloseFile(h)
  \/ \E n \in Names : Unlink(n)

SffsSpec == SffsInitial /\ [][SffsNext]_vars

-----------------------------------------------------------------------------
(* Properties                                                              *)

\* What sffs_dir_lookup and the list of segments find of a file is what its last writer
\* left when sffs_close returned.  If power failed during a close or an unlink it is what
\* the file was before or what it was to become.
SffsContents ==
  power = "on" => \A n \in Names : Stored(n) \in allowed[n] \/ Unknown \in allowed[n]

\* A file open for writing reads as it was written, whether a segment is in the buffer of
\* the handle or was moved to a block by sffs_file_savesegment, and although the sections
\* of its blocks are erased and restored meanwhile.
SffsReadBack ==
  \A h \in Handles :
     LET x == handle[h]
         onDrive == Segments(x.list, x.size)
     IN power = "on" /\ x.used /\ x.w /\ x.img # Unknown =>
          x.img = [i \in 1..x.size |-> IF i = x.segment + 1 THEN x.val ELSE onDrive[i]]

SnItems == {e.item : e \in ToSet(List(Drive(NoHandle), list_block).seen)}
FileItems(b) == {e.item : e \in ToSet(List(Drive(NoHandle), b).seen)}
ClosedFiles == {i \in SnItems : i.status = SnCLOSED /\ i.key # SerialnoList}

\* The header and the current segments of a closed file are in blocks that are closed and
\* bear its serial number: neither discarded, which lets erase_dirty_blocks erase them,
\* nor open, which lets sffs_block_discardopen discard them.
SffsBlocksInUse ==
  power = "on" => \A i \in ClosedFiles :
     /\ flash.blk[i.block].status = CLOSED /\ flash.blk[i.block].sn = i.key
     /\ \A s \in FileItems(flash.blk[i.block].content) : s.status = CURRENT =>
           flash.blk[s.block].status = CLOSED /\ flash.blk[s.block].sn = i.key

\* sffs_init never gives up on a drive and never formats one that held files: it always
\* finds the list, and every file it has to clean can be cleaned.
SffsMounts == power \notin {"failed", "formatted"}

\* The blocks of the list, of the closed files and of their lists.
Owned ==
  LET chain(b) == ToSet(Chain(flash, b, INVALID, <<>>))
      lists == {flash.blk[i.block].content : i \in ClosedFiles}
  IN chain(list_block) \cup {i.block : i \in ClosedFiles} \cup UNION {chain(l) : l \in lists}
     \cup UNION {{s.block : s \in {s \in FileItems(l) : s.status = CURRENT}} : l \in lists}

\* When no call has failed, power has not failed and no file is open, every block that is
\* allocated is a block of a file or of the list: open, write, close and unlink discard what
\* they replace.
SffsNoLeak ==
  power = "on" /\ handle = Closed /\ ~erred /\ scenario.crash = {} /\ boots = 1 =>
     \A b \in Blocks(flash) : Live(flash.blk[b]) => b \in Owned
=============================================================================

------------------------------ MODULE SffsFile ------------------------------
(***************************************************************************)
(* Lists of items in linked blocks (sffs_list.c), the list of serial        *)
(* numbers (sffs_serialno.c), the list of a file's segments                 *)
(* (sffs_filelist.c) and the files (sffs_file.c), as operations on a drive. *)
(*                                                                          *)
(* A segment holds one value: a file is a sequence of values, loc / nbyte   *)
(* count segments.                                                          *)
(***************************************************************************)
EXTENDS SffsFlash

\* SFFS_SNLIST_ITEM_STATUS_xxx; SnOPEN and so on are states of a serial number.
SnOPEN == 254
SnCLOSING == 252
SnCLOSED == 248
SnDISCARDING_HDR == 240
SnDISCARDING_HDR_LIST == 224
SnDISCARDING == 192

\* SFFS_FILELIST_STATUS_xxx
CURRENT == 254
OBSOLETE == 252

\* An item of either list: key is the serial number or the segment.
Item(status, key, block) == [status |-> status, key |-> key, block |-> block]

ListTypes == {"snlist", "snlist+", "filelist", "filelist+"}
Linked(type) == IF type = "snlist" THEN "snlist+" ELSE "filelist+"

-----------------------------------------------------------------------------
(* Lists                                                                   *)

\* The blocks sffs_list_init and sffs_list_getnext visit from b on, and how it ends: at a
\* free slot, after the last block, or at a block that does not belong there.
RECURSIVE Visit(_, _, _)
Visit(f, b, prev) ==
  IF b \notin Blocks(f) THEN [blocks |-> <<>>, end |-> "bad", at |-> b]
  ELSE IF f.blk[b].prev # prev \/ f.blk[b].type \notin ListTypes
  THEN [blocks |-> <<>>, end |-> "bad", at |-> b]
  ELSE IF Len(f.blk[b].items) < f.cap THEN [blocks |-> <<b>>, end |-> "free", at |-> b]
  ELSE IF f.blk[b].next = INVALID THEN [blocks |-> <<b>>, end |-> "full", at |-> b]
  ELSE On(Visit(f, f.blk[b].next, b), LAMBDA v : [v EXCEPT !.blocks = <<b>> \o @])

\* What they return: each item with its address and the block the cursor is on then.  The
\* last item before a block that does not belong there is lost.
List(d, b) ==
  LET f == d.flash
      Cursor(c, i) == IF i = f.cap /\ f.blk[c].next # INVALID THEN f.blk[c].next ELSE c
      Entries(c) == [i \in DOMAIN f.blk[c].items |->
                       [addr |-> <<c, i>>, item |-> f.blk[c].items[i], cursor |-> Cursor(c, i)]]
      AddEntries(s, c) == s \o Entries(c)
  IN On(Visit(f, b, INVALID), LAMBDA v :
       IF v.blocks = <<>> THEN [seen |-> <<>>, tail |-> b, end |-> "none"]
       ELSE On(FoldLeft(AddEntries, <<>>, v.blocks), LAMBDA s :
              [seen |-> IF v.end = "bad" THEN Front(s) ELSE s, tail |-> v.at, end |-> v.end]))

\* The blocks sffs_list_setblockstatus finds, last one first; <<>> if a link is wrong.
RECURSIVE Chain(_, _, _, _)
Chain(f, b, prev, found) ==
  IF b = INVALID THEN found
  ELSE IF b \notin Blocks(f) THEN <<>>
  ELSE IF f.blk[b].prev # prev THEN <<>>
  ELSE Chain(f, f.blk[b].next, b, <<b>> \o found)

\* sffs_list_setblockstatus: sffs_list_close, sffs_list_discard
SetListStatus(drive, b, s) ==
  Then(drive, LAMBDA d :
    LET chain == Chain(d.flash, b, INVALID, <<>>)
        SetOne(x, c) == SetStatus(x, c, s)
    IN IF b # INVALID /\ chain = <<>> THEN Fail(d) ELSE FoldLeft(SetOne, d, chain))

\* sffs_serialno_setstatus, sffs_filelist_setstatus
SetItem(drive, addr, s) ==
  Then(drive, LAMBDA d :
    LET x == d.flash.blk[addr[1]]
        w == Min({s, x.items[addr[2]].status})
    IN WriteBlock(d, addr[1], [x EXCEPT !.items[addr[2]].status = w], w = s))

\* list_add_block: the new block is the one returned.
ListAddBlock(drive, sn, type, b) ==
  LET Next(a) == WriteBlock(a, b, [a.flash.blk[b] EXCEPT !.next = a.ret], TRUE)
      Prev(a) == WriteBlock(a, a.ret, [a.flash.blk[a.ret] EXCEPT !.prev = b], TRUE)
  IN Then(Then(Then(Alloc(drive, sn, b, Linked(type)), Next), Prev),
          LAMBDA a : IF type = "snlist" THEN CloseBlock(a, a.ret) ELSE a)

\* sffs_list_append: addr is where the item is.
ListAppend(drive, b, type, item) ==
  LET Put(x) ==
        LET new == [x.flash.blk[x.ret] EXCEPT !.items = Append(@, item)]
        IN [WriteBlock(x, x.ret, new, TRUE) EXCEPT !.addr = <<x.ret, Len(new.items)>>]
  IN Then(drive, LAMBDA d : On(List(d, b), LAMBDA list :
       IF list.end = "none" THEN Fail(d)
       ELSE IF \E i \in DOMAIN list.seen : list.seen[i].item = item THEN d
       ELSE IF list.end = "free" THEN Put(Returning(d, list.tail))
       ELSE Then(ListAddBlock(d, d.flash.blk[list.tail].sn, type, list.tail), Put)))

\* The items sffs_list_consolidate copies: of the closed blocks of the list.
RECURSIVE Kept(_, _, _, _)
Kept(f, b, prev, sn) ==
  LET NotDirty(i) == i.status # DIRTY
  IN IF b \notin Blocks(f) THEN <<>>
     ELSE IF f.blk[b].prev # prev \/ f.blk[b].type \notin ListTypes \/ f.blk[b].sn # sn \/ f.blk[b].status # CLOSED
     THEN <<>>
     ELSE SelectSeq(f.blk[b].items, NotDirty) \o Kept(f, f.blk[b].next, b, sn)

\* Writes items to block b and, as long as a block is filled, to new ones after it.  When
\* there is no new one the block is still written, and the next write fails.
RECURSIVE Spill(_, _, _, _, _, _)
Spill(drive, sn, type, b, prev, items) ==
  LET Data(next, s) == [Erased EXCEPT !.prev = prev, !.next = next, !.items = s]
  IN Then(drive, LAMBDA d :
       LET cap == d.flash.cap
       IN IF Len(items) < cap THEN SaveBlock(d, b, Data(INVALID, items))
          ELSE On(Alloc(d, sn, b, Linked(type)), LAMBDA a :
                 On(SaveBlock([a EXCEPT !.ok = ~a.outside], b, Data(a.ret, SubSeq(items, 1, cap))), LAMBDA x :
                   IF a.ok THEN Spill(x, sn, type, a.ret, b, SubSeq(items, cap + 1, Len(items))) ELSE Fail(x))))

\* sffs_list_consolidate: the new list is the one returned.
Consolidate(drive, sn, b, type) ==
  Then(Alloc(drive, sn, b, type), LAMBDA a :
    Then(Spill(a, sn, type, a.ret, INVALID, Kept(a.flash, b, INVALID, sn)),
         LAMBDA x : Returning(x, a.ret)))

\* The items with this status and key.
Matches(d, b, status, key) ==
  LET Is(e) == e.item.status = status /\ e.item.key = key
  IN SelectSeq(List(d, b).seen, Is)

\* sffs_serialno_get, sffs_filelist_get
BlockOf(d, b, status, key) ==
  On(Matches(d, b, status, key), LAMBDA m : IF m = <<>> THEN INVALID ELSE m[1].item.block)
AddrOf(d, b, status, key) == Matches(d, b, status, key)[1].addr

-----------------------------------------------------------------------------
(* Segments                                                                *)

\* A mutation: the old item stays current.
FilelistUpdateBoth(drive, b, segment, block) ==
  Then(drive, LAMBDA d : ListAppend(d, b, "filelist", Item(CURRENT, segment, block)))

\* sffs_filelist_update: append the new item, then mark the old one.
FilelistUpdate(drive, b, segment, block) ==
  Then(drive, LAMBDA d : On(Matches(d, b, CURRENT, segment), LAMBDA old :
    On(ListAppend(d, b, "filelist", Item(CURRENT, segment, block)), LAMBDA new :
       IF old = <<>> THEN new ELSE SetItem(new, old[1].addr, OBSOLETE))))

\* sffs_filelist_makeobsolete
MakeObsolete(drive, b) ==
  LET Mark(x, e) == IF e.item.status = CURRENT THEN SetItem(x, e.addr, OBSOLETE) ELSE x
  IN Then(drive, LAMBDA d : FoldLeft(Mark, d, List(d, b).seen))

\* sffs_file_savesegment: a buffer that was written (CLOSED) goes to a new block.
SaveSegment(drive) ==
  LET Save(d, a) ==
        Then(SaveBlock(a, a.ret, [Erased EXCEPT !.val = d.h.val]), LAMBDA x : [x EXCEPT !.h.status = OPEN])
  IN Then(drive, LAMBDA d :
       IF d.h.status # CLOSED THEN d
       ELSE Then(Alloc(d, d.h.sn, d.h.list, "data"), LAMBDA a :
              FilelistUpdate(Save(d, a), d.h.list, d.h.segment, a.ret)))

\* sffs_file_loadsegment
LoadSegment(drive, segment) ==
  Then(drive, LAMBDA d : On(BlockOf(d, d.h.list, CURRENT, segment), LAMBDA b :
    LET h == [d.h EXCEPT !.val = 0, !.segment = segment, !.status = OPEN]
    IN [d EXCEPT !.h = IF b = INVALID THEN h
                       ELSE [h EXCEPT !.val = d.flash.blk[b].val, !.sn = d.flash.blk[b].sn]]))

\* sffs_file_write: n whole segments from start on.
RECURSIVE WriteSegments(_, _, _, _)
WriteSegments(drive, start, n, v) ==
  LET Fill(d) == SaveSegment([d EXCEPT !.h.segment = start, !.h.status = CLOSED, !.h.val = v])
  IN IF n = 0 THEN drive ELSE WriteSegments(Then(drive, Fill), start + 1, n - 1, v)

-----------------------------------------------------------------------------
(* Files                                                                   *)

\* The part of a header that is written on open.
WriteOpen(d, b, name, list) ==
  WriteBlock(d, b, [d.flash.blk[b] EXCEPT !.name = name, !.content = list], TRUE)

\* sffs_file_new
FileNew(d, name, sn) ==
  Then(Alloc(d, sn, INVALID, "hdr"), LAMBDA a :
    Then(ListAppend(a, d.lb, "snlist", Item(SnOPEN, sn, a.ret)), LAMBDA s :
      Then(Alloc(s, sn, a.ret, "filelist"), LAMBDA l :
        LET h == [d.h EXCEPT !.w = TRUE, !.hdr = a.ret, !.list = l.ret, !.addr = s.addr, !.size = 0,
                             !.segment = INVALID, !.val = 0, !.status = FREE, !.sn = sn, !.name = name]
        IN WriteOpen([l EXCEPT !.h = h], a.ret, name, l.ret))))

\* sffs_file_open
OpenToRead(d, sn, hb) ==
  LET hdr == d.flash.blk[hb]
  IN LoadSegment([d EXCEPT !.h = [@ EXCEPT !.hdr = hb, !.list = hdr.content,
                                           !.size = IF hdr.size < 0 THEN 0 ELSE hdr.size,
                                           !.sn = sn, !.name = hdr.name]], 0)

\* sffs_file_open: to write, the header and the list of segments get new blocks.
OpenToWrite(d, sn, hb, trunc) ==
  LET hdr == d.flash.blk[hb]
  IN Then(Alloc(d, sn, hb, "hdr"), LAMBDA a :
       Then(ListAppend(a, d.lb, "snlist", Item(SnOPEN, sn, a.ret)), LAMBDA s :
         Then(Consolidate(s, sn, hdr.content, "filelist"), LAMBDA c :
           Then(IF trunc THEN MakeObsolete(c, c.ret) ELSE c, LAMBDA o :
             LET h == [d.h EXCEPT !.w = TRUE, !.hdr = a.ret, !.list = c.ret, !.addr = s.addr,
                                  !.size = IF trunc \/ hdr.size < 0 THEN 0 ELSE hdr.size,
                                  !.sn = sn, !.name = hdr.name]
             IN LoadSegment(WriteOpen([o EXCEPT !.h = h], a.ret, hdr.name, c.ret), 0)))))

\* A mutation: the segments stay open.
MarkFileClosedOnly(drive, hb) ==
  Then(drive, LAMBDA d : CloseBlock(SetListStatus(d, d.flash.blk[hb].content, CLOSED), hb))

\* mark_file_closed: the segments, the list and then the header.  Segments that are
\* no longer part of the file are discarded.
MarkFileClosed(drive, hb) ==
  LET CloseItem(x, e) ==
        Then(IF e.item.status = CURRENT THEN CloseBlock(x, e.item.block)
             ELSE IF e.item.status = OBSOLETE THEN SetItem(Discard(x, e.item.block), e.addr, DIRTY)
             ELSE x,
             LAMBDA y : IF y.flash.blk[e.cursor].status = OPEN THEN CloseBlock(y, e.cursor) ELSE y)
  IN Then(drive, LAMBDA d :
       LET hdr == d.flash.blk[hb]
       IN IF hb \notin Blocks(d.flash) THEN Fail(d)
          ELSE IF hdr.status = CLOSED THEN d
          ELSE IF hdr.type # "hdr" THEN Fail(d)
          ELSE On(List(d, hdr.content), LAMBDA list :
                 IF list.end = "none" THEN Fail(d)
                 ELSE CloseBlock(SetListStatus(FoldLeft(CloseItem, d, list.seen), hdr.content, CLOSED), hb)))

\* A mutation: only the header is discarded.
CleanupFileHeader(drive, hb, addr, status) == SetItem(Discard(drive, hb), addr, DIRTY)

\* cleanup_file: what the status of the serial number says is discarded.
CleanupFile(drive, hb, addr, status) ==
  LET DiscardItem(x, e) ==
        IF e.item.status \in {CURRENT, OBSOLETE}
        THEN SetItem(Discard(x, e.item.block), e.addr, DIRTY) ELSE x
      Segments(d, list) ==
        IF status # SnDISCARDING THEN d
        ELSE IF list.end = "none" THEN Fail(d) ELSE FoldLeft(DiscardItem, d, list.seen)
  IN Then(drive, LAMBDA d :
       LET hdr == d.flash.blk[hb]
       IN IF hb \notin Blocks(d.flash) THEN Fail(d)
          ELSE IF hdr.type # "hdr" THEN Fail(d)
          ELSE On(Segments(d, List(d, hdr.content)), LAMBDA x :
                 SetItem(Discard(IF status = SnDISCARDING_HDR THEN x ELSE SetListStatus(x, hdr.content, DIRTY),
                                 hb), addr, DIRTY)))

\* finish_close: the new file takes the place of the old one.  If the blocks of the new
\* one cannot be closed, the old one stays and no error is returned.
FinishClose(drive, status, new, old, newAddr, oldAddr, alreadyClosed) ==
  LET Swap(d) == CleanupFile(SetItem(SetItem(d, oldAddr, status), newAddr, SnCLOSED), old, oldAddr, status)
  IN IF alreadyClosed THEN CleanupFile(drive, old, oldAddr, status)
     ELSE Then(SetItem(drive, newAddr, SnCLOSING), LAMBDA closing :
            On(MarkFileClosed(closing, new), LAMBDA m : IF m.ok THEN Swap(m) ELSE [m EXCEPT !.ok = TRUE]))

\* sffs_file_close
FileClose(d) ==
  LET hb == d.h.hdr
      WriteSize(x) == WriteBlock(x, hb, [x.flash.blk[hb] EXCEPT !.size = d.h.size], TRUE)
      CloseNew(x) == SetItem(MarkFileClosed(SetItem(x, d.h.addr, SnCLOSING), hb), d.h.addr, SnCLOSED)
  IN IF ~d.h.w THEN d
     ELSE Then(Then(SaveSegment(d), WriteSize), LAMBDA x :
            On(Matches(x, d.lb, SnCLOSED, x.h.sn), LAMBDA old :
              IF old = <<>> THEN CloseNew(x)
              ELSE FinishClose(x, SnDISCARDING_HDR_LIST, hb, old[1].item.block, d.h.addr, old[1].addr, FALSE)))

\* sffs_file_remove
FileRemove(d, sn) ==
  On(Matches(d, d.lb, SnCLOSED, sn), LAMBDA m :
    IF m = <<>> THEN Fail(d)
    ELSE CleanupFile(SetItem(d, m[1].addr, SnDISCARDING), m[1].item.block, m[1].addr, SnDISCARDING))

\* sffs_file_clean: after power failed while the serial number was in this status.
\* Returns 1 if open blocks are left behind.
FileClean(d, sn, hb, status) ==
  LET Find(s) == Matches(d, d.lb, s, sn)
      addr == Find(status)[1].addr
      new == IF Find(SnCLOSING) # <<>> THEN Find(SnCLOSING) ELSE Find(SnCLOSED)
  IN IF BlockOf(d, d.lb, status, sn) # hb THEN Fail(d)
     ELSE IF status = SnDISCARDING THEN Returning(CleanupFile(d, hb, addr, status), 0)
     ELSE IF status \in {SnDISCARDING_HDR_LIST, SnDISCARDING_HDR}
     THEN IF new = <<>> THEN Fail(d)
          ELSE Returning(FinishClose(d, status, new[1].item.block, hb, new[1].addr, addr,
                                     Find(SnCLOSING) = <<>>), 0)
     ELSE IF status = SnCLOSING /\ Find(SnCLOSED) = <<>>
     THEN Returning(SetItem(MarkFileClosed(d, hb), addr, SnCLOSED), 0)
     ELSE IF status = SnCLOSING
     THEN Returning(CleanupFile(d, hb, addr, SnDISCARDING_HDR), 1)
     ELSE Returning(SetItem(d, addr, DIRTY), 1)
=============================================================================

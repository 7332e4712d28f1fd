----------------------------- MODULE SffsFlash -----------------------------
(***************************************************************************)
(* The flash drive under sffs: blocks with a status that only bits can be   *)
(* cleared of, sections that are erased as a whole, the scratch pad where   *)
(* the blocks still in use wait while their section is erased, and the      *)
(* allocator (sffs_block.c, sffs_scratch.c, sffs_dev.c).                    *)
(*                                                                          *)
(* sffs runs under one mutex, so a call is one step of the model.  Power    *)
(* may still fail inside it: an operation works on a drive d and appends    *)
(* the contents of the flash after each of its writes to d.log, and d.ok    *)
(* becomes FALSE where the code returns an error.  After that Then leaves d  *)
(* as it is, as the callers return at once.                                 *)
(***************************************************************************)
EXTENDS Integers, Sequences, SequencesExt

CONSTANT EraseSize  \* sffs_block_geteraseable: the blocks of a section

ASSUME SffsFlashAssumption == EraseSize \in Nat \ {0}

FirstBlock == 1
ScratchEntries == (EraseSize * 256) \div (256 + 4)   \* get_scratch_entries

INVALID == 65535    \* BLOCK_INVALID

\* BLOCK_STATUS_xxx.  Writing a status clears bits: the lower one stays.
FREE == 255
OPEN == 254
CLOSED == 252
DIRTY == 0

\* SFFS_SCRATCH_STATUS_xxx
UNUSED == 255
COPIED == 252
RESTORED == 0

SerialnoList == 0   \* CL_SERIALNO_LIST

\* A block: its header, and the data of a file header (name, content, size), a
\* list (next, prev, items) or a segment of a file (val).
Erased ==
  [status |-> FREE, sn |-> -1, type |-> "none",
   name |-> "none", content |-> INVALID, size |-> -1,
   next |-> INVALID, prev |-> INVALID, items |-> <<>>, val |-> 0]
Struck(e) == [e EXCEPT !.status = RESTORED, !.orig = 0]
EmptyScratch == [n \in 1..ScratchEntries |-> [status |-> UNUSED, orig |-> INVALID, copy |-> Erased]]

\* Flash of this many sections, besides the scratch pad; cap is calc_total_items, the items
\* that fit in a block.
EmptyFlash(sections, cap) ==
  [blk |-> [b \in 0..EraseSize * sections - 1 |-> Erased], scratch |-> EmptyScratch, cap |-> cap]
Blocks(f) == DOMAIN f.blk
Total(f) == Cardinality(Blocks(f))       \* sffs_block_gettotal

\* The drive an operation starts on: flash f, and what is in memory.
DriveOf(f, listBlock, h) ==
  [flash |-> f, log |-> <<>>, ok |-> TRUE, outside |-> FALSE,
   lb |-> listBlock, h |-> h, ret |-> INVALID, addr |-> <<0, 0>>]

Fail(d) == [d EXCEPT !.ok = FALSE, !.ret = INVALID]
Returning(d, v) == [d EXCEPT !.ret = v]
Live(b) == b.status \in {OPEN, CLOSED}

\* The rest of an operation, F, from the drive that the first part has left: On goes on
\* whatever the first part returned, Then only if it returned no error.
On(first, F(_)) == CHOOSE y \in {F(d) : d \in {first}} : TRUE
Then(first, F(_)) == On(first, LAMBDA d : IF d.ok THEN F(d) ELSE d)

-----------------------------------------------------------------------------
(* Writes                                                                  *)

\* sffs_dev_write: reads back what it wrote; good says whether that is the same.
Burn(d, f, good) == [d EXCEPT !.flash = f, !.log = Append(@, f), !.ok = good]
WriteBlock(d, b, new, good) == Burn(d, [d.flash EXCEPT !.blk[b] = new], good)
WriteScratch(d, n, new) == Burn(d, [d.flash EXCEPT !.scratch[n] = new], TRUE)

\* sffs_block_setstatus
SetStatus(drive, b, s) ==
  Then(drive, LAMBDA d :
    IF b \notin Blocks(d.flash) THEN Fail(d)
    ELSE LET w == Min({s, d.flash.blk[b].status})
         IN WriteBlock(d, b, [d.flash.blk[b] EXCEPT !.status = w], w = s))
Discard(drive, b) == SetStatus(drive, b, DIRTY)
CloseBlock(drive, b) == SetStatus(drive, b, CLOSED)

\* sffs_block_save: the status and the data, over an allocated block.
SaveBlock(drive, b, data) ==
  Then(drive, LAMBDA d :
    IF b \notin Blocks(d.flash) THEN Fail(d)
    ELSE LET old == d.flash.blk[b]
         IN WriteBlock(d, b, [data EXCEPT !.status = Min({OPEN, old.status}), !.sn = old.sn, !.type = old.type],
                       old.status >= OPEN))

\* sffs_block_saveraw: over a block that is not erased the bits of both are cleared.
SaveRaw(drive, b, data) ==
  Then(drive, LAMBDA d :
    LET old == d.flash.blk[b]
        s == Min({old.status, data.status})
    IN IF old = Erased \/ [old EXCEPT !.status = s] = data
       THEN WriteBlock(d, b, data, TRUE)
       ELSE WriteBlock(d, b, [Erased EXCEPT !.status = s, !.type = "garbled"], FALSE))

-----------------------------------------------------------------------------
(* The scratch pad                                                         *)

FirstUnused(d) ==
  Min({n \in 1..ScratchEntries : d.flash.scratch[n].status = UNUSED} \cup {ScratchEntries + 1})

\* sffs_scratch_capacity
Capacity(d) == ScratchEntries + 1 - FirstUnused(d)

\* sffs_scratch_saveblock: the copy is written before its entry.
SaveToScratch(drive, b) ==
  Then(drive, LAMBDA d :
    LET n == FirstUnused(d)
        old == d.flash.scratch[n]
        copied == [old EXCEPT !.copy = d.flash.blk[b]]
    IN IF n > ScratchEntries THEN Fail(d)
       ELSE IF old.copy # Erased THEN Fail(WriteScratch(d, n, Struck(old)))
       ELSE Then(WriteScratch(d, n, copied), LAMBDA c :
                 WriteScratch(c, n, [copied EXCEPT !.status = COPIED, !.orig = b])))

\* sffs_scratch_restore
ScratchRestore(drive) ==
  LET RestoreEntry(x, n) ==
        Then(x, LAMBDA d :
          LET e == d.flash.scratch[n]
          IN IF e.status # COPIED THEN d
             ELSE Then(SaveRaw(d, e.orig, e.copy), LAMBDA r : WriteScratch(r, n, Struck(e))))
  IN FoldLeft(RestoreEntry, drive, [n \in 1..ScratchEntries |-> n])

\* sffs_scratch_erase
ScratchErase(d) == Burn(d, [d.flash EXCEPT !.scratch = EmptyScratch], TRUE)

-----------------------------------------------------------------------------
(* Erasing                                                                 *)

Section(i) == i * EraseSize .. (i + 1) * EraseSize - 1
Eraseable(d, i) ==
  \A b \in Section(i) :
     LET x == d.flash.blk[b]
     IN /\ x.status = CLOSED => x.sn # SerialnoList
        /\ x.status # OPEN
        /\ x.status = FREE => b = 0
Written(d, i) == Cardinality({b \in Section(i) : d.flash.blk[b].status = CLOSED})

\* sffs_dev_erasesection
EraseSection(d, i) ==
  Burn(d, [d.flash EXCEPT !.blk = [b \in DOMAIN @ |-> IF b \in Section(i) THEN Erased ELSE @[b]]], TRUE)

\* A mutation: the copies stay in the scratch pad.
EraseDirtyBlockOnly(drive, i) ==
  LET Keep(x, b) == Then(x, LAMBDA d : IF Live(d.flash.blk[b]) THEN SaveToScratch(d, b) ELSE d)
      kept == FoldLeft(Keep, drive, [n \in 1..EraseSize |-> i * EraseSize + n - 1])
  IN Then(kept, LAMBDA d : EraseSection(d, i))

\* erase_dirty_block: copy what is in use, erase the section, copy back.
EraseDirtyBlock(drive, i) ==
  LET Keep(x, b) == Then(x, LAMBDA d : IF Live(d.flash.blk[b]) THEN SaveToScratch(d, b) ELSE d)
      kept == FoldLeft(Keep, drive, [n \in 1..EraseSize |-> i * EraseSize + n - 1])
  IN Then(kept, LAMBDA d : ScratchRestore(EraseSection(d, i)))

\* erase_dirty_blocks
EraseDirtyBlocks(drive, max_written) ==
  LET EraseOne(x, i) ==
        Then(x, LAMBDA d :
          IF ~Eraseable(d, i) \/ Written(d, i) >= max_written THEN d
          ELSE EraseDirtyBlock(IF Written(d, i) > Capacity(d) THEN ScratchErase(d) ELSE d, i))
  IN Then(drive, LAMBDA d : FoldLeft(EraseOne, d, [n \in 1..Total(d.flash) \div EraseSize |-> n - 1]))

-----------------------------------------------------------------------------
(* The allocator                                                           *)

\* The status alloc_block reads: the block after the last one is the table of the
\* scratch pad, whose second entry has the place of the status.
StatusAt(d, b) ==
  IF b \in Blocks(d.flash) THEN d.flash.blk[b].status
  ELSE IF d.flash.scratch[Min({2, ScratchEntries})].status = UNUSED THEN FREE ELSE DIRTY
ForeignAt(d, b, sn) == b \in Blocks(d.flash) /\ Live(d.flash.blk[b]) /\ d.flash.blk[b].sn # sn

NextSection(b) == (b \div EraseSize + 1) * EraseSize

\* The free blocks of the section of hint, after it.
NearFree(d, hint) ==
  {b \in hint + 1 .. NextSection(hint) - 1 : StatusAt(d, b) = FREE}

\* The free blocks of groups that no other serial number uses.  Without a hint the
\* groups start at block 1, and the last one ends in the scratch pad.
OwnFree(d, sn, hint) ==
  LET start == IF hint = INVALID THEN FirstBlock ELSE NextSection(hint)
      groups == {i \in start..Total(d.flash) - 1 : (i - start) % EraseSize = 0}
  IN {b \in UNION {i..i + EraseSize - 1 : i \in groups} :
        /\ StatusAt(d, b) = FREE
        /\ \A c \in b - ((b - start) % EraseSize) .. b : ~ForeignAt(d, c, sn)}
AnyFree(d) == {b \in FirstBlock..Total(d.flash) - 1 : StatusAt(d, b) = FREE}

\* alloc_block and mark_allocated
AllocBlock(drive, sn, hint0, type) ==
  Then(drive, LAMBDA d :
    LET hint == IF hint0 < FirstBlock THEN FirstBlock ELSE hint0
        near == IF hint = INVALID THEN {} ELSE NearFree(d, hint)
        own == OwnFree(d, sn, hint)
        free == IF near # {} THEN near ELSE IF own # {} THEN own ELSE AnyFree(d)
        b == Min(free)
    IN IF free = {} THEN Returning(d, INVALID)
       ELSE IF b \notin Blocks(d.flash) THEN [Fail(d) EXCEPT !.outside = TRUE]
       ELSE Returning(WriteBlock(d, b, [d.flash.blk[b] EXCEPT !.status = OPEN, !.sn = sn, !.type = type],
                                 TRUE), b))

\* sffs_block_alloc: erases sections with more and more blocks in use until one is free.
Alloc(drive, sn, hint, type) ==
  LET TryAfter(x, max) ==
        Then(x, LAMBDA d : IF d.ret # INVALID THEN d
                           ELSE AllocBlock(EraseDirtyBlocks(d, max), sn, hint, type))
      e == EraseSize
  IN Then(FoldLeft(TryAfter, AllocBlock(drive, sn, hint, type),
                   <<e \div 16, e \div 8, e \div 4, e \div 2, (e * 3) \div 4>>),
          LAMBDA d : IF d.ret = INVALID THEN Fail(d) ELSE d)
=============================================================================

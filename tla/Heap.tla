-------------------------------- MODULE Heap --------------------------------
(***************************************************************************)
(* The heap of a process (mallocr.c, _realloc.c, _sbrk.c): chunks in a row, *)
(* each with a header, the last one with a size of zero, in memory that     *)
(* grows towards the stack.  The threads of the process share it under a    *)
(* lock; a thread that exits frees the blocks it allocated, and walks the   *)
(* chunks without the lock to find them.                                    *)
(*                                                                          *)
(* Addresses are counted in chunks, sizes in bytes.  A header carries no    *)
(* checksum here: what a program wrote over a header is Data, and its       *)
(* checksum is wrong.                                                       *)
(***************************************************************************)
EXTENDS Integers, FiniteSets, FiniteSetsExt

CONSTANTS
  Threads,     \* the task ids of the process's threads; Main is its first one
  Main,
  ChunkSize,   \* CONFIG_MALLOC_CHUNK_SIZE
  HeaderSize,  \* sizeof(malloc_chunk_header_t)
  JumpSize,    \* CONFIG_MALLOC_SBRK_JUMP_SIZE
  Limit,       \* the bytes up to where the heap may grow
  Sizes,       \* the sizes the program asks for
  MaxHeld,     \* bound: how many blocks it holds
  Scenarios    \* the sets of operations its threads use

ASSUME HeapAssumption ==
  /\ Threads \subseteq Nat \ {0} /\ Main \in Threads
  /\ ChunkSize \in Nat /\ HeaderSize \in 1..(ChunkSize - 1)
  /\ JumpSize \in Nat \ {0} /\ JumpSize % ChunkSize = 0
  /\ Limit \in Nat /\ Sizes \subseteq Nat

VARIABLES
  heap,      \* mem: what is where a header may be; brk: procmem_base->size
  lock,      \* the thread that holds the heap's lock
  threads,   \* what the threads do
  held,      \* the program's blocks, by their address
  scenario

heapVars == <<heap, lock, threads, held, scenario>>

None == -1
Data == [n |-> None, size |-> 0, task |-> 0]

Places == 0..(Limit \div ChunkSize)

\* A free chunk's header names the thread that freed it; the model leaves that open.
Free(n) == [n |-> n, size |-> 0, task |-> 0]
LastChunk == Free(0)

IsFree(header) == header.size = 0

MALLOC_DATA_SIZE == ChunkSize - HeaderSize

malloc_calc_num_chunks(size) ==
  (IF size > MALLOC_DATA_SIZE
   THEN (size - MALLOC_DATA_SIZE + ChunkSize - 1) \div ChunkSize + 1
   ELSE 1) % 2^16

-----------------------------------------------------------------------------
(* The row of chunks                                                       *)

\* F(x), with x evaluated once.
On(x, F(_)) == CHOOSE y \in {F(v) : v \in {x}} : TRUE

\* The chunks from i on up to the last one; None stands for what is not a header.
RECURSIVE Walk(_, _)
Walk(mem, i) ==
  IF i \notin DOMAIN mem \/ mem[i] = Data THEN {None}
  ELSE IF mem[i].n = 0 THEN {}
  ELSE {i} \cup On(i + mem[i].n, LAMBDA k : Walk(mem, k))

Chunks(mem) == On(mem, LAMBDA m : Walk(m, 0))

\* Where a row of chunks ends: its last one, of size zero, is there.
End(mem, chunks) == IF chunks = {} THEN 0 ELSE Max(chunks) + mem[Max(chunks)].n

is_memory_corrupt(mem) == None \in Chunks(mem)

\* The first free chunk that is large enough, if there is one.
find_free_chunk(mem, n) ==
  LET First(fit) == IF fit = {} THEN {} ELSE {Min(fit)}
  IN On({i \in Chunks(mem) \ {None} : IsFree(mem[i]) /\ mem[i].n >= n}, First)

malloc_set_chunk_free(mem, i, n) == [mem EXCEPT ![i] = Free(n)]
set_last_chunk(mem, i) == [mem EXCEPT ![i] = LastChunk]

Address(i) == i * ChunkSize + HeaderSize

\* A block for thread t.  The program has written its data over the headers that were in the
\* way, or not yet.
malloc_set_chunk_used(mem, t, i, n, size, written) ==
  [j \in DOMAIN mem |->
     IF j = i THEN [n |-> n, size |-> size, task |-> IF t = Main THEN 0 ELSE t]
     ELSE IF written /\ j > i /\ j * ChunkSize < Address(i) + size THEN Data ELSE mem[j]]

\* A run of free chunks becomes one chunk, in the header of its first one.
Merged(mem, chunks) ==
  LET runEnd(i) == Min({k \in chunks : k > i /\ ~IsFree(mem[k])} \cup {End(mem, chunks)})
      Follows(i) == \E j \in chunks : IsFree(mem[j]) /\ j + mem[j].n = i
  IN [i \in DOMAIN mem |-> IF i \in chunks /\ IsFree(mem[i]) /\ ~Follows(i)
                           THEN Free(runEnd(i) - i) ELSE mem[i]]

\* The chunk that was the last one, if it is free and not the only one, is given back.
Released(h, last) ==
  [mem |-> set_last_chunk(h.mem, last), brk |-> h.brk - h.mem[last].n * ChunkSize]

cleanup_memory(heap0, release) ==
  LET Cleanup(h) == On(Chunks(h.mem), LAMBDA chunks :
        IF release /\ Cardinality(chunks) > 1 /\ IsFree(h.mem[Max(chunks)])
        THEN Released([h EXCEPT !.mem = Merged(@, chunks)], Max(chunks))
        ELSE [h EXCEPT !.mem = Merged(@, chunks)])
  IN On(heap0, Cleanup)

Jump_Down(size) == (size \div JumpSize) * JumpSize

\* The end of the heap with room for size more bytes.  One jump more, of the first call,
\* always has room for the last chunk's header.  Jumps are multiples of JumpSize.
Jump(size) == ((size + JumpSize - 1) \div JumpSize) * JumpSize
sbrk(h, size, new) == h.brk + Jump(size) + (IF new THEN JumpSize ELSE 0)

malloc_get_more_memory_NoExtra(h, size, new) ==
  LET i == h.brk \div ChunkSize
      n == Jump(size) \div ChunkSize
  IN [brk |-> sbrk(h, size, new),
      mem |-> set_last_chunk(malloc_set_chunk_free(h.mem, i, n), i + n)]

\* _sbrk_r refuses to come near the stack.
NoRoom(h, size, new) == sbrk(h, size, new) > Limit

malloc_get_more_memory(h, size, new) ==
  LET i == IF new THEN 0 ELSE (h.brk - JumpSize) \div ChunkSize
      n == Jump(size) \div ChunkSize
  IN [brk |-> sbrk(h, size, new),
      mem |-> set_last_chunk(malloc_set_chunk_free(h.mem, i, n), i + n)]

-----------------------------------------------------------------------------
(* The threads                                                             *)

\* pc; the size asked for, or the chunk to free; the block _realloc_r moves; the chunk a
\* walk looks at next.
Idle == [pc |-> "idle", size |-> 0, ptr |-> None, at |-> 0]

\* The scenario's ops; "race": threads allocate while another one exits.
Allows(op) == op \in scenario.ops
Walking == \E t \in Threads : threads[t].pc \in {"walk", "free"}
\* Whether a new block's data is written yet matters only to a walk it gets in the way of.
Writes == IF Allows("race") THEN BOOLEAN ELSE {TRUE}
Quiet == Walking => Allows("race")

Becomes(t, r) == threads' = [threads EXCEPT ![t] = r]

\* The program's blocks with the one at p, which thread t got; and without it.
Hold(p, t, size) ==
  [q \in DOMAIN held \cup {p} |-> IF q = p THEN [size |-> size, task |-> t] ELSE held[q]]
Drop(p) == [q \in DOMAIN held \ {p} |-> held[q]]

\* malloc_process_fault: the process ends.
Fault(t) == Becomes(t, [Idle EXCEPT !.pc = "fault"]) /\ lock' = None /\ UNCHANGED <<heap, held>>

\* _malloc_r takes the lock; r is what the thread does then.
MallocEnter(t, size, r) ==
  /\ lock = None
  /\ IF heap.brk = 0 /\ NoRoom(heap, size, TRUE)
     THEN Becomes(t, Idle) /\ UNCHANGED <<heap, lock>>
     ELSE /\ heap' = IF heap.brk = 0 THEN malloc_get_more_memory(heap, size, TRUE) ELSE heap
          /\ lock' = t
          /\ Becomes(t, r)
  /\ UNCHANGED <<held, scenario>>

Malloc(t, size) ==
  /\ threads[t].pc = "idle" /\ Allows("malloc") /\ Cardinality(DOMAIN held) < MaxHeld
  /\ Quiet
  /\ MallocEnter(t, size, [Idle EXCEPT !.pc = "malloc", !.size = size])

\* One round of _malloc_r's loop: a chunk is found and split, or the heap grows, or it
\* cannot.
MallocFound(t, i, n) ==
  LET r == threads[t]
      rest == heap.mem[i].n - n
      split == IF rest > 0 THEN malloc_set_chunk_free(heap.mem, i + n, rest) ELSE heap.mem
  IN /\ \E written \in Writes :
          heap' = [heap EXCEPT !.mem = malloc_set_chunk_used(split, t, i, n, r.size, written)]
     /\ held' = Hold(i, t, r.size)
     /\ Becomes(t, IF r.ptr = None THEN Idle ELSE [r EXCEPT !.pc = "copy"])
     /\ lock' = None

MallocGrows(t) ==
  /\ ~NoRoom(heap, threads[t].size, FALSE)
  /\ heap' = cleanup_memory(malloc_get_more_memory(heap, threads[t].size, FALSE), FALSE)
  /\ UNCHANGED <<threads, lock, held>>

MallocFails(t) ==
  /\ NoRoom(heap, threads[t].size, FALSE)
  /\ heap' = cleanup_memory(heap, FALSE)
  /\ Becomes(t, Idle) /\ lock' = None
  /\ UNCHANGED held

MallocLoop(t) ==
  /\ threads[t].pc = "malloc"
  /\ LET n == malloc_calc_num_chunks(threads[t].size)
     IN \E found \in {find_free_chunk(heap.mem, n)} :
          \/ \E i \in found : MallocFound(t, i, n)
          \/ /\ found = {}
             /\ IF is_memory_corrupt(heap.mem) THEN Fault(t)
                ELSE MallocGrows(t) \/ MallocFails(t)
  /\ UNCHANGED scenario

\* _free_r of the chunk at p; r is what the thread does then.
FreeChunk(t, p, r) ==
  /\ lock = None
  /\ IF is_memory_corrupt(heap.mem) THEN Fault(t)
     ELSE /\ IF IsFree(heap.mem[p]) THEN UNCHANGED <<heap, held>>
             ELSE /\ heap' = cleanup_memory([heap EXCEPT !.mem =
                               malloc_set_chunk_free(heap.mem, p, heap.mem[p].n)], FALSE)
                  /\ held' = Drop(p)
          /\ Becomes(t, r)
          /\ UNCHANGED lock
  /\ UNCHANGED scenario

\* The blocks a thread may free or resize: nobody resizes them, and the thread that
\* allocated them does not exit.
Usable(p) ==
  /\ \A t \in Threads : threads[t].ptr # p
  /\ threads[held[p].task].pc \notin {"walk", "free"}

_free_r(t, p) ==
  /\ threads[t].pc = "idle" /\ Allows("free") /\ p \in DOMAIN held /\ Usable(p)
  /\ FreeChunk(t, p, Idle)

\* free((void *)1)
Trim(t) ==
  /\ threads[t].pc = "idle" /\ Allows("trim") /\ heap.brk # 0 /\ lock = None
  /\ IF is_memory_corrupt(heap.mem) THEN Fault(t)
     ELSE heap' = cleanup_memory(heap, TRUE) /\ UNCHANGED <<threads, lock, held>>
  /\ UNCHANGED scenario

Room_TakesNext(mem, p) == mem[p].n + mem[p + mem[p].n].n

\* The chunks a block has if it takes in the next chunk, which must be free.
Room(mem, p) ==
  LET next == mem[p + mem[p].n]
  IN mem[p].n + (IF next.n > 0 /\ IsFree(next) THEN next.n ELSE 0)

\* _realloc_r: in place when the block is large enough or the next chunk is free and large
\* enough; otherwise a new block, without the lock in between.
_realloc_r(t, p, size) ==
  LET mem == heap.mem
      n == malloc_calc_num_chunks(size)
      room == IF n > mem[p].n THEN Room(mem, p) ELSE mem[p].n
      Resized(written) ==
        LET used == malloc_set_chunk_used(mem, t, p, n, size, written)
        IN IF room > n THEN malloc_set_chunk_free(used, p + n, room - n) ELSE used
  IN /\ threads[t].pc = "idle" /\ Allows("realloc") /\ lock = None
     /\ Quiet
     /\ p \in DOMAIN held /\ Usable(p)
     /\ IF room >= n
        THEN /\ \E written \in Writes : heap' = [heap EXCEPT !.mem = Resized(written)]
             /\ held' = Hold(p, t, size)
             /\ UNCHANGED <<lock, threads>>
        ELSE /\ Becomes(t, [Idle EXCEPT !.pc = "move", !.size = size, !.ptr = p])
             /\ UNCHANGED <<heap, lock, held>>
     /\ UNCHANGED scenario

ReallocMalloc(t) ==
  /\ threads[t].pc = "move" /\ Quiet
  /\ MallocEnter(t, threads[t].size, [threads[t] EXCEPT !.pc = "malloc"])

ReallocFree(t) == threads[t].pc = "copy" /\ FreeChunk(t, threads[t].ptr, Idle)

\* scheduler_thread_cleanup calls malloc_free_task_r.
Exit(t) ==
  /\ threads[t].pc = "idle" /\ Allows("exit") /\ t # Main /\ heap.brk # 0
  /\ Allows("race") \/ \A u \in Threads : threads[u].pc \in {"idle", "gone"}
  /\ Becomes(t, [Idle EXCEPT !.pc = "walk"])
  /\ UNCHANGED <<heap, lock, held, scenario>>

\* malloc_free_task_r looks at a chunk, without the lock.  A free one may have the thread's
\* id too; _free_r then does nothing.
ExitWalk(t) ==
  LET r == threads[t]
      header == heap.mem[r.at]
      next == r.at + header.n
  IN /\ r.pc = "walk"
     /\ \E own \in IF IsFree(header) THEN BOOLEAN ELSE {header.task = t} :
          Becomes(t, IF header = Data THEN [r EXCEPT !.pc = "fault"]
                     ELSE IF header.n = 0 THEN [r EXCEPT !.pc = "gone", !.at = 0]
                     ELSE IF own THEN [r EXCEPT !.pc = "free", !.at = next, !.size = r.at]
                     ELSE [r EXCEPT !.at = next])
     /\ UNCHANGED <<heap, lock, held, scenario>>

ExitFree(t) ==
  /\ threads[t].pc = "free"
  /\ FreeChunk(t, threads[t].size, [threads[t] EXCEPT !.pc = "walk", !.size = 0])

HeapInit ==
  /\ scenario \in Scenarios
  /\ heap = [mem |-> [i \in Places |-> Data], brk |-> 0]
  /\ lock = None
  /\ threads = [t \in Threads |-> Idle]
  /\ held = << >>

\* A thread goes on with its operation.
Proceeds(t) ==
  MallocLoop(t) \/ ReallocMalloc(t) \/ ReallocFree(t) \/ ExitWalk(t) \/ ExitFree(t)

HeapNext ==
  \E t \in Threads :
    \/ \E size \in Sizes : Malloc(t, size)
    \/ \E p \in DOMAIN held : _free_r(t, p)
    \/ \E p \in DOMAIN held, size \in Sizes : _realloc_r(t, p, size)
    \/ Trim(t) \/ Exit(t) \/ Proceeds(t)

\* A thread goes on with an operation, and one that waits for the lock gets it: the mutex is
\* handed over to its waiters.
HeapSpec == HeapInit /\ [][HeapNext]_heapVars /\ \A t \in Threads : SF_heapVars(Proceeds(t))
-----------------------------------------------------------------------------
(* Properties                                                              *)

Used == {i \in Chunks(heap.mem) : ~IsFree(heap.mem[i])}

\* The row of chunks is whole and tells the truth after every step of every thread: it leads
\* from the base to the last chunk, for whose header the memory that was got from _sbrk_r
\* has room, its used chunks are the blocks the program holds, with their sizes, none of
\* them of a thread that has exited, and no thread took the heap for corrupt.
HeapIsWhole ==
  heap.brk # 0 =>
    /\ ~is_memory_corrupt(heap.mem)
    /\ End(heap.mem, Chunks(heap.mem)) * ChunkSize + JumpSize = heap.brk
    /\ Used = DOMAIN held
    /\ \A p \in Used : heap.mem[p].size = held[p].size /\ threads[held[p].task].pc # "gone"
    /\ \A t \in Threads : threads[t].pc # "fault"

Blocks ==
  [a \in {Address(p) : p \in DOMAIN held} |-> held[(a - HeaderSize) \div ChunkSize].size]
Promise == INSTANCE Allocator WITH Arena <- 0..(Limit - 1), live <- Blocks

\* The heap implements the allocator that Allocator describes: seen as the bytes of the
\* blocks the program holds, malloc, realloc and free, the exit of a thread and the giving
\* back of memory change one block at a time, and a new or a resized block meets no other
\* one and stays below the stack.
Allocates == Promise!Spec

\* Every call returns: _malloc_r's loop finds a chunk after growing the heap, though the
\* memory it asks for leaves out the header, and an exiting thread's walk comes to the last
\* chunk.
OperationsEnd == \A t \in Threads : threads[t].pc # "idle" ~> threads[t].pc \in {"idle", "gone"}
=============================================================================

--------------------------- MODULE PhysicalMemory ---------------------------
(***************************************************************************)
(* Page frames and the address spaces built from them: the bitmap and its  *)
(* counter (core/pmm.cpp), page directories and tables (core/paging.cpp),  *)
(* the ELF loader (core/elf.cpp), brk, the address-space half of fork and  *)
(* of KillProcess().                                                       *)
(*                                                                         *)
(* A frame is its number, so 0 is the null pointer. Virtual pages are      *)
(* numbered from 0 over the user range; page NPages stands for any page of *)
(* the kernel ranges, whose tables all directories share. System calls are *)
(* atomic. The loader is not when the desktop thread runs it: it is        *)
(* modelled up to the statement that changes the bitmap, and Preemptible   *)
(* says whether system calls of other processes may come in between.       *)
(* User stacks are the module UserStack, private kernel tables the module  *)
(* Framebuffer; their frames are not taken here.                           *)
(***************************************************************************)
EXTENDS Integers, Sequences, FiniteSets, FiniteSetsExt

CONSTANTS Pcbs,           \* addresses of process control blocks
          MaxBlocks,      \* frames the bitmap covers
          LowLimit,       \* frames below 256 MB, identity-mapped
          Kernel,         \* frames that are never free after boot
          Trampoline,     \* the frame with the code every process exits through
          NPages,         \* user pages of an address space
          PerTable,       \* pages one page table maps
          TrampolinePage, \* where the trampoline is mapped
          HeapPages,      \* distance from heap.startAddress to heap.maxAddress
          Images,         \* programs: sequences of segments <<first, last page>>
          Preemptible     \* the loader runs in a kernel thread, interrupts on

Frames == 1 .. MaxBlocks - 1
Pages  == 0 .. NPages - 1
Tables == 0 .. (NPages - 1) \div PerTable
Null   == 0

\* Addresses are counted in half pages, so that rounding matters.
PageSize == 2

ASSUME MemoryAssumption ==
    /\ MaxBlocks \in Nat /\ LowLimit \in 1 .. MaxBlocks
    /\ Null \in Kernel /\ Trampoline \in Kernel /\ Kernel \subseteq 0 .. MaxBlocks - 1
    /\ NPages \in Nat \ {0} /\ PerTable \in Nat \ {0} /\ TrampolinePage \in Pages
    /\ HeapPages \in Nat
    /\ \A image \in Images : image \in Seq(Nat \X Nat) /\ image # <<>>
    /\ Preemptible \in BOOLEAN

VARIABLES
    memory_map,     \* the frames whose bit is set
    used_blocks,    \* PMM_INFO::used_blocks
    page_directory, \* frame of each process's directory, Null when there is no process
    tables,         \* frame of each page table
    ptes,           \* frame each page is mapped to
    heap,           \* startAddress, endAddress and maxAddress
    running,        \* processes that have a thread
    paging_map_depth,
    loader          \* loadELF() in progress: pc, process, image, segment, page, frames

memoryVars == <<memory_map, used_blocks, page_directory, tables, ptes, heap, running,
                paging_map_depth, loader>>

Unmapped == [v \in Pages |-> Null]
NoTables == [t \in Tables |-> Null]
NoHeap   == [start |-> 0, end |-> 0, max |-> 0]
NoLoad   == [pc |-> "idle", proc |-> Null, image |-> <<>>, seg |-> 1, page |-> 0,
             frame |-> Null, found |-> Null]

MemoryInit ==
    /\ memory_map = Kernel
    /\ used_blocks = Cardinality(Kernel)
    /\ page_directory = [p \in Pcbs |-> Null]
    /\ tables = [p \in Pcbs |-> NoTables]
    /\ ptes = [p \in Pcbs |-> Unmapped]
    /\ heap = [p \in Pcbs |-> NoHeap]
    /\ running = {}
    /\ paging_map_depth = 0
    /\ loader = NoLoad

-----------------------------------------------------------------------------
(* The frame allocator. A memory m is the bitmap, its counter and the one   *)
(* address space a call works on.                                           *)

Memory(p) == [map |-> memory_map, count |-> used_blocks, dir |-> page_directory[p],
              tab |-> tables[p], pte |-> ptes[p], ok |-> TRUE, done |-> {}]

\* pmm_mmap_first_free_low(): the lowest clear bit below the limit, or none.
FirstFree(m) ==
    LET free == {f \in 0 .. LowLimit - 1 : f \notin m.map}
    IN  IF m.count >= MaxBlocks \/ free = {} THEN Null ELSE Min(free)

Take(m, f) == [m EXCEPT !.map = @ \cup {f}, !.count = @ + 1]

\* Mutant: the counter goes down before the frame is looked at.
FreeBlocksCounted(m, S) ==
    [m EXCEPT !.map = @ \ (S \ Kernel), !.count = @ - Cardinality(S)]

\* pmm_free_block() of each frame of S: null, kernel and free frames are refused.
FreeBlocks(m, S) ==
    LET freed == (S \cap m.map) \ Kernel
    IN  [m EXCEPT !.map = @ \ freed, !.count = @ - Cardinality(freed)]


TableOf(v) == v \div PerTable

\* MapPage() when no other thread can come in between.
MapPage(m, v, f) ==
    LET t == FirstFree(m)
    IN  CASE v \notin Pages -> [m EXCEPT !.ok = FALSE]
          [] v \in Pages /\ m.tab[TableOf(v)] # Null -> [m EXCEPT !.pte[v] = f]
          [] OTHER -> IF paging_map_depth > 0 \/ t = Null
                      THEN [m EXCEPT !.ok = FALSE]
                      ELSE [Take(m, t) EXCEPT !.tab[TableOf(v)] = t, !.pte[v] = f]

\* What the sweep of KillProcess() and of fork's clean-up frees: every mapped
\* frame but the shared trampoline, every table, the directory.
FramesOf(m) == {m.pte[v] : v \in Pages} \cup {m.tab[t] : t \in Tables} \cup {m.dir}

FreeAddressSpace(m) ==
    [FreeBlocks(m, FramesOf(m) \ {Trampoline})
        EXCEPT !.dir = Null, !.tab = NoTables, !.pte = Unmapped]

Store(p, m) ==
    /\ memory_map' = m.map
    /\ used_blocks' = m.count
    /\ page_directory' = [page_directory EXCEPT ![p] = m.dir]
    /\ tables' = [tables EXCEPT ![p] = m.tab]
    /\ ptes' = [ptes EXCEPT ![p] = m.pte]

Live == {p \in Pcbs : page_directory[p] # Null}

\* The calls of other processes while the loader is at work.
CpuFree == Preemptible \/ loader.pc = "idle"

-----------------------------------------------------------------------------
(* brk: one page at a time, all of it undone when a page cannot be had.     *)

RoundUp(a) == (a + PageSize - 1) \div PageSize

\* Mutant: a page that brought a new table is not remembered for the rollback.
BrkPageForgotten(m, v) ==
    LET f == FirstFree(m)
        mapped == MapPage(Take(m, f), v, f)
    IN  IF ~m.ok \/ m.pte[v] # Null THEN m
        ELSE IF f = Null THEN [m EXCEPT !.ok = FALSE]
        ELSE IF ~mapped.ok THEN FreeBlocks(mapped, {f})
        ELSE IF mapped.tab # m.tab THEN mapped
        ELSE [mapped EXCEPT !.done = @ \cup {v}]

BrkPage(m, v) ==
    LET f == FirstFree(m)
        mapped == MapPage(Take(m, f), v, f)
    IN  IF ~m.ok \/ m.pte[v] # Null THEN m
        ELSE IF f = Null THEN [m EXCEPT !.ok = FALSE]
        ELSE IF ~mapped.ok THEN FreeBlocks(mapped, {f})
        ELSE [mapped EXCEPT !.done = @ \cup {v}]

BrkRollback(m) ==
    [FreeBlocks(m, {m.pte[v] : v \in m.done})
        EXCEPT !.pte = [v \in Pages |-> IF v \in m.done THEN Null ELSE @[v]]]

\* The first page past the old break.
BrkStart(old) == RoundUp(old)

\* The loop over the pages first, ..., last - 1.
BrkPages(start, first, last) ==
    LET run[v \in first .. last] ==
            IF v = first THEN start ELSE BrkPage(run[v-1], v - 1)
    IN  run[last]

Brk(p, brk) ==
    LET old == heap[p].end
        m   == BrkPages(Memory(p), BrkStart(old), RoundUp(brk))
    IN  /\ CpuFree /\ p \in running
        /\ brk > old /\ brk <= heap[p].max
        /\ \/ m.ok  /\ Store(p, m) /\ heap' = [heap EXCEPT ![p].end = brk]
           \/ ~m.ok /\ Store(p, BrkRollback(m)) /\ UNCHANGED heap
        /\ UNCHANGED <<running, paging_map_depth, loader>>

-----------------------------------------------------------------------------
(* fork: a copy of every mapped page, the trampoline's included, in frames  *)
(* of the child's own.                                                      *)

EmptySpace(p) == [Memory(p) EXCEPT !.tab = NoTables, !.pte = Unmapped, !.dir = Null]

CreateProcessDirectory(m) ==
    LET f == FirstFree(m)
    IN  IF f = Null THEN [m EXCEPT !.ok = FALSE] ELSE [Take(m, f) EXCEPT !.dir = f]

\* Mutant: a page table's failure leaves the copied page behind.
CopyPageLost(m, v) ==
    LET f == FirstFree(m)
    IN  IF ~m.ok THEN m
        ELSE IF f = Null THEN [m EXCEPT !.ok = FALSE]
        ELSE MapPage(Take(m, f), v, f)

CopyPage(m, v) ==
    LET f == FirstFree(m)
        mapped == MapPage(Take(m, f), v, f)
    IN  IF ~m.ok THEN m
        ELSE IF f = Null THEN [m EXCEPT !.ok = FALSE]
        ELSE IF ~mapped.ok THEN FreeBlocks(mapped, {f})
        ELSE mapped

\* The loop over the pages that pte maps.
CopyPages(start, pte) ==
    LET run[v \in 0 .. NPages] ==
            IF v = 0 THEN start
            ELSE IF pte[v-1] = Null THEN run[v-1]
            ELSE CopyPage(run[v-1], v - 1)
    IN  run[NPages]

\* threadFails: the child's control block, kernel stack or user stack cannot be had.
ForkSpace(p, child, threadFails) ==
    LET m == CopyPages(CreateProcessDirectory(EmptySpace(child)), ptes[p])
    IN  /\ CpuFree /\ p \in running
        /\ child \in Pcbs \ Live /\ child # loader.proc
        /\ \/ /\ m.ok /\ ~threadFails
              /\ Store(child, m)
              /\ heap' = [heap EXCEPT ![child] = heap[p]]
              /\ running' = running \cup {child}
           \/ /\ ~m.ok \/ threadFails
              /\ Store(child, FreeAddressSpace(m))
              /\ UNCHANGED <<heap, running>>
        /\ UNCHANGED <<paging_map_depth, loader>>

Kill(p) ==
    /\ Store(p, FreeAddressSpace(Memory(p)))
    /\ heap' = [heap EXCEPT ![p] = NoHeap]
    /\ running' = running \ {p}

Exit(p) ==
    /\ CpuFree /\ p \in running
    /\ Kill(p)
    /\ UNCHANGED <<paging_map_depth, loader>>

-----------------------------------------------------------------------------
(* The ELF loader.                                                          *)

\* CreateProcess(): under a guard. The directory is not checked for null: with
\* no frame left MapPage() finds the word of frame 0 not present, needs a table
\* and fails too.
LoadCreate(p, image) ==
    LET m == CreateProcessDirectory(EmptySpace(p))
        t == MapPage(m, TrampolinePage, Trampoline)
    IN  /\ loader.pc = "idle" /\ p \in Pcbs \ Live
        /\ \/ /\ m.ok /\ t.ok
              /\ Store(p, t)
              /\ loader' = [NoLoad EXCEPT !.pc = "find", !.proc = p, !.image = image,
                                          !.page = image[1][1]]
           \/ /\ ~m.ok \/ ~t.ok
              /\ Store(p, [FreeBlocks(m, {m.dir}) EXCEPT !.dir = Null])
              /\ UNCHANGED loader
        /\ UNCHANGED <<heap, running, paging_map_depth>>

Loading(pc) == loader.pc = pc

Cleanup ==
    /\ Kill(loader.proc)
    /\ loader' = NoLoad
    /\ UNCHANGED paging_map_depth

\* pmm_alloc_block_low() for a segment page: the search and the bit it finds.
LoadFind ==
    /\ Loading("find")
    /\ LET f == FirstFree(Memory(loader.proc))
       IN  \/ /\ f # Null
              /\ loader' = [loader EXCEPT !.pc = "take", !.frame = f]
              /\ UNCHANGED <<memory_map, used_blocks, page_directory, tables, ptes, heap,
                             running, paging_map_depth>>
           \/ /\ f = Null
              /\ Cleanup

LoadTake ==
    /\ Loading("take")
    /\ Store(loader.proc, Take(Memory(loader.proc), loader.frame))
    /\ loader' = [loader EXCEPT !.pc = "map"]
    /\ UNCHANGED <<heap, running, paging_map_depth>>

\* After a page: the next one of the segment, or the segment's data.
AfterPage ==
    IF loader.page = loader.image[loader.seg][2]
    THEN [loader EXCEPT !.pc = "read", !.frame = Null, !.found = Null]
    ELSE [loader EXCEPT !.pc = "find", !.page = @ + 1, !.frame = Null, !.found = Null]

\* MapPage() into a table that exists, or of a page outside the user range.
LoadMap ==
    /\ Loading("map")
    /\ \/ loader.page \notin Pages /\ Cleanup
       \/ /\ loader.page \in Pages
          /\ tables[loader.proc][TableOf(loader.page)] # Null
          /\ ptes' = [ptes EXCEPT ![loader.proc][loader.page] = loader.frame]
          /\ loader' = AfterPage
          /\ UNCHANGED <<memory_map, used_blocks, page_directory, tables, heap, running,
                         paging_map_depth>>

\* MapPage() that needs a table: the guard against recursion and the search.
LoadMapFind ==
    /\ Loading("map") /\ loader.page \in Pages
    /\ tables[loader.proc][TableOf(loader.page)] = Null
    /\ LET f == FirstFree(Memory(loader.proc))
       IN  \/ /\ f # Null /\ paging_map_depth = 0
              /\ paging_map_depth' = paging_map_depth + 1
              /\ loader' = [loader EXCEPT !.pc = "link", !.found = f]
              /\ UNCHANGED <<memory_map, used_blocks, page_directory, tables, ptes, heap, running>>
           \/ /\ f = Null \/ paging_map_depth > 0
              /\ Cleanup

LoadMapTake ==
    /\ Loading("link")
    /\ Store(loader.proc, [Take(Memory(loader.proc), loader.found)
                             EXCEPT !.tab[TableOf(loader.page)] = loader.found,
                                    !.pte[loader.page] = loader.frame])
    /\ paging_map_depth' = paging_map_depth - 1
    /\ loader' = AfterPage
    /\ UNCHANGED <<heap, running>>

LastPage(image) == Max({image[i][2] : i \in DOMAIN image})

\* The heap starts past the last segment.
HeapAfter(image) ==
    LET top == (LastPage(image) + 1) * PageSize
    IN  [start |-> top, end |-> top, max |-> top + HeapPages * PageSize]

\* The segment's bytes are read into its frames, which may fail; then the next
\* segment, or the heap's layout.
LoadRead ==
    /\ Loading("read")
    /\ \/ Cleanup
       \/ /\ loader' = IF loader.seg < Len(loader.image)
                       THEN [loader EXCEPT !.pc = "find", !.seg = @ + 1,
                                           !.page = loader.image[loader.seg + 1][1]]
                       ELSE [loader EXCEPT !.pc = "start"]
          /\ heap' = IF loader.seg < Len(loader.image) THEN heap
                     ELSE [heap EXCEPT ![loader.proc] = HeapAfter(loader.image)]
          /\ UNCHANGED <<memory_map, used_blocks, page_directory, tables, ptes, running,
                         paging_map_depth>>

\* StartProcess(): the entry thread is created, or the process is killed again.
LoadStart ==
    /\ Loading("start")
    /\ \/ Cleanup
       \/ /\ running' = running \cup {loader.proc}
          /\ loader' = NoLoad
          /\ UNCHANGED <<memory_map, used_blocks, page_directory, tables, ptes, heap,
                         paging_map_depth>>

Load ==
    \/ \E p \in Pcbs, image \in Images : LoadCreate(p, image)
    \/ LoadFind \/ LoadTake \/ LoadMap \/ LoadMapFind \/ LoadMapTake \/ LoadRead \/ LoadStart

MemoryNext ==
    \/ Load
    \/ \E p \in Pcbs, brk \in 1 .. NPages * PageSize : Brk(p, brk)
    \/ \E p, child \in Pcbs, threadFails \in BOOLEAN : ForkSpace(p, child, threadFails)
    \/ \E p \in Pcbs : Exit(p)

MemorySpec == MemoryInit /\ [][MemoryNext]_memoryVars

-----------------------------------------------------------------------------
(* Properties.                                                              *)

\* Every variable keeps its type; what names a frame names one of the bitmap's.
MemoryTypes ==
    /\ memory_map \in SUBSET (0 .. MaxBlocks - 1)
    /\ used_blocks \in 0 .. MaxBlocks
    /\ page_directory \in [Pcbs -> Frames \cup {Null}]
    /\ tables \in [Pcbs -> [Tables -> Frames \cup {Null}]]
    /\ ptes \in [Pcbs -> [Pages -> Frames \cup {Null}]]
    /\ heap \in [Pcbs -> [start : Nat, end : Nat, max : Nat]]
    /\ running \in SUBSET Live
    /\ paging_map_depth \in {0, 1}
    /\ loader.pc \in {"idle", "find", "take", "map", "link", "read", "start"}

\* The uses of frames: <<what, whose, where>> with the frame.
Uses ==
    {<<"directory", p, 0, page_directory[p]>> : p \in Live}
    \cup {<<"table", p, t, tables[p][t]>> : p \in Live, t \in Tables}
    \cup {<<"page", p, v, ptes[p][v]>> : p \in Live, v \in Pages}
    \cup (IF loader.pc = "map" \/ loader.pc = "link"
          THEN {<<"loading", loader.proc, 0, loader.frame>>} ELSE {})

Owned == {u \in Uses : u[4] \notin {Null, Trampoline}}

\* used_blocks is the number of bits set (PMM_INFO): neither a free of a free
\* frame nor any failure path makes them drift apart.
CounterExact == used_blocks = Cardinality(memory_map)

\* A frame in use as directory, table or page is marked used, is no frame of the
\* kernel and has that one use: no page is shared with another process, mapped
\* after it was freed, or overwritten by a page table.
FramesOwnedOnce ==
    /\ \A u \in Owned : u[4] \in memory_map \ Kernel
    /\ \A u, w \in Owned : u # w => u[4] # w[4]

Lost == memory_map \ (Kernel \cup {u[4] : u \in Owned})

\* What the loader gives up: the frame it holds when the page cannot be mapped,
\* and the one an earlier segment had mapped at the same page.
Droppable ==
    IF loader.pc \in {"map", "link"}
    THEN {loader.frame} \cup (IF loader.page \in Pages THEN {ptes[loader.proc][loader.page]} ELSE {})
    ELSE {}

\* No step of brk, fork, exit or of a failed load loses a frame, with the two
\* exceptions of the loader in Droppable: on every other path what was taken goes
\* back or stays mapped.
LostOnlyByLoader == [][Lost' \subseteq Lost \cup Droppable]_memoryVars

\* Every byte below the break of a running process is mapped, across breaks that
\* end inside a page, failures and forks.
HeapMapped ==
    \A p \in running : \A v \in Pages :
        v * PageSize >= heap[p].start /\ v * PageSize < heap[p].end => ptes[p][v] # Null

\* Frames, counter and heaps over every mix of loads, breaks, forks and exits, with memory
\* running out at any page.
MemorySound == MemoryTypes /\ CounterExact /\ FramesOwnedOnce /\ HeapMapped

\* brk is all or nothing: as long as the break of a running process stays, so do
\* its mappings.
FailedBrkUndone ==
    [][\A p \in running \cap running' :
          heap'[p].end = heap[p].end => ptes'[p] = ptes[p]]_memoryVars

\* KillProcess() reclaims all frames of a process: when nothing is being loaded
\* every frame marked used has a user.
NoFrameLost == loader.pc = "idle" => Lost = {}
=============================================================================

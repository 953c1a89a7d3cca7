------------------------------ MODULE UserStack ------------------------------
(***************************************************************************)
(* User-mode stacks (core/scheduler.cpp).  One global pool hands out stack *)
(* slots, which are virtual address ranges: slot s means the same range in *)
(* every address space.  A thread that exits returns its slot to the pool, *)
(* but a process forked meanwhile still maps a copy of the old stack there.*)
(*                                                                         *)
(* Every operation below runs under an InterruptGuard, so each is one      *)
(* step.  A page directory is abstracted to the set of <<slot, page>>      *)
(* pairs it maps, and the physical memory manager to the number of frames  *)
(* these mappings have taken: a leaked frame or one freed twice makes the  *)
(* number differ from the mappings.  The pages a process has outside the   *)
(* slot range do not interact with the pool and are left out.              *)
(***************************************************************************)
EXTENDS LinkedList, FiniteSets

CONSTANTS
    Threads,      \* addresses of ThreadControlBlocks
    Procs,        \* addresses of ProcessControlBlocks
    NoSlot,       \* stackSlotIdx = UINT32_MAX
    MaxSlots,     \* how many slots fit between VIRT_TOP and VIRT_BOTTOM
    StackPages,   \* USER_STACK_PAGES
    MaxFrames     \* frames the physical memory manager can give

ASSUME StackAssumption ==
    /\ MaxSlots \in Nat \ {0}
    /\ StackPages \in Nat /\ StackPages >= 2     \* the static_assert
    /\ MaxFrames \in Nat
    /\ NoSlot \notin Nat
    /\ IsFiniteSet(Threads)
    /\ IsFiniteSet(Procs)

VARIABLES
    g_freeStackOffsets,   \* the pool of returned slots
    g_nextStackSlotIdx,   \* the lowest slot never handed out
    procs,                \* the processes that exist
    threads,              \* ProcessControlBlock.threads
    stackSlotIdx,         \* ThreadControlBlock.stackSlotIdx
    mapped,               \* the <<slot, page>> pairs each page directory maps
    stack_blocks          \* the frames taken for them

poolVars == <<g_freeStackOffsets, g_nextStackSlotIdx>>
procVars == <<procs, threads, stackSlotIdx>>
vars == <<poolVars, procVars, mapped, stack_blocks>>

Slots == 0..(MaxSlots - 1)
SlotPages == Slots \X (0..(StackPages - 1))

\* Type correctness; every slot lies above USER_STACK_VIRT_BOTTOM.
TypeOK ==
    /\ g_freeStackOffsets \in Seq(Slots)
    /\ g_nextStackSlotIdx \in 0..MaxSlots
    /\ procs \subseteq Procs
    /\ threads \in [Procs -> Seq(Threads)]
    /\ stackSlotIdx \in [Threads -> Slots \cup {NoSlot}]
    /\ mapped \in [Procs -> SUBSET SlotPages]
    /\ stack_blocks \in 0..MaxFrames

\* No user process exists when the kernel has booted.
Init ==
    /\ g_freeStackOffsets = <<>>
    /\ g_nextStackSlotIdx = 0
    /\ procs = {}
    /\ threads = [p \in Procs |-> <<>>]
    /\ stackSlotIdx = [t \in Threads |-> NoSlot]
    /\ mapped = [p \in Procs |-> {}]
    /\ stack_blocks = 0

-------------------------------------------------------------------------------
\* The pages from lo to hi of slot s.
PagesOf(s, lo, hi) == {s} \X (lo..hi)

\* Pages 1 and up of a slot; page 0 is the guard page and is never mapped.
StackOf(s) == PagesOf(s, 1, StackPages - 1)

\* Mutant: the pool's head is taken without a look at the destination.
HeadUsableUnchecked(dir) == g_freeStackOffsets # <<>>

\* The scan of the pool in AllocUserStack().  It pops a candidate and, when the
\* destination directory maps any of its pages, puts it back with Add(), at the
\* front: the next iteration pops the same candidate again.  So the scan sees
\* the head only.
HeadUsable(dir) ==
    /\ g_freeStackOffsets # <<>>
    /\ PagesOf(Head(g_freeStackOffsets), 0, StackPages - 1) \cap dir = {}

\* A slot past the top is refused from the last one that fits on.
RangeExhausted == g_nextStackSlotIdx >= MaxSlots - 1

\* A slot is claimed for directory dir, from the pool or past the top.
ClaimedSlot(dir) ==
    IF HeadUsable(dir) THEN Head(g_freeStackOffsets) ELSE g_nextStackSlotIdx
PoolAfterClaim(dir) ==
    IF HeadUsable(dir) THEN Tail(g_freeStackOffsets) ELSE g_freeStackOffsets
NextAfterClaim(dir) ==
    IF HeadUsable(dir) THEN g_nextStackSlotIdx ELSE g_nextStackSlotIdx + 1
CanClaim(dir) == HeadUsable(dir) \/ ~RangeExhausted

\* The frames still free once other have been taken as well.
FramesLeft(other) == MaxFrames - stack_blocks - other

\* AllocUserStack() for thread t of process p, whose directory maps dir; copied
\* frames have been taken by the same call before.
AllocUserStack(t, p, dir, copied) ==
    LET s == ClaimedSlot(dir)
    IN  /\ CanClaim(dir)
        /\ s < MaxSlots
        /\ FramesLeft(copied) >= StackPages - 1
        /\ g_freeStackOffsets' = PoolAfterClaim(dir)
        /\ g_nextStackSlotIdx' = NextAfterClaim(dir)
        /\ stackSlotIdx' = [stackSlotIdx EXCEPT ![t] = s]
        /\ mapped' = [mapped EXCEPT ![p] = dir \cup StackOf(s)]
        /\ stack_blocks' = stack_blocks + copied + StackPages - 1

\* recycleSlot: the slot of a failed allocation goes to the pool.
RecycleSlot(dir) == g_freeStackOffsets' = Add(PoolAfterClaim(dir), ClaimedSlot(dir))

\* AllocUserStack() fails for page k of a slot, because no frame or no page
\* table can be had: what it mapped below k is unmapped and freed again.
MappedBelow(dir, s, k) == dir \cup PagesOf(s, 1, k - 1)
RolledBack(dir, s, k) == MappedBelow(dir, s, k) \cap PagesOf(s, 0, k - 1)

AllocUserStackFails(dir, copied, k) ==
    /\ CanClaim(dir)
    /\ FramesLeft(copied) >= k - 1
    /\ RecycleSlot(dir)
    /\ g_nextStackSlotIdx' = NextAfterClaim(dir)

\* t is not the address of a thread that exists.
Fresh(t) == \A p \in procs : t \notin Elems(threads[p])

-------------------------------------------------------------------------------
\* CreateProcess(): an address space with no stack.
CreateProcess(p) ==
    /\ p \in Procs \ procs
    /\ procs' = procs \cup {p}
    /\ UNCHANGED <<poolVars, threads, stackSlotIdx, mapped, stack_blocks>>

\* CreateThread() (StartProcess, Hsys_regEventH) and CloneCurrentThread() with no
\* child_stack: a thread of process p on a pool stack.
CreateThread(p, t) ==
    /\ p \in procs
    /\ Fresh(t)
    /\ AllocUserStack(t, p, mapped[p], 0)
    /\ threads' = [threads EXCEPT ![p] = PushBack(@, t)]
    /\ UNCHANGED procs

\* The same, out of memory at page k.
CreateThreadFails(p, k) ==
    LET s == ClaimedSlot(mapped[p])
        undone == RolledBack(mapped[p], s, k)
    IN  /\ p \in procs
        /\ AllocUserStackFails(mapped[p], 0, k)
        /\ mapped' = [mapped EXCEPT ![p] = MappedBelow(@, s, k) \ undone]
        /\ stack_blocks' = stack_blocks + (k - 1) - Cardinality(undone)
        /\ UNCHANGED procVars

\* CloneCurrentThread() on a stack the caller brings: no slot.
CloneOnStack(p, t) ==
    /\ p \in procs
    /\ threads[p] # <<>>
    /\ Fresh(t)
    /\ stackSlotIdx' = [stackSlotIdx EXCEPT ![t] = NoSlot]
    /\ threads' = [threads EXCEPT ![p] = PushBack(@, t)]
    /\ UNCHANGED <<poolVars, procs, mapped, stack_blocks>>

\* CloneCurrentProcess() (fork): child q gets a copy of every page p maps, the
\* stacks of p's threads included, then a stack of its own.
Fork(p, q, t) ==
    /\ p \in procs
    /\ threads[p] # <<>>
    /\ q \in Procs \ procs
    /\ Fresh(t)
    /\ FramesLeft(0) >= Cardinality(mapped[p])
    /\ AllocUserStack(t, q, mapped[p], Cardinality(mapped[p]))
    /\ threads' = [threads EXCEPT ![q] = <<t>>]
    /\ procs' = procs \cup {q}

\* CloneCurrentProcess() with a child_stack.
ForkOnStack(p, q, t) ==
    /\ p \in procs
    /\ threads[p] # <<>>
    /\ q \in Procs \ procs
    /\ Fresh(t)
    /\ FramesLeft(0) >= Cardinality(mapped[p])
    /\ mapped' = [mapped EXCEPT ![q] = mapped[p]]
    /\ stack_blocks' = stack_blocks + Cardinality(mapped[p])
    /\ stackSlotIdx' = [stackSlotIdx EXCEPT ![t] = NoSlot]
    /\ threads' = [threads EXCEPT ![q] = <<t>>]
    /\ procs' = procs \cup {q}
    /\ UNCHANGED poolVars

\* A fork that fails in AllocUserStack(), after the copy: freeChildAddressSpace()
\* then frees every page the child still maps.
ForkFails(p, k) ==
    LET s == ClaimedSlot(mapped[p])
        copied == Cardinality(mapped[p])
    IN  /\ p \in procs
        /\ threads[p] # <<>>
        /\ Procs # procs
        /\ FramesLeft(0) >= copied
        /\ AllocUserStackFails(mapped[p], copied, k)
        /\ stack_blocks' = stack_blocks + copied + (k - 1)
                          - Cardinality(MappedBelow(mapped[p], s, k))
        /\ UNCHANGED <<procVars, mapped>>

-------------------------------------------------------------------------------
\* The slots of the threads in list q, last thread first: the order in which
\* successive Add()s leave them in the pool.
SlotsOf(q) ==
    LET withSlot == SubSeqAt(q, {i \in DOMAIN q : stackSlotIdx[q[i]] # NoSlot})
        n == Len(withSlot)
    IN  [i \in 1..n |-> stackSlotIdx[withSlot[n + 1 - i]]]

\* FreeUserStackSlot(): the pages of slot s that directory dir still maps.
FreeUserStackSlot(dir, s) == dir \cap StackOf(s)

\* TerminateThread(t) for a thread that is not the last of p: its frames are
\* freed, its pages unmapped, and its slot returned.
TerminateThread(p, t) ==
    LET s == stackSlotIdx[t]
        freed == IF s = NoSlot THEN {} ELSE FreeUserStackSlot(mapped[p], s)
    IN  /\ p \in procs
        /\ t \in Elems(threads[p])
        /\ Len(threads[p]) > 1
        /\ g_freeStackOffsets' =
              IF s = NoSlot THEN g_freeStackOffsets ELSE Add(g_freeStackOffsets, s)
        /\ stackSlotIdx' = [stackSlotIdx EXCEPT ![t] = NoSlot]
        /\ mapped' = [mapped EXCEPT ![p] = @ \ freed]
        /\ stack_blocks' = stack_blocks - Cardinality(freed)
        /\ threads' = [threads EXCEPT ![p] = RemoveFirsts(@, {t})]
        /\ UNCHANGED <<g_nextStackSlotIdx, procs>>

\* KillProcess(p), from the exit of the last thread, exit_group, a fault, or a
\* failed launch.  TerminateThread() on each thread frees the stacks of the
\* threads; the sweep of the page tables frees what is still mapped then, which
\* is the stacks inherited through a fork.
KillProcess(p) ==
    LET stacks == UNION {StackOf(stackSlotIdx[t]) : t \in Elems(threads[p])}
        freed  == mapped[p] \cap stacks
        swept  == mapped[p] \ freed
    IN
    /\ p \in procs
    /\ g_freeStackOffsets' = SlotsOf(threads[p]) \o g_freeStackOffsets
    /\ stackSlotIdx' = [t \in Threads |->
                           IF t \in Elems(threads[p]) THEN NoSlot ELSE stackSlotIdx[t]]
    /\ stack_blocks' = stack_blocks - Cardinality(freed) - Cardinality(swept)
    /\ mapped' = [mapped EXCEPT ![p] = {}]
    /\ threads' = [threads EXCEPT ![p] = <<>>]
    /\ procs' = procs \ {p}
    /\ UNCHANGED g_nextStackSlotIdx

Next ==
    \/ \E p \in Procs : CreateProcess(p)
    \/ \E p \in Procs, t \in Threads : CreateThread(p, t)
    \/ \E p \in Procs, k \in 1..(StackPages - 1) : CreateThreadFails(p, k)
    \/ \E p \in Procs, t \in Threads : CloneOnStack(p, t)
    \/ \E p, q \in Procs, t \in Threads : Fork(p, q, t)
    \/ \E p, q \in Procs, t \in Threads : ForkOnStack(p, q, t)
    \/ \E p \in Procs, k \in 1..(StackPages - 1) : ForkFails(p, k)
    \/ \E p \in Procs, t \in Threads : TerminateThread(p, t)
    \/ \E p \in Procs : KillProcess(p)

Spec == Init /\ [][Next]_vars

-------------------------------------------------------------------------------
\* Properties.

\* The slots that threads hold.
InUse == {stackSlotIdx[t] : t \in Threads} \ {NoSlot}

\* Slots are conserved: each one ever handed out is either in the pool, once, or
\* held by exactly one thread of the whole system.  Failed allocations and every
\* way of exiting keep it so.
SlotsAccountedFor ==
    /\ NoRepeat(g_freeStackOffsets)
    /\ \A t, u \in Threads :
          stackSlotIdx[t] = stackSlotIdx[u] /\ stackSlotIdx[t] # NoSlot => t = u
    /\ Elems(g_freeStackOffsets) \cap InUse = {}
    /\ Elems(g_freeStackOffsets) \cup InUse = 0..(g_nextStackSlotIdx - 1)

\* The pool and the range of slots, whose end is tested on the slot about to be handed out.
SlotsSound == TypeOK /\ SlotsAccountedFor

\* A thread's stack is mapped in its own address space for as long as it lives,
\* and its guard page is not.  Recycling never takes the pages of a slot away
\* from under another thread.
StacksMapped ==
    \A p \in procs : \A t \in Elems(threads[p]) :
        LET s == stackSlotIdx[t]
        IN  s # NoSlot => StackOf(s) \subseteq mapped[p] /\ <<s, 0>> \notin mapped[p]

\* The pages of all the page directories: <<p, page>> for a page that m[p] holds.
Mappings(m) == {pm \in Procs \X SlotPages : pm[2] \in m[pm[1]]}

\* A frame per mapped page and no others: no frame leaks when a recycled slot
\* meets an inherited mapping, and none is freed by both TerminateThread() and
\* the sweep of KillProcess().
FramesAccountedFor == stack_blocks = Cardinality(Mappings(mapped))

\* The mappings of all address spaces, over forks, failures half-way, exits and kills.
MappingsSound == StacksMapped /\ FramesAccountedFor

\* Slots and mappings together.
UserStacksSound == SlotsSound /\ MappingsSound

\* What the comment in AllocUserStack() says of a fresh slot: "Only after all
\* recycled candidates have been checked does a fresh slot past the current top
\* get allocated."  When a process gets a fresh slot it maps every slot that was
\* in the pool.
PoolCheckedBeforeFresh ==
    [][\A p \in procs :
          (mapped'[p] # mapped[p] /\ g_nextStackSlotIdx' # g_nextStackSlotIdx) =>
              \A s \in Elems(g_freeStackOffsets) :
                  PagesOf(s, 0, StackPages - 1) \cap mapped[p] # {}]_vars

===============================================================================

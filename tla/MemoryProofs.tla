------------------------------ MODULE MemoryProofs ------------------------------
(***************************************************************************)
(* Memory is conserved: the slots and the frames under user stacks         *)
(* (UserStack), and the page frames, their counter and the address spaces  *)
(* built from them (PhysicalMemory). Proved for any numbers of threads,    *)
(* processes, slots, frames and pages, any size of a page table and of a   *)
(* stack, any programs and any place of the trampoline.                    *)
(*                                                                         *)
(* The loops of brk and fork are recursive functions. That every prefix of *)
(* one keeps an address space in order is shown by looking at the least    *)
(* page after which it would not.                                          *)
(***************************************************************************)
EXTENDS UserStack, PhysicalMemory, LinkedListProofs, FiniteSetTheorems

(***************************************************************************)
(* User stacks.                                                            *)
(***************************************************************************)

\* Every thread is on the list of at most one process, once, and only a process
\* that exists has threads: an address that is Fresh() is free everywhere, and so
\* overwriting its stackSlotIdx loses no slot.
ListsInv ==
    /\ \A p \in Procs : NoRepeat(threads[p])
    /\ \A p, q \in Procs : p # q => Elems(threads[p]) \cap Elems(threads[q]) = {}
    /\ \A p \in Procs \ procs : threads[p] = <<>>
    /\ \A t \in Threads :
          stackSlotIdx[t] # NoSlot => \E p \in procs : t \in Elems(threads[p])

\* A directory of no process maps nothing; no directory maps a guard page, or a page
\* of a slot that was never handed out, not even by inheritance.
DirsInv ==
    /\ \A p \in Procs \ procs : mapped[p] = {}
    /\ \A p \in Procs : \A m \in mapped[p] : m[1] < g_nextStackSlotIdx /\ m[2] # 0

IInv == TypeOK /\ SlotsAccountedFor /\ ListsInv /\ DirsInv /\ StacksMapped /\ FramesAccountedFor

------------------------------------------------------------------------------
(* SlotPages and how many there are.                                             *)

LEMMA PagesFinite == IsFiniteSet(SlotPages)
<1>1. IsFiniteSet(Slots) /\ IsFiniteSet(0..(StackPages - 1))
  BY StackAssumption, FS_Interval DEF Slots
<1>. QED
  BY <1>1, FS_Product DEF SlotPages

LEMMA MappingsFinite ==
    ASSUME NEW m
    PROVE  IsFiniteSet(Mappings(m)) /\ Cardinality(Mappings(m)) \in Nat
<1>1. IsFiniteSet(Procs \X SlotPages)
  BY PagesFinite, StackAssumption, FS_Product
<1>2. Mappings(m) \in SUBSET (Procs \X SlotPages)
  BY DEF Mappings
<1>3. IsFiniteSet(Mappings(m))
  BY <1>1, <1>2, FS_Subset
<1>. QED
  BY <1>3, FS_CardinalityType

LEMMA SomePagesFinite ==
    ASSUME NEW D \in SUBSET SlotPages
    PROVE  IsFiniteSet(D) /\ Cardinality(D) \in Nat
<1>1. IsFiniteSet(D)
  BY PagesFinite, FS_Subset
<1>. QED
  BY <1>1, FS_CardinalityType

\* The frames change by what changes in the one directory that changes.
LEMMA MappingsExcept ==
    ASSUME NEW m \in [Procs -> SUBSET SlotPages], NEW p \in Procs, NEW D \in SUBSET SlotPages
    PROVE  Cardinality(Mappings([m EXCEPT ![p] = D]))
              = Cardinality(Mappings(m)) - Cardinality(m[p]) + Cardinality(D)
<1>. DEFINE n == [m EXCEPT ![p] = D]
            Rest == {pm \in Mappings(m) : pm[1] # p}
<1>1. n \in [Procs -> SUBSET SlotPages] /\ n[p] = D /\ \A q \in Procs \ {p} : n[q] = m[q]
  OBVIOUS
<1>2. ASSUME NEW f \in [Procs -> SUBSET SlotPages], \A q \in Procs \ {p} : f[q] = m[q]
      PROVE  Cardinality(Mappings(f)) = Cardinality(Rest) + Cardinality(f[p])
  <2>1. Mappings(f) = Rest \cup ({p} \X f[p])
    <3>1. ASSUME NEW pm \in Mappings(f)
          PROVE  pm \in Rest \cup ({p} \X f[p])
      BY <3>1, <1>2 DEF Mappings
    <3>2. ASSUME NEW pm \in Rest
          PROVE  pm \in Mappings(f)
      BY <3>2, <1>2 DEF Mappings
    <3>3. ASSUME NEW pm \in {p} \X f[p]
          PROVE  pm \in Mappings(f)
      BY <3>3, <1>2 DEF Mappings
    <3>. QED
      BY <3>1, <3>2, <3>3
  <2>2. Rest \cap ({p} \X f[p]) = {}
    OBVIOUS
  <2>3. IsFiniteSet(Rest)
    BY MappingsFinite, FS_Subset
  <2>4. IsFiniteSet({p}) /\ Cardinality({p}) = 1
    BY FS_Singleton
  <2>5. IsFiniteSet(f[p]) /\ Cardinality(f[p]) \in Nat
    BY SomePagesFinite
  <2>6. IsFiniteSet({p} \X f[p]) /\ Cardinality({p} \X f[p]) = 1 * Cardinality(f[p])
    BY <2>4, <2>5, FS_Product
  <2>7. Cardinality({}) = 0 /\ Cardinality(Rest) \in Nat
    BY <2>3, FS_EmptySet, FS_CardinalityType
  <2>8. Cardinality(Rest \cup ({p} \X f[p]))
           = Cardinality(Rest) + Cardinality({p} \X f[p]) - Cardinality({})
    BY <2>2, <2>3, <2>6, FS_Union
  <2>. QED
    BY <2>1, <2>5, <2>6, <2>7, <2>8
<1>3. Cardinality(Mappings(n)) = Cardinality(Rest) + Cardinality(D)
  BY <1>1, <1>2
<1>4. Cardinality(Mappings(m)) = Cardinality(Rest) + Cardinality(m[p])
  BY <1>2
<1>5. Cardinality(Rest) \in Nat
  BY MappingsFinite, FS_Subset, FS_CardinalityType
<1>6. Cardinality(m[p]) \in Nat /\ Cardinality(D) \in Nat
  BY SomePagesFinite
<1>. HIDE DEF n, Rest
<1>7. Cardinality(Mappings(n)) = Cardinality(Mappings(m)) - Cardinality(m[p]) + Cardinality(D)
  BY <1>3, <1>4, <1>5, <1>6
<1>. QED
  BY <1>7 DEF n

\* Pages 1 to n of a slot: n frames.
LEMMA PagesOfFacts ==
    ASSUME NEW s \in Slots, NEW n \in 0..(StackPages - 1)
    PROVE  /\ PagesOf(s, 1, n) \in SUBSET SlotPages
           /\ Cardinality(PagesOf(s, 1, n)) = n
           /\ \A m \in PagesOf(s, 1, n) : m[1] = s /\ m[2] # 0
<1>1. n \in Nat /\ n <= StackPages - 1
  BY StackAssumption
<1>2. IsFiniteSet(1..n) /\ Cardinality(1..n) = n
  BY <1>1, FS_Interval
<1>3. IsFiniteSet({s}) /\ Cardinality({s}) = 1
  BY FS_Singleton
<1>4. Cardinality({s} \X (1..n)) = 1 * n
  BY <1>2, <1>3, FS_Product
<1>5. 1..n \subseteq 0..(StackPages - 1)
  BY <1>1, StackAssumption
<1>6. PagesOf(s, 1, n) \in SUBSET SlotPages
  BY <1>5 DEF PagesOf, SlotPages
<1>7. \A m \in {s} \X (1..n) : m[1] = s /\ m[2] # 0
  BY <1>1
<1>. QED
  BY <1>1, <1>4, <1>6, <1>7 DEF PagesOf

\* A directory that maps nothing of a slot grows by the pages mapped there.
LEMMA AddPages ==
    ASSUME NEW s \in Slots, NEW n \in 0..(StackPages - 1), NEW dir \in SUBSET SlotPages,
           PagesOf(s, 0, StackPages - 1) \cap dir = {}
    PROVE  /\ dir \cup PagesOf(s, 1, n) \in SUBSET SlotPages
           /\ Cardinality(dir \cup PagesOf(s, 1, n)) = Cardinality(dir) + n
<1>. DEFINE new == PagesOf(s, 1, n)
<1>1. /\ new \in SUBSET SlotPages /\ Cardinality(new) = n
      /\ n \in Nat /\ n <= StackPages - 1
  BY PagesOfFacts, StackAssumption
<1>2. \A i \in 1..n : i \in 0..(StackPages - 1)
  BY <1>1, StackAssumption
<1>3. dir \cap new = {}
  BY <1>2 DEF PagesOf
<1>4. IsFiniteSet(dir) /\ Cardinality(dir) \in Nat /\ IsFiniteSet(new)
  BY <1>1, SomePagesFinite
<1>5. Cardinality(dir \cup new) = Cardinality(dir) + Cardinality(new) - Cardinality(dir \cap new)
  BY <1>4, FS_Union
<1>6. Cardinality(dir \cap new) = 0
  BY <1>3, FS_EmptySet
<1>7. dir \cup new \in SUBSET SlotPages
  BY <1>1
<1>. DEFINE c == Cardinality(dir \cup new)
            d == Cardinality(dir)
<1>. HIDE DEF c, d
<1>8. c = d + n
  <2>1. c = d + Cardinality(new) - Cardinality(dir \cap new) /\ d \in Nat
    BY <1>4, <1>5 DEF c, d
  <2>. HIDE DEF new
  <2>. QED
    BY <1>1, <1>6, <2>1
<1>. QED
  BY <1>7, <1>8 DEF c, d

------------------------------------------------------------------------------
(* The slot a call claims.                                                   *)

\* A claimed slot is nobody's, the pool has it no more, and, whether recycled or
\* fresh, the directory it is claimed for maps none of its pages.
LEMMA ClaimFacts ==
    ASSUME TypeOK, SlotsAccountedFor, NEW dir \in SUBSET SlotPages, CanClaim(dir),
           \A m \in dir : m[1] < g_nextStackSlotIdx
    PROVE  LET s == ClaimedSlot(dir)
               pool == PoolAfterClaim(dir)
           IN  /\ s \in Slots
               /\ pool \in Seq(Slots) /\ NoRepeat(pool) /\ s \notin Elems(pool)
               /\ NextAfterClaim(dir) \in 0..MaxSlots
               /\ g_nextStackSlotIdx <= NextAfterClaim(dir) /\ s < NextAfterClaim(dir)
               /\ s \notin InUse /\ Elems(pool) \cap InUse = {}
               /\ Elems(pool) \cup InUse \cup {s} = 0..(NextAfterClaim(dir) - 1)
               /\ PagesOf(s, 0, StackPages - 1) \cap dir = {}
<1>. DEFINE s == ClaimedSlot(dir)
            pool == PoolAfterClaim(dir)
            next == NextAfterClaim(dir)
<1>1. /\ g_freeStackOffsets \in Seq(Slots) /\ NoRepeat(g_freeStackOffsets)
      /\ g_nextStackSlotIdx \in 0..MaxSlots /\ MaxSlots \in Nat /\ g_nextStackSlotIdx \in Nat
      /\ Elems(g_freeStackOffsets) \cap InUse = {}
      /\ Elems(g_freeStackOffsets) \cup InUse = 0..(g_nextStackSlotIdx - 1)
  BY StackAssumption DEF TypeOK, SlotsAccountedFor
<1>2. CASE HeadUsable(dir)
  <2>1. /\ s = Head(g_freeStackOffsets) /\ pool = Tail(g_freeStackOffsets)
        /\ next = g_nextStackSlotIdx
    BY <1>2 DEF ClaimedSlot, PoolAfterClaim, NextAfterClaim
  <2>2. g_freeStackOffsets # <<>> /\ PagesOf(s, 0, StackPages - 1) \cap dir = {}
    BY <1>2, <2>1 DEF HeadUsable
  <2>3. /\ s \in Slots /\ s \in Elems(g_freeStackOffsets) /\ pool \in Seq(Slots)
        /\ NoRepeat(pool) /\ Elems(pool) = Elems(g_freeStackOffsets) \ {s}
    BY <1>1, <2>1, <2>2, PopFrontFacts
  <2>4. s \in 0..(g_nextStackSlotIdx - 1)
    BY <1>1, <2>3
  <2>5. s < next /\ g_nextStackSlotIdx <= next
    BY <1>1, <2>1, <2>4
  <2>6. Elems(pool) \cup InUse \cup {s} = 0..(next - 1)
    BY <1>1, <2>1, <2>3
  <2>7. s \notin Elems(pool) /\ s \notin InUse /\ Elems(pool) \cap InUse = {}
    BY <1>1, <2>3
  <2>8. next \in 0..MaxSlots
    BY <1>1, <2>1
  <2>. QED
    BY <2>2, <2>3, <2>5, <2>6, <2>7, <2>8
<1>3. CASE ~HeadUsable(dir)
  <2>1. /\ s = g_nextStackSlotIdx /\ pool = g_freeStackOffsets
        /\ next = g_nextStackSlotIdx + 1
    BY <1>3 DEF ClaimedSlot, PoolAfterClaim, NextAfterClaim
  <2>2. g_nextStackSlotIdx < MaxSlots - 1
    BY <1>1, <1>3 DEF CanClaim, RangeExhausted
  <2>3. s \in Slots /\ next \in 0..MaxSlots /\ g_nextStackSlotIdx <= next /\ s < next
    BY <1>1, <2>1, <2>2 DEF Slots
  <2>4. s \notin 0..(g_nextStackSlotIdx - 1)
    BY <1>1, <2>1
  <2>5. s \notin Elems(pool) /\ s \notin InUse
    BY <1>1, <2>1, <2>4
  <2>6. 0..(next - 1) = 0..(g_nextStackSlotIdx - 1) \cup {s}
    BY <1>1, <2>1
  <2>7. Elems(pool) \cup InUse \cup {s} = 0..(next - 1)
    BY <1>1, <2>1, <2>6
  <2>8. PagesOf(s, 0, StackPages - 1) \cap dir = {}
    BY <1>1, <2>1 DEF PagesOf
  <2>9. pool \in Seq(Slots) /\ NoRepeat(pool) /\ Elems(pool) \cap InUse = {}
    BY <1>1, <2>1
  <2>. QED
    BY <2>3, <2>5, <2>7, <2>8, <2>9
<1>. QED
  BY <1>2, <1>3

\* A fresh address holds no slot.
LEMMA FreshFacts ==
    ASSUME TypeOK, ListsInv, NEW t \in Threads, Fresh(t)
    PROVE  stackSlotIdx[t] = NoSlot /\ \A p \in Procs : t \notin Elems(threads[p])
<1>1. \A p \in Procs \ procs : Elems(threads[p]) = {}
  BY DEF ListsInv, Elems
<1>. QED
  BY <1>1 DEF Fresh, ListsInv

\* Slots stay accounted for when one thread without a slot gets a claimed one.
LEMMA ClaimAccounted ==
    ASSUME TypeOK, SlotsAccountedFor, NEW t \in Threads, stackSlotIdx[t] = NoSlot,
           NEW s \in Slots, s \notin InUse,
           stackSlotIdx' = [stackSlotIdx EXCEPT ![t] = s],
           NoRepeat(g_freeStackOffsets'), s \notin Elems(g_freeStackOffsets'),
           Elems(g_freeStackOffsets') \cap InUse = {},
           Elems(g_freeStackOffsets') \cup InUse \cup {s} = 0..(g_nextStackSlotIdx' - 1)
    PROVE  SlotsAccountedFor'
<1>1. /\ stackSlotIdx'[t] = s /\ \A u \in Threads \ {t} : stackSlotIdx'[u] = stackSlotIdx[u]
      /\ s # NoSlot
  BY StackAssumption DEF TypeOK, Slots
<1>2. \A u \in Threads : stackSlotIdx[u] # s
  BY <1>1 DEF InUse
<1>3. InUse' = InUse \cup {s}
  BY <1>1 DEF InUse
<1>4. \A u, v \in Threads :
         stackSlotIdx'[u] = stackSlotIdx'[v] /\ stackSlotIdx'[u] # NoSlot => u = v
  BY <1>1, <1>2 DEF SlotsAccountedFor
<1>5. /\ Elems(g_freeStackOffsets') \cap InUse' = {}
      /\ Elems(g_freeStackOffsets') \cup InUse' = 0..(g_nextStackSlotIdx' - 1)
  BY <1>3
<1>. QED
  BY <1>4, <1>5 DEF SlotsAccountedFor, NoRepeat, Elems

\* A claimed slot that goes back to the pool at once is accounted for as well.
LEMMA RecycleAccounted ==
    ASSUME TypeOK, SlotsAccountedFor, NEW dir \in SUBSET SlotPages, CanClaim(dir),
           \A m \in dir : m[1] < g_nextStackSlotIdx,
           RecycleSlot(dir), g_nextStackSlotIdx' = NextAfterClaim(dir),
           stackSlotIdx' = stackSlotIdx
    PROVE  /\ SlotsAccountedFor'
           /\ g_freeStackOffsets' \in Seq(Slots) /\ g_nextStackSlotIdx' \in 0..MaxSlots
           /\ g_nextStackSlotIdx <= g_nextStackSlotIdx'
<1>. DEFINE s == ClaimedSlot(dir)
            pool == PoolAfterClaim(dir)
<1>1. /\ s \in Slots
      /\ pool \in Seq(Slots) /\ NoRepeat(pool) /\ s \notin Elems(pool)
      /\ NextAfterClaim(dir) \in 0..MaxSlots
      /\ g_nextStackSlotIdx <= NextAfterClaim(dir)
      /\ s \notin InUse /\ Elems(pool) \cap InUse = {}
      /\ Elems(pool) \cup InUse \cup {s} = 0..(NextAfterClaim(dir) - 1)
  BY ClaimFacts
<1>2. g_freeStackOffsets' = Add(pool, s)
  BY DEF RecycleSlot
<1>. HIDE DEF s, pool
<1>3. /\ g_freeStackOffsets' \in Seq(Slots) /\ NoRepeat(g_freeStackOffsets')
      /\ Elems(g_freeStackOffsets') = {s} \cup Elems(pool)
  BY <1>1, <1>2, AddFacts
<1>4. InUse' = InUse
  BY DEF InUse
<1>5. /\ Elems(g_freeStackOffsets') \cap InUse' = {}
      /\ Elems(g_freeStackOffsets') \cup InUse' = 0..(g_nextStackSlotIdx' - 1)
  BY <1>1, <1>3, <1>4
<1>6. \A u, v \in Threads :
         stackSlotIdx'[u] = stackSlotIdx'[v] /\ stackSlotIdx'[u] # NoSlot => u = v
  BY DEF SlotsAccountedFor
<1>7. SlotsAccountedFor'
  BY <1>3, <1>5, <1>6 DEF SlotsAccountedFor
<1>. QED
  BY <1>1, <1>3, <1>7

------------------------------------------------------------------------------
(* What the steps share.                                                     *)

\* The frames follow the directory that changes.
LEMMA FramesStep ==
    ASSUME TypeOK, FramesAccountedFor, NEW p \in Procs, NEW D \in SUBSET SlotPages,
           mapped' = [mapped EXCEPT ![p] = D],
           stack_blocks' = stack_blocks - Cardinality(mapped[p]) + Cardinality(D)
    PROVE  FramesAccountedFor' /\ stack_blocks' \in Nat
<1>1. /\ mapped \in [Procs -> SUBSET SlotPages] /\ stack_blocks = Cardinality(Mappings(mapped))
  BY DEF TypeOK, FramesAccountedFor
<1>2. Cardinality(Mappings(mapped'))
         = Cardinality(Mappings(mapped)) - Cardinality(mapped[p]) + Cardinality(D)
  BY <1>1, MappingsExcept
<1>3. stack_blocks' = Cardinality(Mappings(mapped'))
  BY <1>1, <1>2
<1>4. Cardinality(Mappings(mapped')) \in Nat
  BY MappingsFinite
<1>. QED
  BY <1>3, <1>4 DEF FramesAccountedFor

\* A directory with some of its pages gone has that many fewer.
LEMMA RemovePages ==
    ASSUME NEW dir \in SUBSET SlotPages, NEW D
    PROVE  /\ dir \ D \in SUBSET SlotPages /\ dir \cap D \in SUBSET SlotPages
           /\ Cardinality(dir \ D) = Cardinality(dir) - Cardinality(dir \cap D)
           /\ Cardinality(dir) \in Nat /\ Cardinality(dir \ D) \in Nat
           /\ Cardinality(dir \cap D) \in Nat
<1>1. IsFiniteSet(dir)
  BY SomePagesFinite
<1>2. Cardinality(dir \ D) = Cardinality(dir) - Cardinality(dir \cap D)
  BY <1>1, FS_Difference
<1>3. dir \ D \in SUBSET SlotPages /\ dir \cap D \in SUBSET SlotPages
  OBVIOUS
<1>. QED
  BY <1>2, <1>3, SomePagesFinite

\* An allocation that succeeds: the slot, the frames, and the directory it makes.
LEMMA AllocStep ==
    ASSUME TypeOK, SlotsAccountedFor, ListsInv, FramesAccountedFor,
           NEW t \in Threads, Fresh(t), NEW p \in Procs,
           NEW dir \in SUBSET SlotPages, \A m \in dir : m[1] < g_nextStackSlotIdx /\ m[2] # 0,
           NEW copied \in Nat, copied = Cardinality(dir) - Cardinality(mapped[p]),
           AllocUserStack(t, p, dir, copied)
    PROVE  /\ SlotsAccountedFor' /\ FramesAccountedFor'
           /\ g_freeStackOffsets' \in Seq(Slots)
           /\ g_nextStackSlotIdx' \in 0..MaxSlots
           /\ g_nextStackSlotIdx <= g_nextStackSlotIdx'
           /\ stackSlotIdx' \in [Threads -> Slots \cup {NoSlot}]
           /\ \A u \in Threads \ {t} : stackSlotIdx'[u] = stackSlotIdx[u]
           /\ mapped' \in [Procs -> SUBSET SlotPages]
           /\ stack_blocks' \in 0..MaxFrames
           /\ \A q \in Procs \ {p} : mapped'[q] = mapped[q]
           /\ dir \subseteq mapped'[p]
           /\ \A m \in mapped'[p] : m[1] < g_nextStackSlotIdx' /\ m[2] # 0
           /\ StackOf(stackSlotIdx'[t]) \subseteq mapped'[p]
<1>. DEFINE s == ClaimedSlot(dir)
<1>1. /\ CanClaim(dir)
      /\ FramesLeft(copied) >= StackPages - 1
      /\ g_freeStackOffsets' = PoolAfterClaim(dir)
      /\ g_nextStackSlotIdx' = NextAfterClaim(dir)
      /\ stackSlotIdx' = [stackSlotIdx EXCEPT ![t] = s]
      /\ mapped' = [mapped EXCEPT ![p] = dir \cup StackOf(s)]
      /\ stack_blocks' = stack_blocks + copied + StackPages - 1
  BY DEF AllocUserStack
<1>2. /\ s \in Slots
      /\ g_freeStackOffsets' \in Seq(Slots) /\ NoRepeat(g_freeStackOffsets')
      /\ s \notin Elems(g_freeStackOffsets')
      /\ g_nextStackSlotIdx' \in 0..MaxSlots
      /\ g_nextStackSlotIdx <= g_nextStackSlotIdx' /\ s < g_nextStackSlotIdx'
      /\ s \notin InUse /\ Elems(g_freeStackOffsets') \cap InUse = {}
      /\ Elems(g_freeStackOffsets') \cup InUse \cup {s} = 0..(g_nextStackSlotIdx' - 1)
      /\ PagesOf(s, 0, StackPages - 1) \cap dir = {}
  BY <1>1, ClaimFacts
<1>. HIDE DEF s
<1>3. stackSlotIdx[t] = NoSlot
  BY FreshFacts
<1>4. SlotsAccountedFor'
  BY <1>1, <1>2, <1>3, ClaimAccounted
<1>5. /\ StackPages - 1 \in 0..(StackPages - 1) /\ StackPages - 1 \in Nat
      /\ StackOf(s) = PagesOf(s, 1, StackPages - 1)
  BY StackAssumption DEF StackOf
<1>6. /\ dir \cup StackOf(s) \in SUBSET SlotPages
      /\ Cardinality(dir \cup StackOf(s)) = Cardinality(dir) + (StackPages - 1)
  <2>. DEFINE n == StackPages - 1
  <2>1. n \in 0..(StackPages - 1) /\ s \in Slots /\ PagesOf(s, 0, StackPages - 1) \cap dir = {}
    BY <1>2, <1>5
  <2>. HIDE DEF n
  <2>2. /\ dir \cup PagesOf(s, 1, n) \in SUBSET SlotPages
        /\ Cardinality(dir \cup PagesOf(s, 1, n)) = Cardinality(dir) + n
    BY <2>1, AddPages
  <2>. QED
    BY <1>5, <2>2 DEF n
<1>7. /\ \A m \in StackOf(s) : m[1] = s /\ m[2] # 0
  BY <1>2, <1>5, PagesOfFacts
<1>8. /\ stack_blocks \in Nat /\ stack_blocks <= MaxFrames
      /\ mapped \in [Procs -> SUBSET SlotPages] /\ mapped[p] \in SUBSET SlotPages
      /\ stackSlotIdx \in [Threads -> Slots \cup {NoSlot}]
      /\ g_nextStackSlotIdx \in Nat /\ g_nextStackSlotIdx' \in Nat /\ s \in Nat
      /\ MaxFrames \in Nat
  BY <1>2, StackAssumption DEF TypeOK, Slots
<1>9. Cardinality(dir) \in Nat /\ Cardinality(mapped[p]) \in Nat
  BY <1>8, SomePagesFinite
<1>10. stack_blocks' = stack_blocks - Cardinality(mapped[p]) + Cardinality(dir \cup StackOf(s))
  BY <1>1, <1>5, <1>6, <1>8, <1>9
<1>11. FramesAccountedFor' /\ stack_blocks' \in Nat
  BY <1>1, <1>6, <1>10, FramesStep
<1>12. stack_blocks' <= MaxFrames
  BY <1>1, <1>5, <1>8 DEF FramesLeft
<1>13. stack_blocks' \in 0..MaxFrames
  BY <1>8, <1>11, <1>12
<1>14. /\ stackSlotIdx' \in [Threads -> Slots \cup {NoSlot}] /\ stackSlotIdx'[t] = s
       /\ \A u \in Threads \ {t} : stackSlotIdx'[u] = stackSlotIdx[u]
  BY <1>1, <1>2, <1>8
<1>15. /\ mapped' \in [Procs -> SUBSET SlotPages] /\ mapped'[p] = dir \cup StackOf(s)
       /\ \A q \in Procs \ {p} : mapped'[q] = mapped[q]
  BY <1>1, <1>6, <1>8
<1>16. \A m \in dir : m[1] \in Nat
  BY DEF SlotPages, Slots
<1>17. \A m \in mapped'[p] : m[1] < g_nextStackSlotIdx' /\ m[2] # 0
  BY <1>2, <1>7, <1>8, <1>15, <1>16
<1>. QED
  BY <1>2, <1>4, <1>11, <1>13, <1>14, <1>15, <1>17

\* The lists after thread t has been pushed on the list of p, a process that exists now.
LEMMA PushStep ==
    ASSUME TypeOK, ListsInv, NEW t \in Threads, Fresh(t), NEW p \in procs',
           procs' \in SUBSET Procs, procs \subseteq procs', procs' \subseteq procs \cup {p},
           threads' = [threads EXCEPT ![p] = PushBack(@, t)],
           \A u \in Threads \ {t} : stackSlotIdx'[u] = stackSlotIdx[u]
    PROVE  /\ ListsInv' /\ threads' \in [Procs -> Seq(Threads)]
           /\ Elems(threads'[p]) = Elems(threads[p]) \cup {t}
           /\ \A q \in Procs \ {p} : threads'[q] = threads[q]
           /\ \A q \in Procs : t \notin Elems(threads[q])
<1>1. /\ threads \in [Procs -> Seq(Threads)] /\ p \in Procs /\ threads[p] \in Seq(Threads)
      /\ threads'[p] = PushBack(threads[p], t)
      /\ \A q \in Procs \ {p} : threads'[q] = threads[q]
  BY DEF TypeOK
<1>2. \A q \in Procs : t \notin Elems(threads[q])
  BY FreshFacts
<1>3. /\ threads'[p] \in Seq(Threads) /\ NoRepeat(threads'[p])
      /\ Elems(threads'[p]) = Elems(threads[p]) \cup {t}
  BY <1>1, <1>2, PushBackFacts DEF ListsInv
<1>4. threads' \in [Procs -> Seq(Threads)]
  BY <1>1, <1>3
<1>5. \A q \in Procs : NoRepeat(threads'[q])
  BY <1>1, <1>3 DEF ListsInv
<1>6. \A q \in Procs : Elems(threads[q]) \subseteq Elems(threads'[q])
  BY <1>1, <1>3
<1>7. ASSUME NEW q \in Procs, NEW r \in Procs, q # r
      PROVE  Elems(threads'[q]) \cap Elems(threads'[r]) = {}
  <2>1. Elems(threads[q]) \cap Elems(threads[r]) = {}
    BY <1>7 DEF ListsInv
  <2>. QED
    BY <1>1, <1>2, <1>3, <1>7, <2>1
<1>8. \A q \in Procs \ procs' : threads'[q] = <<>>
  BY <1>1 DEF ListsInv
<1>9. ASSUME NEW u \in Threads, stackSlotIdx'[u] # NoSlot
      PROVE  \E q \in procs' : u \in Elems(threads'[q])
  <2>1. CASE u = t
    BY <1>3, <2>1
  <2>2. CASE u # t
    <3>1. PICK q \in procs : u \in Elems(threads[q])
      BY <1>9, <2>2 DEF ListsInv
    <3>. QED
      BY <1>6, <3>1
  <2>. QED
    BY <2>1, <2>2
<1>10. ListsInv'
  BY <1>5, <1>7, <1>8, <1>9 DEF ListsInv
<1>. QED
  BY <1>1, <1>2, <1>3, <1>4, <1>10

\* Stacks stay mapped when the threads that were there keep their slots, no
\* directory of theirs loses a page, and the one new thread has its stack.
LEMMA StacksStayMapped ==
    ASSUME StacksMapped, TypeOK, NEW t \in Threads, NEW p \in Procs,
           procs' \subseteq procs \cup {p}, procs \subseteq Procs,
           \A q \in Procs \ {p} : threads'[q] = threads[q],
           Elems(threads'[p]) = Elems(threads[p]) \cup {t},
           p \notin procs => Elems(threads[p]) = {},
           \A q \in Procs : t \notin Elems(threads[q]),
           \A u \in Threads \ {t} : stackSlotIdx'[u] = stackSlotIdx[u],
           \A q \in Procs : mapped[q] \subseteq mapped'[q],
           \A q \in Procs : \A m \in mapped'[q] : m[2] # 0,
           stackSlotIdx'[t] # NoSlot => StackOf(stackSlotIdx'[t]) \subseteq mapped'[p]
    PROVE  StacksMapped'
<1>. SUFFICES ASSUME NEW q \in procs', NEW u \in Elems(threads'[q]),
                     stackSlotIdx'[u] # NoSlot
              PROVE  /\ StackOf(stackSlotIdx'[u]) \subseteq mapped'[q]
                     /\ <<stackSlotIdx'[u], 0>> \notin mapped'[q]
  BY DEF StacksMapped, StackOf, PagesOf
<1>1. <<stackSlotIdx'[u], 0>> \notin mapped'[q]
  OBVIOUS
<1>2. CASE u = t
  <2>1. q = p
    BY <1>2
  <2>. QED
    BY <1>1, <1>2, <2>1
<1>3. CASE u # t
  <2>1. u \in Elems(threads[q]) /\ q \in procs
    BY <1>3
  <2>2. u \in Threads
    BY <2>1 DEF TypeOK, Elems
  <2>3. stackSlotIdx'[u] = stackSlotIdx[u]
    BY <1>3, <2>2
  <2>4. StackOf(stackSlotIdx[u]) \subseteq mapped[q]
    BY <2>1, <2>3 DEF StacksMapped
  <2>. QED
    BY <1>1, <2>1, <2>3, <2>4
<1>. QED
  BY <1>2, <1>3

------------------------------------------------------------------------------
(* One step per action.                                                      *)

LEMMA InitIInv == Init => IInv
<1>. SUFFICES ASSUME Init PROVE IInv
  OBVIOUS
<1>. USE DEF Init
<1>1. TypeOK
  BY StackAssumption DEF TypeOK
<1>2. SlotsAccountedFor
  <2>1. InUse = {}
    BY DEF InUse
  <2>2. 0..(g_nextStackSlotIdx - 1) = {}
    OBVIOUS
  <2>. QED
    BY <2>1, <2>2 DEF SlotsAccountedFor, NoRepeat, Elems
<1>3. ListsInv
  BY DEF ListsInv, NoRepeat, Elems
<1>4. DirsInv
  BY DEF DirsInv
<1>5. StacksMapped
  BY DEF StacksMapped
<1>6. FramesAccountedFor
  <2>1. Mappings(mapped) = {}
    BY DEF Mappings
  <2>. QED
    BY <2>1, FS_EmptySet DEF FramesAccountedFor
<1>. QED
  BY <1>1, <1>2, <1>3, <1>4, <1>5, <1>6 DEF IInv

LEMMA CreateProcessStep ==
    ASSUME IInv, NEW p \in Procs, CreateProcess(p)
    PROVE  IInv'
<1>. USE DEF CreateProcess, poolVars
<1>1. TypeOK'
  BY DEF IInv, TypeOK
<1>2. SlotsAccountedFor'
  BY DEF IInv, SlotsAccountedFor, InUse
<1>3. ListsInv'
  BY DEF IInv, ListsInv
<1>4. DirsInv'
  BY DEF IInv, DirsInv
<1>5. StacksMapped'
  <2>1. Elems(threads[p]) = {}
    BY DEF IInv, ListsInv, Elems
  <2>2. p \notin procs /\ procs' = procs \cup {p}
    OBVIOUS
  <2>. QED
    BY <2>1, <2>2 DEF IInv, StacksMapped, StackOf, PagesOf
<1>6. FramesAccountedFor'
  BY DEF IInv, FramesAccountedFor
<1>. QED
  BY <1>1, <1>2, <1>3, <1>4, <1>5, <1>6 DEF IInv

LEMMA CreateThreadStep ==
    ASSUME IInv, NEW p \in Procs, NEW t \in Threads, CreateThread(p, t)
    PROVE  IInv'
<1>1. /\ TypeOK /\ SlotsAccountedFor /\ ListsInv /\ DirsInv /\ StacksMapped
      /\ FramesAccountedFor
  BY DEF IInv
<1>2. /\ p \in procs /\ Fresh(t) /\ procs' = procs
      /\ AllocUserStack(t, p, mapped[p], 0)
      /\ threads' = [threads EXCEPT ![p] = PushBack(@, t)]
  BY DEF CreateThread
<1>3. /\ mapped[p] \in SUBSET SlotPages /\ procs \subseteq Procs
      /\ 0 = Cardinality(mapped[p]) - Cardinality(mapped[p])
      /\ \A m \in mapped[p] : m[1] < g_nextStackSlotIdx /\ m[2] # 0
  <2>1. mapped[p] \in SUBSET SlotPages /\ procs \subseteq Procs
    BY <1>1 DEF TypeOK
  <2>2. Cardinality(mapped[p]) \in Nat
    BY <2>1, SomePagesFinite
  <2>. QED
    BY <1>1, <2>1, <2>2 DEF DirsInv
<1>4. /\ SlotsAccountedFor' /\ FramesAccountedFor'
      /\ g_freeStackOffsets' \in Seq(Slots)
      /\ g_nextStackSlotIdx' \in 0..MaxSlots
      /\ g_nextStackSlotIdx <= g_nextStackSlotIdx'
      /\ stackSlotIdx' \in [Threads -> Slots \cup {NoSlot}]
      /\ \A u \in Threads \ {t} : stackSlotIdx'[u] = stackSlotIdx[u]
      /\ mapped' \in [Procs -> SUBSET SlotPages]
      /\ stack_blocks' \in 0..MaxFrames
      /\ \A q \in Procs \ {p} : mapped'[q] = mapped[q]
      /\ mapped[p] \subseteq mapped'[p]
      /\ \A m \in mapped'[p] : m[1] < g_nextStackSlotIdx' /\ m[2] # 0
      /\ StackOf(stackSlotIdx'[t]) \subseteq mapped'[p]
  BY <1>1, <1>2, <1>3, AllocStep
<1>5. /\ ListsInv' /\ threads' \in [Procs -> Seq(Threads)]
      /\ Elems(threads'[p]) = Elems(threads[p]) \cup {t}
      /\ \A q \in Procs \ {p} : threads'[q] = threads[q]
      /\ \A q \in Procs : t \notin Elems(threads[q])
  BY <1>1, <1>2, <1>3, <1>4, PushStep
<1>6. TypeOK'
  BY <1>2, <1>3, <1>4, <1>5 DEF TypeOK
<1>7. \A q \in Procs : \A m \in mapped'[q] : m[1] < g_nextStackSlotIdx' /\ m[2] # 0
  <2>1. \A q \in Procs : \A m \in mapped[q] : m[1] \in Nat
    BY <1>1 DEF TypeOK, SlotPages, Slots
  <2>2. g_nextStackSlotIdx \in Nat /\ g_nextStackSlotIdx' \in Nat
    BY <1>1, <1>4, StackAssumption DEF TypeOK
  <2>. QED
    BY <1>1, <1>4, <2>1, <2>2 DEF DirsInv
<1>8. DirsInv'
  BY <1>1, <1>2, <1>4, <1>7 DEF DirsInv
<1>9. StacksMapped'
  BY <1>1, <1>2, <1>3, <1>4, <1>5, <1>7, StacksStayMapped
<1>. QED
  BY <1>4, <1>5, <1>6, <1>8, <1>9 DEF IInv

\* The slot returns to the pool and every page mapped on the way is unmapped again:
\* none of those pages was mapped before.
LEMMA CreateThreadFailsStep ==
    ASSUME IInv, NEW p \in Procs, NEW k \in 1..(StackPages - 1), CreateThreadFails(p, k)
    PROVE  IInv'
<1>. DEFINE dir == mapped[p]
            s == ClaimedSlot(dir)
            undone == RolledBack(dir, s, k)
<1>1. /\ TypeOK /\ SlotsAccountedFor /\ ListsInv /\ DirsInv /\ StacksMapped
      /\ FramesAccountedFor
  BY DEF IInv
<1>2. /\ CanClaim(dir) /\ RecycleSlot(dir)
      /\ g_nextStackSlotIdx' = NextAfterClaim(dir)
      /\ mapped' = [mapped EXCEPT ![p] = MappedBelow(dir, s, k) \ undone]
      /\ stack_blocks' = stack_blocks + (k - 1) - Cardinality(undone)
      /\ procs' = procs /\ threads' = threads /\ stackSlotIdx' = stackSlotIdx
  BY DEF CreateThreadFails, AllocUserStackFails, procVars
<1>3. dir \in SUBSET SlotPages /\ \A m \in dir : m[1] < g_nextStackSlotIdx
  BY <1>1 DEF TypeOK, DirsInv
<1>4. s \in Slots /\ PagesOf(s, 0, StackPages - 1) \cap dir = {}
  BY <1>1, <1>2, <1>3, ClaimFacts
<1>5. /\ SlotsAccountedFor'
      /\ g_freeStackOffsets' \in Seq(Slots) /\ g_nextStackSlotIdx' \in 0..MaxSlots
      /\ g_nextStackSlotIdx <= g_nextStackSlotIdx'
  BY <1>1, <1>2, <1>3, RecycleAccounted
<1>6. /\ k - 1 \in 0..(StackPages - 1) /\ k - 1 \in Nat
      /\ \A i \in 0..(k - 1) : i \in 0..(StackPages - 1)
      /\ \A i \in 1..(k - 1) : i \in 0..(k - 1)
  BY StackAssumption
<1>7. undone = PagesOf(s, 1, k - 1)
  BY <1>4, <1>6 DEF RolledBack, MappedBelow, PagesOf
<1>8. MappedBelow(dir, s, k) \ undone = dir
  BY <1>4, <1>6, <1>7 DEF MappedBelow, PagesOf
<1>9. Cardinality(undone) = k - 1
  BY <1>4, <1>6, <1>7, PagesOfFacts
<1>10. stack_blocks' = stack_blocks
  BY <1>1, <1>2, <1>6, <1>9 DEF TypeOK
<1>11. mapped' = mapped
  BY <1>1, <1>2, <1>8 DEF TypeOK
<1>12. TypeOK'
  BY <1>1, <1>2, <1>5, <1>10, <1>11 DEF TypeOK
<1>13. DirsInv'
  <2>1. \A q \in Procs : \A m \in mapped[q] : m[1] \in Nat
    BY <1>1 DEF TypeOK, SlotPages, Slots
  <2>2. g_nextStackSlotIdx \in Nat /\ g_nextStackSlotIdx' \in Nat
    BY <1>1, <1>5, StackAssumption DEF TypeOK
  <2>. QED
    BY <1>1, <1>2, <1>5, <1>11, <2>1, <2>2 DEF DirsInv
<1>14. ListsInv'
  BY <1>1, <1>2 DEF ListsInv
<1>15. StacksMapped'
  BY <1>1, <1>2, <1>11 DEF StacksMapped
<1>16. FramesAccountedFor'
  BY <1>1, <1>10, <1>11 DEF FramesAccountedFor
<1>. QED
  BY <1>5, <1>12, <1>13, <1>14, <1>15, <1>16 DEF IInv

LEMMA CloneOnStackStep ==
    ASSUME IInv, NEW p \in Procs, NEW t \in Threads, CloneOnStack(p, t)
    PROVE  IInv'
<1>1. /\ TypeOK /\ SlotsAccountedFor /\ ListsInv /\ DirsInv /\ StacksMapped
      /\ FramesAccountedFor
  BY DEF IInv
<1>2. /\ p \in procs /\ Fresh(t) /\ procs' = procs
      /\ stackSlotIdx' = [stackSlotIdx EXCEPT ![t] = NoSlot]
      /\ threads' = [threads EXCEPT ![p] = PushBack(@, t)]
      /\ g_freeStackOffsets' = g_freeStackOffsets
      /\ g_nextStackSlotIdx' = g_nextStackSlotIdx
      /\ mapped' = mapped /\ stack_blocks' = stack_blocks
  BY DEF CloneOnStack, poolVars
<1>3. stackSlotIdx' = stackSlotIdx
  BY <1>1, <1>2, FreshFacts DEF TypeOK
<1>4. procs \subseteq Procs
  BY <1>1 DEF TypeOK
<1>5. /\ ListsInv' /\ threads' \in [Procs -> Seq(Threads)]
      /\ Elems(threads'[p]) = Elems(threads[p]) \cup {t}
      /\ \A q \in Procs \ {p} : threads'[q] = threads[q]
      /\ \A q \in Procs : t \notin Elems(threads[q])
  BY <1>1, <1>2, <1>3, <1>4, PushStep
<1>6. TypeOK'
  BY <1>1, <1>2, <1>3, <1>5 DEF TypeOK
<1>7. SlotsAccountedFor'
  BY <1>1, <1>2, <1>3 DEF SlotsAccountedFor, InUse
<1>8. DirsInv'
  BY <1>1, <1>2 DEF DirsInv
<1>9. StacksMapped'
  <2>1. stackSlotIdx'[t] = NoSlot
    BY <1>1, <1>3, <1>2, FreshFacts
  <2>2. \A q \in Procs : \A m \in mapped'[q] : m[2] # 0
    BY <1>1, <1>2 DEF DirsInv
  <2>. QED
    BY <1>1, <1>2, <1>3, <1>4, <1>5, <2>1, <2>2, StacksStayMapped
<1>10. FramesAccountedFor'
  BY <1>1, <1>2 DEF FramesAccountedFor
<1>. QED
  BY <1>5, <1>6, <1>7, <1>8, <1>9, <1>10 DEF IInv

\* A child that exists from now on maps copies of what its parent maps.
LEMMA ChildFacts ==
    ASSUME IInv, NEW p \in procs, NEW q \in Procs \ procs
    PROVE  /\ q # p /\ mapped[p] \in SUBSET SlotPages /\ procs \subseteq Procs
           /\ \A m \in mapped[p] : m[1] < g_nextStackSlotIdx /\ m[2] # 0
           /\ mapped[q] = {} /\ threads[q] = <<>> /\ Elems(threads[q]) = {}
           /\ Cardinality(mapped[p]) \in Nat /\ Cardinality(mapped[q]) = 0
<1>1. /\ q # p /\ mapped[p] \in SUBSET SlotPages /\ procs \subseteq Procs
      /\ \A m \in mapped[p] : m[1] < g_nextStackSlotIdx /\ m[2] # 0
      /\ mapped[q] = {} /\ threads[q] = <<>>
  BY DEF IInv, TypeOK, DirsInv, ListsInv
<1>. QED
  BY <1>1, SomePagesFinite, FS_EmptySet DEF Elems

LEMMA ForkStep ==
    ASSUME IInv, NEW p \in Procs, NEW q \in Procs, NEW t \in Threads, Fork(p, q, t)
    PROVE  IInv'
<1>1. /\ TypeOK /\ SlotsAccountedFor /\ ListsInv /\ DirsInv /\ StacksMapped
      /\ FramesAccountedFor
  BY DEF IInv
<1>2. /\ p \in procs /\ q \in Procs \ procs /\ Fresh(t) /\ procs' = procs \cup {q}
      /\ AllocUserStack(t, q, mapped[p], Cardinality(mapped[p]))
      /\ threads' = [threads EXCEPT ![q] = <<t>>]
  BY DEF Fork
<1>3. /\ mapped[p] \in SUBSET SlotPages /\ procs \subseteq Procs
      /\ \A m \in mapped[p] : m[1] < g_nextStackSlotIdx /\ m[2] # 0
      /\ mapped[q] = {} /\ threads[q] = <<>> /\ Elems(threads[q]) = {}
      /\ Cardinality(mapped[p]) \in Nat /\ Cardinality(mapped[q]) = 0
  BY <1>2, ChildFacts
<1>4. /\ SlotsAccountedFor' /\ FramesAccountedFor'
      /\ g_freeStackOffsets' \in Seq(Slots)
      /\ g_nextStackSlotIdx' \in 0..MaxSlots
      /\ g_nextStackSlotIdx <= g_nextStackSlotIdx'
      /\ stackSlotIdx' \in [Threads -> Slots \cup {NoSlot}]
      /\ \A u \in Threads \ {t} : stackSlotIdx'[u] = stackSlotIdx[u]
      /\ mapped' \in [Procs -> SUBSET SlotPages]
      /\ stack_blocks' \in 0..MaxFrames
      /\ \A r \in Procs \ {q} : mapped'[r] = mapped[r]
      /\ \A m \in mapped'[q] : m[1] < g_nextStackSlotIdx' /\ m[2] # 0
      /\ StackOf(stackSlotIdx'[t]) \subseteq mapped'[q]
  <2>1. Cardinality(mapped[p]) = Cardinality(mapped[p]) - Cardinality(mapped[q])
    BY <1>3
  <2>. QED
    BY <1>1, <1>2, <1>3, <2>1, AllocStep
<1>5. threads' = [threads EXCEPT ![q] = PushBack(@, t)]
  BY <1>2, <1>3 DEF PushBack
<1>6. procs' \in SUBSET Procs /\ procs \subseteq procs' /\ procs' \subseteq procs \cup {q}
  BY <1>2, <1>3
<1>7. /\ ListsInv' /\ threads' \in [Procs -> Seq(Threads)]
      /\ Elems(threads'[q]) = Elems(threads[q]) \cup {t}
      /\ \A r \in Procs \ {q} : threads'[r] = threads[r]
      /\ \A r \in Procs : t \notin Elems(threads[r])
  <2>1. q \in procs'
    BY <1>2
  <2>. QED
    BY <1>1, <1>2, <1>4, <1>5, <1>6, <2>1, PushStep
<1>8. TypeOK'
  BY <1>4, <1>6, <1>7 DEF TypeOK
<1>9. \A r \in Procs : \A m \in mapped'[r] : m[1] < g_nextStackSlotIdx' /\ m[2] # 0
  <2>1. \A r \in Procs : \A m \in mapped[r] : m[1] \in Nat
    BY <1>1 DEF TypeOK, SlotPages, Slots
  <2>2. g_nextStackSlotIdx \in Nat /\ g_nextStackSlotIdx' \in Nat
    BY <1>1, <1>4, StackAssumption DEF TypeOK
  <2>. QED
    BY <1>1, <1>4, <2>1, <2>2 DEF DirsInv
<1>10. DirsInv'
  BY <1>1, <1>2, <1>4, <1>9 DEF DirsInv
<1>11. \A r \in Procs : mapped[r] \subseteq mapped'[r]
  BY <1>3, <1>4
<1>12. StacksMapped'
  BY <1>1, <1>2, <1>3, <1>4, <1>6, <1>7, <1>9, <1>11, StacksStayMapped
<1>. QED
  BY <1>4, <1>7, <1>8, <1>10, <1>12 DEF IInv

LEMMA ForkOnStackStep ==
    ASSUME IInv, NEW p \in Procs, NEW q \in Procs, NEW t \in Threads, ForkOnStack(p, q, t)
    PROVE  IInv'
<1>1. /\ TypeOK /\ SlotsAccountedFor /\ ListsInv /\ DirsInv /\ StacksMapped
      /\ FramesAccountedFor
  BY DEF IInv
<1>2. /\ p \in procs /\ q \in Procs \ procs /\ Fresh(t) /\ procs' = procs \cup {q}
      /\ FramesLeft(0) >= Cardinality(mapped[p])
      /\ mapped' = [mapped EXCEPT ![q] = mapped[p]]
      /\ stack_blocks' = stack_blocks + Cardinality(mapped[p])
      /\ stackSlotIdx' = [stackSlotIdx EXCEPT ![t] = NoSlot]
      /\ threads' = [threads EXCEPT ![q] = <<t>>]
      /\ g_freeStackOffsets' = g_freeStackOffsets
      /\ g_nextStackSlotIdx' = g_nextStackSlotIdx
  BY DEF ForkOnStack, poolVars
<1>3. /\ mapped[p] \in SUBSET SlotPages /\ procs \subseteq Procs
      /\ \A m \in mapped[p] : m[1] < g_nextStackSlotIdx /\ m[2] # 0
      /\ mapped[q] = {} /\ threads[q] = <<>> /\ Elems(threads[q]) = {}
      /\ Cardinality(mapped[p]) \in Nat /\ Cardinality(mapped[q]) = 0
  BY <1>2, ChildFacts
<1>4. stackSlotIdx' = stackSlotIdx
  BY <1>1, <1>2, FreshFacts DEF TypeOK
<1>5. threads' = [threads EXCEPT ![q] = PushBack(@, t)]
  BY <1>2, <1>3 DEF PushBack
<1>6. procs' \in SUBSET Procs /\ procs \subseteq procs' /\ procs' \subseteq procs \cup {q}
  BY <1>2, <1>3
<1>7. /\ ListsInv' /\ threads' \in [Procs -> Seq(Threads)]
      /\ Elems(threads'[q]) = Elems(threads[q]) \cup {t}
      /\ \A r \in Procs \ {q} : threads'[r] = threads[r]
      /\ \A r \in Procs : t \notin Elems(threads[r])
  <2>1. q \in procs'
    BY <1>2
  <2>. QED
    BY <1>1, <1>2, <1>4, <1>5, <1>6, <2>1, PushStep
<1>8. /\ stack_blocks \in Nat /\ MaxFrames \in Nat
      /\ mapped \in [Procs -> SUBSET SlotPages]
  BY <1>1, StackAssumption DEF TypeOK
<1>9. FramesAccountedFor' /\ stack_blocks' \in Nat
  <2>1. stack_blocks' = stack_blocks - Cardinality(mapped[q]) + Cardinality(mapped[p])
    BY <1>2, <1>3, <1>8
  <2>. QED
    BY <1>1, <1>2, <1>3, <2>1, FramesStep
<1>10. stack_blocks' \in 0..MaxFrames
  BY <1>2, <1>3, <1>8, <1>9 DEF FramesLeft
<1>11. /\ mapped' \in [Procs -> SUBSET SlotPages] /\ mapped'[q] = mapped[p]
       /\ \A r \in Procs \ {q} : mapped'[r] = mapped[r]
  BY <1>2, <1>3, <1>8
<1>12. TypeOK'
  BY <1>1, <1>2, <1>4, <1>6, <1>7, <1>10, <1>11 DEF TypeOK
<1>13. SlotsAccountedFor'
  BY <1>1, <1>2, <1>4 DEF SlotsAccountedFor, InUse
<1>14. \A r \in Procs : \A m \in mapped'[r] : m[1] < g_nextStackSlotIdx' /\ m[2] # 0
  BY <1>1, <1>2, <1>3, <1>11 DEF DirsInv
<1>15. DirsInv'
  BY <1>1, <1>2, <1>11, <1>14 DEF DirsInv
<1>16. StacksMapped'
  <2>1. stackSlotIdx'[t] = NoSlot
    BY <1>1, <1>2, <1>4, FreshFacts
  <2>2. \A r \in Procs : mapped[r] \subseteq mapped'[r]
    BY <1>3, <1>11
  <2>. QED
    BY <1>1, <1>2, <1>3, <1>4, <1>6, <1>7, <1>14, <2>1, <2>2, StacksStayMapped
<1>. QED
  BY <1>7, <1>9, <1>12, <1>13, <1>15, <1>16 DEF IInv

\* The copies and the pages mapped so far are freed together.
LEMMA ForkFailsStep ==
    ASSUME IInv, NEW p \in Procs, NEW k \in 1..(StackPages - 1), ForkFails(p, k)
    PROVE  IInv'
<1>. DEFINE dir == mapped[p]
            s == ClaimedSlot(dir)
<1>1. /\ TypeOK /\ SlotsAccountedFor /\ ListsInv /\ DirsInv /\ StacksMapped
      /\ FramesAccountedFor
  BY DEF IInv
<1>2. /\ CanClaim(dir) /\ RecycleSlot(dir)
      /\ g_nextStackSlotIdx' = NextAfterClaim(dir)
      /\ stack_blocks' = stack_blocks + Cardinality(dir) + (k - 1)
                           - Cardinality(MappedBelow(dir, s, k))
      /\ mapped' = mapped /\ procs' = procs /\ threads' = threads
      /\ stackSlotIdx' = stackSlotIdx
  BY DEF ForkFails, AllocUserStackFails, procVars
<1>3. dir \in SUBSET SlotPages /\ \A m \in dir : m[1] < g_nextStackSlotIdx
  BY <1>1 DEF TypeOK, DirsInv
<1>4. s \in Slots /\ PagesOf(s, 0, StackPages - 1) \cap dir = {}
  BY <1>1, <1>2, <1>3, ClaimFacts
<1>5. /\ SlotsAccountedFor'
      /\ g_freeStackOffsets' \in Seq(Slots) /\ g_nextStackSlotIdx' \in 0..MaxSlots
      /\ g_nextStackSlotIdx <= g_nextStackSlotIdx'
  BY <1>1, <1>2, <1>3, RecycleAccounted
<1>6. k - 1 \in 0..(StackPages - 1) /\ k - 1 \in Nat
  BY StackAssumption
<1>7. Cardinality(MappedBelow(dir, s, k)) = Cardinality(dir) + (k - 1)
  BY <1>3, <1>4, <1>6, AddPages DEF MappedBelow
<1>8. stack_blocks' = stack_blocks
  <2>1. stack_blocks \in Nat /\ Cardinality(dir) \in Nat
    BY <1>1, <1>3, SomePagesFinite DEF TypeOK
  <2>. QED
    BY <1>2, <1>6, <1>7, <2>1
<1>9. TypeOK'
  BY <1>1, <1>2, <1>5, <1>8 DEF TypeOK
<1>10. DirsInv'
  <2>1. \A q \in Procs : \A m \in mapped[q] : m[1] \in Nat
    BY <1>1 DEF TypeOK, SlotPages, Slots
  <2>2. g_nextStackSlotIdx \in Nat /\ g_nextStackSlotIdx' \in Nat
    BY <1>1, <1>5, StackAssumption DEF TypeOK
  <2>. QED
    BY <1>1, <1>2, <1>5, <2>1, <2>2 DEF DirsInv
<1>11. ListsInv'
  BY <1>1, <1>2 DEF ListsInv
<1>12. StacksMapped'
  BY <1>1, <1>2 DEF StacksMapped
<1>13. FramesAccountedFor'
  BY <1>1, <1>2, <1>8 DEF FramesAccountedFor
<1>. QED
  BY <1>5, <1>9, <1>10, <1>11, <1>12, <1>13 DEF IInv

\* The slots a list of threads gives back: each slot of theirs, once.
LEMMA SlotsOfFacts ==
    ASSUME TypeOK, SlotsAccountedFor, NEW q \in Seq(Threads), NoRepeat(q)
    PROVE  /\ SlotsOf(q) \in Seq(Slots) /\ NoRepeat(SlotsOf(q))
           /\ Elems(SlotsOf(q)) = {stackSlotIdx[t] : t \in Elems(q)} \ {NoSlot}
<1>. DEFINE P == {i \in DOMAIN q : stackSlotIdx[q[i]] # NoSlot}
            w == SubSeqAt(q, P)
            n == Len(w)
            r == SlotsOf(q)
<1>1. /\ w \in Seq(Threads) /\ NoRepeat(w)
      /\ Elems(w) = {q[i] : i \in DOMAIN q \cap P}
  BY SubSeqAtFacts
<1>2. \A i \in DOMAIN q : q[i] \in Threads
  OBVIOUS
<1>3. \A t : t \in Elems(w) <=> t \in Elems(q) /\ stackSlotIdx[t] # NoSlot
  BY <1>1 DEF Elems
<1>4. r = [i \in 1..n |-> stackSlotIdx[w[n + 1 - i]]]
  BY DEF SlotsOf
<1>. HIDE DEF P, w, r
<1>5. n \in Nat /\ DOMAIN w = 1..n /\ \A i \in 1..n : n + 1 - i \in 1..n
  BY <1>1
<1>6. \A i \in 1..n : w[i] \in Threads /\ w[i] \in Elems(w)
  BY <1>1, <1>5 DEF Elems
<1>7. \A t \in Threads : stackSlotIdx[t] # NoSlot => stackSlotIdx[t] \in Slots
  BY DEF TypeOK
<1>8. \A i \in 1..n : stackSlotIdx[w[n + 1 - i]] \in Slots
  BY <1>3, <1>5, <1>6, <1>7
<1>9. r \in Seq(Slots) /\ DOMAIN r = 1..n
  BY <1>4, <1>5, <1>8
<1>10. NoRepeat(r)
  <2>1. SUFFICES ASSUME NEW i \in 1..n, NEW j \in 1..n, r[i] = r[j]
                 PROVE  i = j
    BY <1>9 DEF NoRepeat
  <2>2. w[n + 1 - i] = w[n + 1 - j]
    <3>1. stackSlotIdx[w[n + 1 - i]] = stackSlotIdx[w[n + 1 - j]]
      BY <1>4, <2>1
    <3>. QED
      BY <1>3, <1>5, <1>6, <3>1 DEF SlotsAccountedFor
  <2>3. n + 1 - i = n + 1 - j
    BY <1>1, <1>5, <2>2 DEF NoRepeat
  <2>. QED
    BY <1>5, <2>3
<1>11. ASSUME NEW x \in Elems(r)
       PROVE  x \in {stackSlotIdx[t] : t \in Elems(q)} \ {NoSlot}
  <2>1. PICK i \in 1..n : x = stackSlotIdx[w[n + 1 - i]]
    BY <1>4, <1>9 DEF Elems
  <2>2. w[n + 1 - i] \in Elems(w)
    BY <1>5, <1>6
  <2>. QED
    BY <1>3, <2>1, <2>2
<1>12. ASSUME NEW t \in Elems(q), stackSlotIdx[t] # NoSlot
       PROVE  stackSlotIdx[t] \in Elems(r)
  <2>1. PICK i \in 1..n : w[i] = t
    BY <1>3, <1>5, <1>12 DEF Elems
  <2>2. n + 1 - i \in 1..n /\ n + 1 - (n + 1 - i) = i
    BY <1>5
  <2>3. r[n + 1 - i] = stackSlotIdx[t]
    BY <1>4, <2>1, <2>2
  <2>. QED
    BY <1>9, <2>2, <2>3 DEF Elems
<1>13. Elems(r) = {stackSlotIdx[t] : t \in Elems(q)} \ {NoSlot}
  BY <1>11, <1>12
<1>. QED
  BY <1>9, <1>10, <1>13 DEF r

\* The thread's pages go and no other thread's do: another thread of the process has
\* another slot.
LEMMA TerminateThreadStep ==
    ASSUME IInv, NEW p \in Procs, NEW t \in Threads, TerminateThread(p, t)
    PROVE  IInv'
<1>. DEFINE s == stackSlotIdx[t]
            freed == IF s = NoSlot THEN {} ELSE FreeUserStackSlot(mapped[p], s)
            kept == mapped[p] \ freed
<1>1. /\ TypeOK /\ SlotsAccountedFor /\ ListsInv /\ DirsInv /\ StacksMapped
      /\ FramesAccountedFor
  BY DEF IInv
<1>2. /\ p \in procs /\ t \in Elems(threads[p])
      /\ g_freeStackOffsets' =
            IF s = NoSlot THEN g_freeStackOffsets ELSE Add(g_freeStackOffsets, s)
      /\ stackSlotIdx' = [stackSlotIdx EXCEPT ![t] = NoSlot]
      /\ mapped' = [mapped EXCEPT ![p] = kept]
      /\ stack_blocks' = stack_blocks - Cardinality(freed)
      /\ threads' = [threads EXCEPT ![p] = RemoveFirsts(@, {t})]
      /\ g_nextStackSlotIdx' = g_nextStackSlotIdx /\ procs' = procs
  BY DEF TerminateThread
<1>3. /\ stackSlotIdx \in [Threads -> Slots \cup {NoSlot}] /\ s \in Slots \cup {NoSlot}
      /\ stackSlotIdx' \in [Threads -> Slots \cup {NoSlot}] /\ stackSlotIdx'[t] = NoSlot
      /\ \A u \in Threads \ {t} : stackSlotIdx'[u] = stackSlotIdx[u]
  BY <1>1, <1>2 DEF TypeOK
<1>4. /\ g_freeStackOffsets \in Seq(Slots) /\ mapped \in [Procs -> SUBSET SlotPages]
      /\ threads \in [Procs -> Seq(Threads)] /\ mapped[p] \in SUBSET SlotPages
      /\ threads[p] \in Seq(Threads) /\ procs \subseteq Procs
      /\ stack_blocks \in Nat /\ stack_blocks <= MaxFrames /\ MaxFrames \in Nat
  BY <1>1, StackAssumption DEF TypeOK
<1>5. freed \subseteq mapped[p] /\ freed = mapped[p] \cap freed
  BY DEF FreeUserStackSlot
<1>6. SlotsAccountedFor' /\ g_freeStackOffsets' \in Seq(Slots)
  <2>1. \A u, v \in Threads :
           stackSlotIdx'[u] = stackSlotIdx'[v] /\ stackSlotIdx'[u] # NoSlot => u = v
    BY <1>1, <1>3 DEF SlotsAccountedFor
  <2>2. CASE s = NoSlot
    <3>1. stackSlotIdx' = stackSlotIdx /\ g_freeStackOffsets' = g_freeStackOffsets
      BY <1>2, <1>3, <2>2
    <3>2. InUse' = InUse
      BY <3>1 DEF InUse
    <3>3. g_nextStackSlotIdx' = g_nextStackSlotIdx
      BY <1>2
    <3>4. SlotsAccountedFor'
      BY <1>1, <3>1, <3>2, <3>3 DEF SlotsAccountedFor
    <3>. QED
      BY <1>4, <3>1, <3>4
  <2>3. CASE s # NoSlot
    <3>1. s \in Slots /\ s \in InUse
      BY <1>3, <2>3 DEF InUse
    <3>2. s \notin Elems(g_freeStackOffsets)
      BY <1>1, <3>1 DEF SlotsAccountedFor
    <3>3. InUse' = InUse \ {s}
      <4>1. \A u \in Threads \ {t} : stackSlotIdx[u] # s
        BY <1>1, <2>3 DEF SlotsAccountedFor
      <4>. QED
        BY <1>3, <2>3, <4>1 DEF InUse
    <3>4. g_freeStackOffsets' = Add(g_freeStackOffsets, s)
      BY <1>2, <2>3
    <3>5. /\ g_freeStackOffsets' \in Seq(Slots) /\ NoRepeat(g_freeStackOffsets')
          /\ Elems(g_freeStackOffsets') = {s} \cup Elems(g_freeStackOffsets)
      BY <1>1, <1>4, <3>1, <3>2, <3>4, AddFacts DEF SlotsAccountedFor
    <3>6. /\ Elems(g_freeStackOffsets') \cap InUse' = {}
          /\ Elems(g_freeStackOffsets') \cup InUse' = 0..(g_nextStackSlotIdx' - 1)
      BY <1>1, <1>2, <3>1, <3>3, <3>5 DEF SlotsAccountedFor
    <3>. QED
      BY <2>1, <3>5, <3>6 DEF SlotsAccountedFor
  <2>. QED
    BY <2>2, <2>3
<1>7. /\ threads'[p] \in Seq(Threads) /\ NoRepeat(threads'[p])
      /\ Elems(threads'[p]) = Elems(threads[p]) \ {t}
      /\ \A q \in Procs \ {p} : threads'[q] = threads[q]
      /\ threads' \in [Procs -> Seq(Threads)]
  <2>1. /\ RemoveFirsts(threads[p], {t}) \in Seq(Threads)
        /\ NoRepeat(RemoveFirsts(threads[p], {t}))
        /\ Elems(RemoveFirsts(threads[p], {t})) = Elems(threads[p]) \ {t}
    BY <1>1, <1>4, RemoveFirstsFacts DEF ListsInv
  <2>. QED
    BY <1>2, <1>4, <2>1
<1>8. ListsInv'
  <2>1. \A q \in Procs : NoRepeat(threads'[q])
    BY <1>1, <1>7 DEF ListsInv
  <2>2. \A q \in Procs : Elems(threads'[q]) \subseteq Elems(threads[q])
    BY <1>7
  <2>3. \A q, r \in Procs : q # r => Elems(threads'[q]) \cap Elems(threads'[r]) = {}
    BY <1>1, <2>2 DEF ListsInv
  <2>4. \A q \in Procs \ procs' : threads'[q] = <<>>
    BY <1>1, <1>2, <1>7 DEF ListsInv
  <2>5. ASSUME NEW u \in Threads, stackSlotIdx'[u] # NoSlot
        PROVE  \E q \in procs' : u \in Elems(threads'[q])
    <3>1. u # t /\ stackSlotIdx[u] # NoSlot
      BY <1>3, <2>5
    <3>2. PICK q \in procs : u \in Elems(threads[q])
      BY <1>1, <3>1 DEF ListsInv
    <3>. QED
      BY <1>2, <1>4, <1>7, <3>1, <3>2
  <2>. QED
    BY <2>1, <2>3, <2>4, <2>5 DEF ListsInv
<1>9. /\ kept \in SUBSET SlotPages
      /\ Cardinality(kept) = Cardinality(mapped[p]) - Cardinality(freed)
      /\ Cardinality(mapped[p]) \in Nat /\ Cardinality(freed) \in Nat
  BY <1>4, <1>5, RemovePages
<1>10. /\ mapped' \in [Procs -> SUBSET SlotPages] /\ mapped'[p] = kept
       /\ \A q \in Procs \ {p} : mapped'[q] = mapped[q]
  BY <1>2, <1>4, <1>9
<1>. HIDE DEF freed, kept
<1>11. FramesAccountedFor' /\ stack_blocks' \in Nat
  <2>1. stack_blocks' = stack_blocks - Cardinality(mapped[p]) + Cardinality(kept)
    BY <1>2, <1>4, <1>9
  <2>. QED
    BY <1>1, <1>2, <1>9, <2>1, FramesStep
<1>12. stack_blocks' \in 0..MaxFrames
  BY <1>2, <1>4, <1>9, <1>11
<1>13. TypeOK'
  BY <1>1, <1>2, <1>3, <1>4, <1>6, <1>7, <1>10, <1>12 DEF TypeOK
<1>14. \A q \in Procs : mapped'[q] \subseteq mapped[q]
  BY <1>10 DEF kept
<1>15. DirsInv'
  BY <1>1, <1>2, <1>10, <1>14 DEF DirsInv
<1>16. StacksMapped'
  <2>. SUFFICES ASSUME NEW q \in procs', NEW u \in Elems(threads'[q]),
                       stackSlotIdx'[u] # NoSlot
                PROVE  /\ StackOf(stackSlotIdx'[u]) \subseteq mapped'[q]
                       /\ <<stackSlotIdx'[u], 0>> \notin mapped'[q]
    BY DEF StacksMapped, StackOf, PagesOf
  <2>1. q \in procs /\ q \in Procs /\ u \in Elems(threads[q])
    BY <1>2, <1>4, <1>7
  <2>2. u \in Threads /\ u # t
    BY <1>3, <1>4, <2>1 DEF Elems
  <2>3. stackSlotIdx'[u] = stackSlotIdx[u]
    BY <1>3, <2>2
  <2>4. StackOf(stackSlotIdx[u]) \subseteq mapped[q] /\ <<stackSlotIdx[u], 0>> \notin mapped[q]
    BY <1>1, <2>1, <2>3 DEF StacksMapped
  <2>5. StackOf(stackSlotIdx[u]) \cap freed = {}
    <3>1. s # NoSlot => stackSlotIdx[u] # s
      BY <1>1, <2>2, <2>3 DEF SlotsAccountedFor
    <3>2. CASE s = NoSlot
      BY <3>2 DEF freed
    <3>3. CASE s # NoSlot
      <4>1. freed \subseteq StackOf(s)
        BY <3>3 DEF freed, FreeUserStackSlot
      <4>2. \A m \in StackOf(s) : m[1] = s
        BY DEF StackOf, PagesOf
      <4>3. \A m \in StackOf(stackSlotIdx[u]) : m[1] = stackSlotIdx[u]
        BY DEF StackOf, PagesOf
      <4>. QED
        BY <3>1, <3>3, <4>1, <4>2, <4>3
    <3>. QED
      BY <3>2, <3>3
  <2>6. StackOf(stackSlotIdx[u]) \subseteq mapped'[q]
    BY <1>10, <2>1, <2>4, <2>5 DEF kept
  <2>. QED
    BY <1>14, <2>1, <2>3, <2>4, <2>6
<1>. QED
  BY <1>6, <1>8, <1>11, <1>13, <1>15, <1>16 DEF IInv

\* The whole list gives its slots back, and the sweep frees what the threads' own
\* stacks leave: every page of the directory, once.
LEMMA KillProcessStep ==
    ASSUME IInv, NEW p \in Procs, KillProcess(p)
    PROVE  IInv'
<1>. DEFINE mine == Elems(threads[p])
            gone == {stackSlotIdx[t] : t \in mine} \ {NoSlot}
            stacks == UNION {StackOf(stackSlotIdx[t]) : t \in mine}
            freed == mapped[p] \cap stacks
            swept == mapped[p] \ freed
<1>1. /\ TypeOK /\ SlotsAccountedFor /\ ListsInv /\ DirsInv /\ StacksMapped
      /\ FramesAccountedFor
  BY DEF IInv
<1>2. /\ p \in procs
      /\ g_freeStackOffsets' = SlotsOf(threads[p]) \o g_freeStackOffsets
      /\ stackSlotIdx' = [t \in Threads |-> IF t \in mine THEN NoSlot ELSE stackSlotIdx[t]]
      /\ stack_blocks' = stack_blocks - Cardinality(freed) - Cardinality(swept)
      /\ mapped' = [mapped EXCEPT ![p] = {}]
      /\ threads' = [threads EXCEPT ![p] = <<>>]
      /\ procs' = procs \ {p} /\ g_nextStackSlotIdx' = g_nextStackSlotIdx
  BY DEF KillProcess
<1>3. /\ g_freeStackOffsets \in Seq(Slots) /\ mapped \in [Procs -> SUBSET SlotPages]
      /\ threads \in [Procs -> Seq(Threads)] /\ mapped[p] \in SUBSET SlotPages
      /\ threads[p] \in Seq(Threads) /\ procs \subseteq Procs
      /\ stackSlotIdx \in [Threads -> Slots \cup {NoSlot}]
      /\ stack_blocks \in Nat /\ stack_blocks <= MaxFrames /\ MaxFrames \in Nat
  BY <1>1, StackAssumption DEF TypeOK
<1>4. /\ SlotsOf(threads[p]) \in Seq(Slots) /\ NoRepeat(SlotsOf(threads[p]))
      /\ Elems(SlotsOf(threads[p])) = gone
  <2>1. NoRepeat(threads[p])
    BY <1>1 DEF ListsInv
  <2>. QED
    BY <1>1, <1>3, <2>1, SlotsOfFacts
<1>5. mine \subseteq Threads
  BY <1>3 DEF Elems
<1>6. /\ \A t \in mine : stackSlotIdx'[t] = NoSlot
      /\ \A t \in Threads \ mine : stackSlotIdx'[t] = stackSlotIdx[t]
      /\ stackSlotIdx' \in [Threads -> Slots \cup {NoSlot}]
  BY <1>2, <1>3, <1>5
<1>. HIDE DEF mine
<1>7. InUse' = InUse \ gone
  <2>1. ASSUME NEW x \in InUse'
        PROVE  x \in InUse \ gone
    <3>1. PICK t \in Threads : x = stackSlotIdx'[t] /\ x # NoSlot
      BY <2>1 DEF InUse
    <3>2. t \notin mine /\ x = stackSlotIdx[t]
      BY <1>6, <3>1
    <3>3. \A u \in mine : stackSlotIdx[u] # x
      BY <1>1, <1>5, <3>1, <3>2 DEF SlotsAccountedFor
    <3>. QED
      BY <3>1, <3>2, <3>3 DEF InUse
  <2>2. ASSUME NEW x \in InUse \ gone
        PROVE  x \in InUse'
    <3>1. PICK t \in Threads : x = stackSlotIdx[t] /\ x # NoSlot
      BY <2>2 DEF InUse
    <3>2. t \notin mine
      BY <2>2, <3>1
    <3>. QED
      BY <1>6, <3>1, <3>2 DEF InUse
  <2>. QED
    BY <2>1, <2>2
<1>8. gone \subseteq InUse
  BY <1>5 DEF InUse
<1>9. SlotsAccountedFor' /\ g_freeStackOffsets' \in Seq(Slots)
  <2>1. \A u, v \in Threads :
           stackSlotIdx'[u] = stackSlotIdx'[v] /\ stackSlotIdx'[u] # NoSlot => u = v
    BY <1>1, <1>6 DEF SlotsAccountedFor
  <2>2. /\ NoRepeat(g_freeStackOffsets) /\ Elems(g_freeStackOffsets) \cap InUse = {}
        /\ Elems(g_freeStackOffsets) \cup InUse = 0..(g_nextStackSlotIdx - 1)
    BY <1>1 DEF SlotsAccountedFor
  <2>. HIDE DEF gone
  <2>3. /\ g_freeStackOffsets' \in Seq(Slots) /\ NoRepeat(g_freeStackOffsets')
        /\ Elems(g_freeStackOffsets') = gone \cup Elems(g_freeStackOffsets)
    <3>1. Elems(SlotsOf(threads[p])) \cap Elems(g_freeStackOffsets) = {}
      BY <1>4, <1>8, <2>2
    <3>2. /\ g_freeStackOffsets' \in Seq(Slots)
          /\ Elems(g_freeStackOffsets') = Elems(SlotsOf(threads[p])) \cup Elems(g_freeStackOffsets)
          /\ NoRepeat(g_freeStackOffsets')
      BY <1>2, <1>3, <1>4, <2>2, <3>1, ConcatFacts
    <3>. QED
      BY <1>4, <3>2
  <2>4. /\ Elems(g_freeStackOffsets') \cap InUse' = {}
        /\ Elems(g_freeStackOffsets') \cup InUse' = 0..(g_nextStackSlotIdx - 1)
    BY <1>7, <1>8, <2>2, <2>3
  <2>. QED
    BY <1>2, <2>1, <2>3, <2>4 DEF SlotsAccountedFor
<1>10. /\ threads' \in [Procs -> Seq(Threads)] /\ threads'[p] = <<>>
       /\ \A q \in Procs \ {p} : threads'[q] = threads[q]
       /\ mapped' \in [Procs -> SUBSET SlotPages] /\ mapped'[p] = {}
       /\ \A q \in Procs \ {p} : mapped'[q] = mapped[q]
  BY <1>2, <1>3
<1>11. ListsInv'
  <2>1. Elems(threads'[p]) = {} /\ NoRepeat(threads'[p])
    BY <1>10 DEF Elems, NoRepeat
  <2>2. \A q \in Procs : NoRepeat(threads'[q])
    BY <1>1, <1>10, <2>1 DEF ListsInv
  <2>3. \A q, r \in Procs : q # r => Elems(threads'[q]) \cap Elems(threads'[r]) = {}
    BY <1>1, <1>10, <2>1 DEF ListsInv
  <2>4. \A q \in Procs \ procs' : threads'[q] = <<>>
    BY <1>1, <1>2, <1>10 DEF ListsInv
  <2>5. ASSUME NEW u \in Threads, stackSlotIdx'[u] # NoSlot
        PROVE  \E q \in procs' : u \in Elems(threads'[q])
    <3>1. u \notin mine /\ stackSlotIdx[u] # NoSlot
      BY <1>6, <2>5
    <3>2. PICK q \in procs : u \in Elems(threads[q])
      BY <1>1, <3>1 DEF ListsInv
    <3>3. q # p
      BY <3>1, <3>2 DEF mine
    <3>. QED
      BY <1>2, <1>3, <1>10, <3>2, <3>3
  <2>. QED
    BY <2>2, <2>3, <2>4, <2>5 DEF ListsInv
<1>12. FramesAccountedFor' /\ stack_blocks' \in 0..MaxFrames
  <2>1. /\ swept = mapped[p] \ stacks
        /\ Cardinality(mapped[p] \ stacks) = Cardinality(mapped[p]) - Cardinality(freed)
        /\ Cardinality(mapped[p]) \in Nat /\ Cardinality(freed) \in Nat
    BY <1>3, RemovePages
  <2>2. Cardinality({}) = 0 /\ {} \in SUBSET SlotPages
    BY FS_EmptySet
  <2>. HIDE DEF freed, swept, stacks
  <2>3. /\ stack_blocks' = stack_blocks - Cardinality(mapped[p]) + Cardinality({})
        /\ stack_blocks' <= stack_blocks
    BY <1>2, <1>3, <2>1, <2>2
  <2>4. FramesAccountedFor' /\ stack_blocks' \in Nat
    BY <1>1, <1>2, <2>2, <2>3, FramesStep
  <2>. QED
    BY <1>3, <2>3, <2>4
<1>13. TypeOK'
  BY <1>1, <1>2, <1>3, <1>6, <1>9, <1>10, <1>12 DEF TypeOK
<1>14. DirsInv'
  BY <1>1, <1>2, <1>10 DEF DirsInv
<1>15. StacksMapped'
  <2>. SUFFICES ASSUME NEW q \in procs', NEW u \in Elems(threads'[q]),
                       stackSlotIdx'[u] # NoSlot
                PROVE  /\ StackOf(stackSlotIdx'[u]) \subseteq mapped'[q]
                       /\ <<stackSlotIdx'[u], 0>> \notin mapped'[q]
    BY DEF StacksMapped, StackOf, PagesOf
  <2>1. q \in procs /\ q \in Procs \ {p} /\ u \in Elems(threads[q])
    BY <1>2, <1>3, <1>10
  <2>2. u \in Threads
    BY <1>3, <2>1 DEF Elems
  <2>3. u \notin mine
    BY <1>1, <1>3, <1>2, <2>1 DEF ListsInv, mine
  <2>4. stackSlotIdx'[u] = stackSlotIdx[u] /\ mapped'[q] = mapped[q]
    BY <1>6, <1>10, <2>1, <2>2, <2>3
  <2>. QED
    BY <1>1, <2>1, <2>4 DEF StacksMapped
<1>. QED
  BY <1>9, <1>11, <1>12, <1>13, <1>14, <1>15 DEF IInv

------------------------------------------------------------------------------
(* The theorems.                                                             *)

LEMMA IInvStep == IInv /\ [Next]_vars => IInv'
<1>. SUFFICES ASSUME IInv, [Next]_vars PROVE IInv'
  OBVIOUS
<1>1. CASE Next
  BY <1>1, CreateProcessStep, CreateThreadStep, CreateThreadFailsStep, CloneOnStackStep,
     ForkStep, ForkOnStackStep, ForkFailsStep, TerminateThreadStep, KillProcessStep DEF Next
<1>2. CASE UNCHANGED vars
  <2>1. /\ g_freeStackOffsets' = g_freeStackOffsets /\ g_nextStackSlotIdx' = g_nextStackSlotIdx
        /\ procs' = procs /\ threads' = threads /\ stackSlotIdx' = stackSlotIdx
        /\ mapped' = mapped /\ stack_blocks' = stack_blocks
    BY <1>2 DEF vars, poolVars, procVars
  <2>2. TypeOK' /\ ListsInv' /\ DirsInv' /\ StacksMapped' /\ FramesAccountedFor'
    BY <2>1 DEF IInv, TypeOK, ListsInv, DirsInv, StacksMapped, FramesAccountedFor
  <2>3. SlotsAccountedFor'
    BY <2>1 DEF IInv, SlotsAccountedFor, InUse
  <2>. QED
    BY <2>2, <2>3 DEF IInv
<1>. QED
  BY <1>1, <1>2

\* AllocUserStack(), TerminateThread(), CloneCurrentProcess() and KillProcess()
\* (scheduler.cpp) keep every stack slot in the pool, once, or with one thread; keep
\* every thread's stack mapped below its unmapped guard page; and hold one frame for
\* each page mapped, over every order of creations, forks, failures, exits and kills.
THEOREM StacksAreSound == Spec => []UserStacksSound
<1>1. IInv => UserStacksSound
  BY DEF IInv, UserStacksSound, SlotsSound, MappingsSound
<1>. QED
  BY InitIInv, IInvStep, <1>1, PTL DEF Spec

(***************************************************************************)
(* Page frames and address spaces.                                         *)
(***************************************************************************)

\* The numbers the bitmap has bits for.
Blocks == 0 .. MaxBlocks - 1

Space == [map : SUBSET Blocks, count : Nat, dir : Blocks, tab : [Tables -> Blocks],
          pte : [Pages -> Blocks], ok : BOOLEAN, done : SUBSET Pages]

\* The frames an address space holds.
Mine(m) ==
    {f \in Blocks \ {Null, Trampoline} :
        \/ f = m.dir
        \/ \E t \in Tables : f = m.tab[t]
        \/ \E v \in Pages : f = m.pte[v]}

\* No frame has two places in the address space.
Distinct(m) ==
    /\ m.dir # Null => m.dir # Trampoline
    /\ \A t \in Tables : m.tab[t] # Null => m.tab[t] # Trampoline /\ m.tab[t] # m.dir
    /\ \A t, u \in Tables : t # u /\ m.tab[t] # Null => m.tab[t] # m.tab[u]
    /\ \A v \in Pages : m.pte[v] \notin {Null, Trampoline} =>
          m.pte[v] # m.dir /\ \A t \in Tables : m.pte[v] # m.tab[t]
    /\ \A v, w \in Pages : v # w /\ m.pte[v] \notin {Null, Trampoline} => m.pte[v] # m.pte[w]

\* The bits set are those of R, which the call does not own, and those of the
\* address space; the counter is their number.
Good(m, R) ==
    /\ m \in Space /\ Kernel \subseteq R
    /\ m.map = R \cup Mine(m) /\ R \cap Mine(m) = {}
    /\ m.count = Cardinality(m.map)
    /\ Distinct(m)

LEMMA BlockFacts ==
    /\ MaxBlocks \in Nat \ {0} /\ Null \in Blocks /\ Trampoline \in Blocks
    /\ Kernel \subseteq Blocks /\ Null \in Kernel /\ Trampoline \in Kernel
    /\ Frames \cup {Null} = Blocks
    /\ \A S \in SUBSET Blocks : IsFiniteSet(S) /\ Cardinality(S) \in Nat
<1>1. MaxBlocks \in Nat \ {0} /\ Null \in Blocks
  BY MemoryAssumption DEF Blocks, Null
<1>2. Frames \cup {Null} = Blocks
  BY <1>1 DEF Frames, Blocks, Null
<1>3. IsFiniteSet(Blocks)
  BY <1>1, FS_Interval DEF Blocks
<1>4. \A S \in SUBSET Blocks : IsFiniteSet(S) /\ Cardinality(S) \in Nat
  BY <1>3, FS_Subset, FS_CardinalityType
<1>. QED
  BY <1>1, <1>2, <1>4, MemoryAssumption DEF Blocks

LEMMA MinFacts ==
    ASSUME NEW S, S \subseteq Nat, S # {}
    PROVE  Min(S) \in S
<1>1. \E x \in S : \A y \in S : x <= y
  BY LeastNat
<1>. QED
  BY <1>1 DEF Min

\* The search finds a frame whose bit is clear, or none.
LEMMA FirstFreeFacts ==
    ASSUME NEW m
    PROVE  FirstFree(m) \in Blocks /\ (FirstFree(m) # Null => FirstFree(m) \notin m.map)
<1>. DEFINE free == {f \in 0 .. LowLimit - 1 : f \notin m.map}
<1>1. free \subseteq Nat /\ free \subseteq Blocks
  BY MemoryAssumption DEF Blocks
<1>2. free # {} => Min(free) \in free
  BY <1>1, MinFacts
<1>3. FirstFree(m) = Null \/ (free # {} /\ FirstFree(m) = Min(free))
  BY DEF FirstFree
<1>. QED
  BY <1>1, <1>2, <1>3, BlockFacts

\* Counting a frame more or less.
LEMMA CountOne ==
    ASSUME NEW S \in SUBSET Blocks, NEW f \in Blocks
    PROVE  /\ f \notin S => Cardinality(S \cup {f}) = Cardinality(S) + 1
           /\ f \in S => Cardinality(S \ {f}) = Cardinality(S) - 1
<1>1. IsFiniteSet(S)
  BY BlockFacts
<1>. QED
  BY <1>1, FS_AddElement, FS_RemoveElement

LEMMA CountLess ==
    ASSUME NEW S \in SUBSET Blocks, NEW F \in SUBSET S
    PROVE  Cardinality(S \ F) = Cardinality(S) - Cardinality(F)
<1>1. IsFiniteSet(S) /\ IsFiniteSet(F) /\ Cardinality(F) \in Nat /\ Cardinality(S) \in Nat
  BY BlockFacts
<1>2. Cardinality(S \ F) = Cardinality(S) - Cardinality(S \cap F)
  BY <1>1, FS_Difference
<1>3. S \cap F = F
  OBVIOUS
<1>. QED
  BY <1>2, <1>3

\* A taken frame belongs to nobody yet.
LEMMA TakeGood ==
    ASSUME NEW m, NEW R, Good(m, R), NEW f \in Blocks \ m.map
    PROVE  /\ Good(Take(m, f), R \cup {f}) /\ f \notin R
           /\ Take(m, f).pte = m.pte /\ Take(m, f).tab = m.tab /\ Take(m, f).dir = m.dir
           /\ Take(m, f).ok = m.ok /\ Take(m, f).done = m.done
<1>1. PICK n : n = Take(m, f)
  OBVIOUS
<1>2. m \in Space
  BY DEF Good
<1>3. /\ n.map = m.map \cup {f} /\ n.count = m.count + 1 /\ n.dir = m.dir /\ n.tab = m.tab
      /\ n.pte = m.pte /\ n.ok = m.ok /\ n.done = m.done /\ n \in Space
  <2>1. /\ m.map \cup {f} \in SUBSET Blocks /\ m.count + 1 \in Nat
    BY <1>2 DEF Space
  <2>2. n = [m EXCEPT !.map = m.map \cup {f}, !.count = m.count + 1]
    BY <1>1 DEF Take
  <2>3. n \in Space
    BY <1>2, <2>1, <2>2 DEF Space
  <2>4. /\ n.map = m.map \cup {f} /\ n.count = m.count + 1 /\ n.dir = m.dir /\ n.tab = m.tab
        /\ n.pte = m.pte /\ n.ok = m.ok /\ n.done = m.done
    BY <1>2, <2>2 DEF Space
  <2>. QED
    BY <2>3, <2>4
<1>4. Mine(n) = Mine(m)
  BY <1>3 DEF Mine
<1>5. Distinct(n)
  BY <1>3 DEF Distinct, Good
<1>6. n.count = Cardinality(n.map)
  <2>1. m.map \in SUBSET Blocks /\ m.count = Cardinality(m.map)
    BY <1>2 DEF Good, Space
  <2>. QED
    BY <1>3, <2>1, CountOne
<1>7. f \notin R /\ f \notin Mine(m)
  BY DEF Good
<1>8. Good(n, R \cup {f})
  BY <1>3, <1>4, <1>5, <1>6, <1>7 DEF Good
<1>. QED
  BY <1>1, <1>3, <1>7, <1>8

\* A result or a memory of the pages done does not concern the frames.
LEMMA MarkGood ==
    ASSUME NEW m, NEW R, Good(m, R), NEW n \in Space,
           n.map = m.map, n.count = m.count, n.dir = m.dir, n.tab = m.tab, n.pte = m.pte
    PROVE  Good(n, R) /\ Mine(n) = Mine(m)
<1>1. Mine(n) = Mine(m)
  BY DEF Mine
<1>2. Distinct(n)
  BY DEF Distinct, Good
<1>. QED
  BY <1>1, <1>2 DEF Good

\* n is m with f as the table k, and with f as the page k.
WithTable(m, n, k, f) ==
    /\ n \in Space /\ n.map = m.map /\ n.count = m.count /\ n.dir = m.dir /\ n.pte = m.pte
    /\ n.ok = m.ok /\ n.done = m.done
    /\ n.tab[k] = f /\ \A t \in Tables \ {k} : n.tab[t] = m.tab[t]
WithPage(m, n, k, f) ==
    /\ n \in Space /\ n.map = m.map /\ n.count = m.count /\ n.dir = m.dir /\ n.tab = m.tab
    /\ n.ok = m.ok /\ n.done = m.done
    /\ n.pte[k] = f /\ \A v \in Pages \ {k} : n.pte[v] = m.pte[v]

\* A frame taken becomes a page table.
LEMMA TableGood ==
    ASSUME NEW m, NEW R, NEW f \in Blocks, f \notin R, Kernel \subseteq R, Good(m, R \cup {f}),
           NEW k \in Tables, m.tab[k] = Null, NEW n, WithTable(m, n, k, f)
    PROVE  Good(n, R)
<1>0. /\ n \in Space /\ n.map = m.map /\ n.count = m.count /\ n.dir = m.dir /\ n.pte = m.pte
      /\ n.tab[k] = f /\ \A t \in Tables \ {k} : n.tab[t] = m.tab[t]
  BY DEF WithTable
<1>1. f \notin Mine(m) /\ f # Null /\ f # Trampoline
  BY BlockFacts DEF Good
<1>2. Mine(n) = Mine(m) \cup {f}
  <2>1. ASSUME NEW g \in Mine(n) PROVE g \in Mine(m) \cup {f}
    BY <1>0, <2>1 DEF Mine
  <2>2. ASSUME NEW g \in Mine(m) PROVE g \in Mine(n)
    <3>1. ASSUME NEW t \in Tables, g = m.tab[t] PROVE t # k
      BY <1>0, <2>2, <3>1 DEF Mine
    <3>. QED
      BY <1>0, <2>2, <3>1 DEF Mine
  <2>3. f \in Mine(n)
    BY <1>0, <1>1 DEF Mine
  <2>. QED
    BY <1>0, <2>1, <2>2, <2>3
<1>3. /\ f # m.dir
      /\ \A t \in Tables : m.tab[t] # f
      /\ \A v \in Pages : m.pte[v] # f
  BY <1>0, <1>1 DEF Mine
<1>4. Distinct(m)
  BY <1>0 DEF Good
<1>5. Distinct(n)
  <2>1. n.dir # Null => n.dir # Trampoline
    BY <1>0, <1>4 DEF Distinct
  <2>2. \A t \in Tables : n.tab[t] # Null => n.tab[t] # Trampoline /\ n.tab[t] # n.dir
    BY <1>0, <1>1, <1>3, <1>4 DEF Distinct
  <2>3. \A t, u \in Tables : t # u /\ n.tab[t] # Null => n.tab[t] # n.tab[u]
    BY <1>0, <1>1, <1>3, <1>4 DEF Distinct
  <2>4. \A v \in Pages : n.pte[v] \notin {Null, Trampoline} =>
          n.pte[v] # n.dir /\ \A t \in Tables : n.pte[v] # n.tab[t]
    BY <1>0, <1>3, <1>4 DEF Distinct
  <2>5. \A v, w \in Pages : v # w /\ n.pte[v] \notin {Null, Trampoline} => n.pte[v] # n.pte[w]
    BY <1>0, <1>4 DEF Distinct
  <2>. QED
    BY <1>0, <2>1, <2>2, <2>3, <2>4, <2>5 DEF Distinct
<1>. QED
  BY <1>0, <1>1, <1>2, <1>5 DEF Good

\* A frame taken becomes a page; what was mapped there has no owner any more.
LEMMA PageGood ==
    ASSUME NEW m, NEW R, NEW f \in Blocks, f \notin R, Kernel \subseteq R, Good(m, R \cup {f}),
           NEW k \in Pages, NEW n, WithPage(m, n, k, f)
    PROVE  Good(n, R \cup ({m.pte[k]} \ {Null, Trampoline})) /\ f \in Mine(n)
<1>0. /\ n \in Space /\ n.map = m.map /\ n.count = m.count /\ n.dir = m.dir /\ n.tab = m.tab
      /\ n.pte[k] = f /\ \A v \in Pages \ {k} : n.pte[v] = m.pte[v]
  BY DEF WithPage
<1>. DEFINE D == {m.pte[k]} \ {Null, Trampoline}
<1>1. f \notin Mine(m) /\ f # Null /\ f # Trampoline
  BY BlockFacts DEF Good
<1>2. Distinct(m) /\ m \in Space
  BY <1>0 DEF Good
<1>3. /\ f # m.dir
      /\ \A t \in Tables : m.tab[t] # f
      /\ \A v \in Pages : m.pte[v] # f
  BY <1>0, <1>1 DEF Mine
<1>4. D \subseteq Mine(m)
  <2>1. m.pte[k] \in Blocks
    BY <1>0, <1>2 DEF Space
  <2>. QED
    BY <1>0, <2>1 DEF Mine
<1>5. Mine(n) = (Mine(m) \ D) \cup {f}
  <2>1. ASSUME NEW g \in Mine(n), g # f PROVE g \in Mine(m) /\ g \notin D
    <3>1. g \in Blocks \ {Null, Trampoline}
      BY <1>0, <2>1 DEF Mine
    <3>2. CASE g = m.dir
      BY <1>0, <3>1, <3>2, <1>2 DEF Mine, Distinct
    <3>3. ASSUME NEW t \in Tables, g = m.tab[t] PROVE g \in Mine(m) /\ g \notin D
      BY <1>0, <3>1, <3>3, <1>2 DEF Mine, Distinct
    <3>4. ASSUME NEW v \in Pages, g = n.pte[v] PROVE g \in Mine(m) /\ g \notin D
      <4>1. v # k /\ g = m.pte[v]
        BY <1>0, <2>1, <3>4
      <4>2. g \in Mine(m)
        BY <1>0, <3>1, <4>1 DEF Mine
      <4>3. g # m.pte[k]
        BY <1>0, <3>1, <4>1, <1>2 DEF Distinct
      <4>. QED
        BY <1>0, <4>2, <4>3
    <3>. QED
      BY <1>0, <2>1, <3>2, <3>3, <3>4 DEF Mine
  <2>2. ASSUME NEW g \in Mine(m), g \notin D PROVE g \in Mine(n)
    <3>1. g \in Blocks \ {Null, Trampoline} /\ g # m.pte[k]
      BY <1>0, <2>2 DEF Mine
    <3>. QED
      BY <1>0, <2>2, <3>1 DEF Mine
  <2>3. f \in Mine(n)
    BY <1>0, <1>1 DEF Mine
  <2>. QED
    BY <1>0, <2>1, <2>2, <2>3, <1>1
<1>6. Distinct(n)
  <2>1. n.dir # Null => n.dir # Trampoline
    BY <1>0, <1>2 DEF Distinct
  <2>2. \A t \in Tables : n.tab[t] # Null => n.tab[t] # Trampoline /\ n.tab[t] # n.dir
    BY <1>0, <1>2 DEF Distinct
  <2>3. \A t, u \in Tables : t # u /\ n.tab[t] # Null => n.tab[t] # n.tab[u]
    BY <1>0, <1>2 DEF Distinct
  <2>4. \A v \in Pages : n.pte[v] \notin {Null, Trampoline} =>
          n.pte[v] # n.dir /\ \A t \in Tables : n.pte[v] # n.tab[t]
    BY <1>0, <1>2, <1>3 DEF Distinct
  <2>5. \A v, w \in Pages : v # w /\ n.pte[v] \notin {Null, Trampoline} => n.pte[v] # n.pte[w]
    BY <1>0, <1>2, <1>3 DEF Distinct
  <2>. QED
    BY <1>0, <2>1, <2>2, <2>3, <2>4, <2>5 DEF Distinct
<1>7. /\ m.map = R \cup {f} \cup Mine(m) /\ (R \cup {f}) \cap Mine(m) = {}
      /\ m.count = Cardinality(m.map)
  BY <1>0 DEF Good
<1>8. n.map = (R \cup D) \cup Mine(n) /\ (R \cup D) \cap Mine(n) = {}
  <2>. HIDE DEF D
  <2>. QED
    BY <1>0, <1>1, <1>4, <1>5, <1>7
<1>9. f \in Mine(n) /\ Kernel \subseteq R \cup D
  BY <1>0, <1>5
<1>. QED
  BY <1>0, <1>6, <1>7, <1>8, <1>9 DEF Good

-------------------------------------------------------------------------------
(* Mapping and freeing.                                                        *)

LEMMA TableOfPage ==
    ASSUME NEW v \in Pages
    PROVE  TableOf(v) \in Tables
<1>1. NPages \in Nat \ {0} /\ PerTable \in Nat \ {0}
  BY MemoryAssumption
<1>. DEFINE P == PerTable
            q == v \div P
            r == (NPages - 1) \div P
<1>2. /\ q \in Int /\ r \in Int
      /\ P * q <= v /\ v < P * q + P
      /\ P * r <= NPages - 1 /\ NPages - 1 < P * r + P
  BY <1>1 DEF Pages
<1>3. q >= 0
  <2>1. q < 0 => P * q + P <= 0
    <3>1. P \in Nat \ {0}
      BY <1>1
    <3>. HIDE DEF P, q
    <3>2. q < 0 => q + 1 <= 0
      BY <1>2
    <3>3. q + 1 <= 0 => P * (q + 1) <= 0
      BY <1>2, <3>1
    <3>. QED
      BY <1>2, <3>1, <3>2, <3>3
  <2>2. v \in Int /\ v >= 0
    BY <1>1, <1>2 DEF Pages
  <2>3. PICK a \in Int : a = P * q
    BY <1>1, <1>2
  <2>4. v < a + P /\ (q < 0 => a + P <= 0) /\ P \in Int
    BY <1>1, <1>2, <2>1, <2>3
  <2>5. ~(q < 0)
    <3>. HIDE DEF P, q
    <3>. QED
      BY <2>2, <2>4
  <2>. HIDE DEF P, q
  <2>. QED
    BY <1>2, <2>5
<1>4. q <= r
  <2>1. q > r => P * r + P <= P * q
    <3>1. P \in Nat \ {0}
      BY <1>1
    <3>. HIDE DEF P, q, r
    <3>2. q > r => q - (r + 1) >= 0
      BY <1>2
    <3>3. q - (r + 1) >= 0 => P * (q - (r + 1)) >= 0
      BY <1>2, <3>1
    <3>4. P * (q - (r + 1)) = P * q - (P * r + P)
      BY <1>2, <3>1
    <3>5. P * q \in Int /\ P * r \in Int
      BY <1>2, <3>1
    <3>. QED
      BY <1>2, <3>1, <3>2, <3>3, <3>4, <3>5
  <2>2. v <= NPages - 1 /\ v \in Int
    BY <1>1, <1>2 DEF Pages
  <2>3. PICK a \in Int : a = P * q
    BY <1>1, <1>2
  <2>4. PICK b \in Int : b = P * r
    BY <1>1, <1>2
  <2>5. a <= v /\ NPages - 1 < b + P /\ (q > r => b + P <= a) /\ P \in Int /\ NPages - 1 \in Int
    BY <1>1, <1>2, <2>1, <2>3, <2>4
  <2>6. ~(q > r)
    <3>. HIDE DEF P, q, r
    <3>. QED
      BY <2>2, <2>5
  <2>. HIDE DEF P, q, r
  <2>. QED
    BY <1>2, <2>6
<1>. QED
  BY <1>2, <1>3, <1>4 DEF TableOf, Tables

\* What FreeBlocks does to the bitmap and its counter.
LEMMA FreeFacts ==
    ASSUME NEW m \in Space, m.count = Cardinality(m.map), NEW S, NEW n, n = FreeBlocks(m, S)
    PROVE  /\ n \in Space /\ n.map = m.map \ (S \ Kernel) /\ n.count = Cardinality(n.map)
           /\ n.dir = m.dir /\ n.tab = m.tab /\ n.pte = m.pte /\ n.ok = m.ok /\ n.done = m.done
<1>1. PICK F : F = (S \cap m.map) \ Kernel
  OBVIOUS
<1>2. m.map \in SUBSET Blocks /\ F \in SUBSET m.map
  BY <1>1 DEF Space
<1>3. n = [m EXCEPT !.map = m.map \ F, !.count = m.count - Cardinality(F)]
  BY <1>1 DEF FreeBlocks
<1>4. m.count - Cardinality(F) = Cardinality(m.map \ F) /\ m.map \ F \in SUBSET Blocks
  BY <1>2, CountLess
<1>5. Cardinality(m.map \ F) \in Nat
  BY <1>4, BlockFacts
<1>6. n \in Space
  BY <1>3, <1>4, <1>5 DEF Space
<1>7. /\ n.map = m.map \ F /\ n.count = m.count - Cardinality(F)
      /\ n.dir = m.dir /\ n.tab = m.tab /\ n.pte = m.pte /\ n.ok = m.ok /\ n.done = m.done
  BY <1>3 DEF Space
<1>8. m.map \ F = m.map \ (S \ Kernel)
  BY <1>1
<1>. QED
  BY <1>4, <1>6, <1>7, <1>8

\* A frame taken and not used goes back.
LEMMA FreeOne ==
    ASSUME NEW m, NEW R, NEW f \in Blocks, f \notin R, Kernel \subseteq R, Good(m, R \cup {f}),
           NEW n, n = FreeBlocks(m, {f})
    PROVE  /\ Good(n, R)
           /\ n.dir = m.dir /\ n.tab = m.tab /\ n.pte = m.pte /\ n.ok = m.ok /\ n.done = m.done
<1>1. m \in Space /\ m.count = Cardinality(m.map)
  BY DEF Good
<1>2. /\ n \in Space /\ n.map = m.map \ ({f} \ Kernel) /\ n.count = Cardinality(n.map)
      /\ n.dir = m.dir /\ n.tab = m.tab /\ n.pte = m.pte /\ n.ok = m.ok /\ n.done = m.done
  BY <1>1, FreeFacts
<1>3. Mine(n) = Mine(m)
  BY <1>2 DEF Mine
<1>5. Distinct(n)
  BY <1>2 DEF Distinct, Good
<1>4. n.map = R \cup Mine(m) /\ R \cap Mine(m) = {}
  BY <1>2 DEF Good
<1>. QED
  BY <1>2, <1>3, <1>4, <1>5 DEF Good

\* The sweep gives back what the address space holds, and nothing else.
LEMMA SweepGood ==
    ASSUME NEW m, NEW R, Good(m, R), NEW n, n = FreeAddressSpace(m)
    PROVE  /\ Good(n, R) /\ Mine(n) = {}
           /\ n.dir = Null /\ n.tab = NoTables /\ n.pte = Unmapped
<1>1. PICK S : S = FramesOf(m) \ {Trampoline}
  OBVIOUS
<1>2. PICK k : k = FreeBlocks(m, S)
  OBVIOUS
<1>3. m \in Space /\ m.count = Cardinality(m.map)
  BY DEF Good
<1>4. /\ k \in Space /\ k.map = m.map \ (S \ Kernel) /\ k.count = Cardinality(k.map)
      /\ k.ok = m.ok /\ k.done = m.done
  BY <1>2, <1>3, FreeFacts
<1>5. S \ Kernel = Mine(m)
  <2>1. ASSUME NEW g \in Mine(m) PROVE g \in S \ Kernel
    <3>1. g \notin Kernel
      BY <2>1 DEF Good
    <3>2. g \in FramesOf(m) /\ g # Trampoline
      BY <2>1 DEF Mine, FramesOf
    <3>. QED
      BY <3>1, <3>2, <1>1
  <2>2. ASSUME NEW g \in S \ Kernel PROVE g \in Mine(m)
    <3>1. g # Null /\ g # Trampoline /\ g \in FramesOf(m)
      BY <2>2, <1>1, BlockFacts
    <3>2. g \in Blocks
      BY <3>1, <1>3 DEF FramesOf, Space
    <3>. QED
      BY <3>1, <3>2 DEF FramesOf, Mine
  <2>. QED
    BY <2>1, <2>2
<1>6. k.map = R
  BY <1>4, <1>5 DEF Good
<1>7. NoTables \in [Tables -> Blocks] /\ Unmapped \in [Pages -> Blocks] /\ Null \in Blocks
  BY BlockFacts DEF NoTables, Unmapped
<1>8. n = [k EXCEPT !.dir = Null, !.tab = NoTables, !.pte = Unmapped]
  BY <1>1, <1>2 DEF FreeAddressSpace
<1>9. /\ n \in Space /\ n.map = k.map /\ n.count = k.count
      /\ n.dir = Null /\ n.tab = NoTables /\ n.pte = Unmapped
  BY <1>4, <1>7, <1>8 DEF Space
<1>10. Mine(n) = {}
  BY <1>9 DEF Mine, NoTables, Unmapped
<1>11. Distinct(n)
  BY <1>9 DEF Distinct, NoTables, Unmapped
<1>12. Kernel \subseteq R
  BY DEF Good
<1>. QED
  BY <1>4, <1>6, <1>9, <1>10, <1>11, <1>12 DEF Good

\* The trampoline may be mapped anywhere: it is no frame of the address space.
LEMMA TrampolineGood ==
    ASSUME NEW m, NEW R, Good(m, R), NEW k \in Pages, m.pte[k] = Null, NEW n,
           WithPage(m, n, k, Trampoline)
    PROVE  Good(n, R)
<1>0. /\ n \in Space /\ n.map = m.map /\ n.count = m.count /\ n.dir = m.dir /\ n.tab = m.tab
      /\ n.pte[k] = Trampoline /\ \A v \in Pages \ {k} : n.pte[v] = m.pte[v]
  BY DEF WithPage
<1>1. Mine(n) = Mine(m)
  <2>1. ASSUME NEW g \in Blocks \ {Null, Trampoline}
        PROVE  (\E v \in Pages : g = n.pte[v]) <=> (\E v \in Pages : g = m.pte[v])
    BY <1>0
  <2>. QED
    BY <1>0, <2>1 DEF Mine
<1>2. Distinct(n)
  BY <1>0 DEF Good, Distinct
<1>. QED
  BY <1>0, <1>1, <1>2 DEF Good

\* MapPage() maps the page, with a new table if it needs one, or changes nothing.
MapOutcome(m, v, f, n) ==
    \/ n = [m EXCEPT !.ok = FALSE]
    \/ /\ v \in Pages /\ m.tab[TableOf(v)] # Null
       /\ n = [m EXCEPT !.pte[v] = f]
    \/ /\ v \in Pages /\ m.tab[TableOf(v)] = Null /\ FirstFree(m) # Null
       /\ n = [Take(m, FirstFree(m)) EXCEPT !.tab[TableOf(v)] = FirstFree(m), !.pte[v] = f]

LEMMA MapPageCases ==
    ASSUME NEW m \in Space, NEW v, NEW f \in Blocks, NEW n, n = MapPage(m, v, f)
    PROVE  MapOutcome(m, v, f, n)
<1>1. CASE v \notin Pages
  BY <1>1 DEF MapPage, MapOutcome
<1>2. CASE v \in Pages /\ m.tab[TableOf(v)] # Null
  BY <1>2 DEF MapPage, MapOutcome
<1>3. CASE v \in Pages /\ m.tab[TableOf(v)] = Null
  <2>1. n = IF paging_map_depth > 0 \/ FirstFree(m) = Null
            THEN [m EXCEPT !.ok = FALSE]
            ELSE [Take(m, FirstFree(m)) EXCEPT !.tab[TableOf(v)] = FirstFree(m), !.pte[v] = f]
    BY <1>3 DEF MapPage
  <2>. QED
    BY <1>3, <2>1 DEF MapOutcome
<1>. QED
  BY <1>1, <1>2, <1>3

\* k is m with the table t for page v.
TableAdded(m, R, v, t, k) ==
    /\ Good(k, R)
    /\ k = [Take(m, t) EXCEPT !.tab[TableOf(v)] = t]
    /\ k \in Space /\ k.map = m.map \cup {t}
    /\ k.dir = m.dir /\ k.pte = m.pte /\ k.ok = m.ok /\ k.done = m.done

\* The table that MapPage() adds.
LEMMA NewTable ==
    ASSUME NEW m, NEW R, Good(m, R), NEW v \in Pages, m.tab[TableOf(v)] = Null,
           NEW t \in Blocks \ m.map
    PROVE  \E k : TableAdded(m, R, v, t, k)
<1>3. PICK h : h = Take(m, t)
  OBVIOUS
<1>4. /\ Good(h, R \cup {t}) /\ t \notin R
      /\ h.pte = m.pte /\ h.tab = m.tab /\ h.dir = m.dir /\ h.ok = m.ok /\ h.done = m.done
  BY <1>3, TakeGood
<1>5. PICK i \in Tables : i = TableOf(v)
  BY TableOfPage
<1>6. PICK k : k = [h EXCEPT !.tab[i] = t]
  OBVIOUS
<1>7. h \in Space
  BY <1>4 DEF Good
<1>8. [h.tab EXCEPT ![i] = t] \in [Tables -> Blocks]
  BY <1>7 DEF Space
<1>9. k = [h EXCEPT !.tab = [h.tab EXCEPT ![i] = t]]
  BY <1>6
<1>10. /\ k \in Space /\ k.map = h.map /\ k.count = h.count /\ k.dir = h.dir /\ k.pte = h.pte
       /\ k.ok = h.ok /\ k.done = h.done /\ k.tab = [h.tab EXCEPT ![i] = t]
  BY <1>7, <1>8, <1>9 DEF Space
<1>11. h.tab \in [Tables -> Blocks]
  BY <1>7 DEF Space
<1>12. k.tab[i] = t /\ \A u \in Tables \ {i} : k.tab[u] = h.tab[u]
  BY <1>10, <1>11
<1>13. h.tab[i] = Null
  BY <1>4, <1>5
<1>14. Good(k, R)
  <2>1. WithTable(h, k, i, t)
    BY <1>10, <1>12 DEF WithTable
  <2>2. Kernel \subseteq R
    BY DEF Good
  <2>. QED
    BY <1>4, <1>13, <2>1, <2>2, TableGood
<1>15. k = [Take(m, t) EXCEPT !.tab[TableOf(v)] = t]
  BY <1>3, <1>5, <1>6
<1>16. h.map = m.map \cup {t}
  <2>1. m \in Space
    BY DEF Good
  <2>. QED
    BY <1>3, <2>1 DEF Take, Space
<1>. QED
  BY <1>4, <1>10, <1>14, <1>15, <1>16 DEF TableAdded

\* Setting a page's entry.
LEMMA SetPte ==
    ASSUME NEW k \in Space, NEW v \in Pages, NEW f \in Blocks, NEW n, n = [k EXCEPT !.pte[v] = f]
    PROVE  WithPage(k, n, v, f)
<1>1. k.pte \in [Pages -> Blocks] /\ [k.pte EXCEPT ![v] = f] \in [Pages -> Blocks]
  BY DEF Space
<1>2. n = [k EXCEPT !.pte = [k.pte EXCEPT ![v] = f]]
  OBVIOUS
<1>3. /\ n \in Space /\ n.map = k.map /\ n.count = k.count /\ n.dir = k.dir /\ n.tab = k.tab
      /\ n.ok = k.ok /\ n.done = k.done /\ n.pte = [k.pte EXCEPT ![v] = f]
  BY <1>1, <1>2 DEF Space
<1>. QED
  BY <1>1, <1>3 DEF WithPage

\* Mapping a frame that was taken, at a page that is free.
Mapped(m, R, v, f, n) ==
    /\ n.dir = m.dir /\ n.done = m.done
    /\ n.ok => /\ v \in Pages /\ Good(n, R) /\ f \in Mine(n) /\ n.pte[v] = f
               /\ \A w \in Pages \ {v} : n.pte[w] = m.pte[w]
    /\ ~ n.ok => Good(n, R \cup {f}) /\ n.pte = m.pte
    /\ n.ok \in BOOLEAN

LEMMA MapPageGood ==
    ASSUME NEW m, NEW R, NEW f \in Blocks, f \notin R, Kernel \subseteq R, Good(m, R \cup {f}),
           m.ok, NEW v, v \in Pages => m.pte[v] = Null, NEW n, n = MapPage(m, v, f)
    PROVE  Mapped(m, R, v, f, n)
<1>1. m \in Space
  BY DEF Good
<1>2. CASE n = [m EXCEPT !.ok = FALSE]
  <2>1. /\ n \in Space /\ n.map = m.map /\ n.count = m.count /\ n.dir = m.dir /\ n.tab = m.tab
        /\ n.pte = m.pte /\ n.ok = FALSE /\ n.done = m.done
    BY <1>1, <1>2 DEF Space
  <2>2. Good(n, R \cup {f})
    BY <2>1, MarkGood
  <2>. QED
    BY <2>1, <2>2 DEF Mapped
<1>3. ASSUME v \in Pages, NEW k, Good(k, R \cup {f}), k \in Space, k.dir = m.dir, k.pte = m.pte,
             k.ok = m.ok, k.done = m.done, n = [k EXCEPT !.pte[v] = f]
      PROVE  /\ n.dir = m.dir /\ n.done = m.done /\ n.ok = m.ok /\ Good(n, R) /\ f \in Mine(n)
             /\ n.pte[v] = f /\ \A w \in Pages \ {v} : n.pte[w] = m.pte[w]
  <2>1. WithPage(k, n, v, f)
    BY <1>3, SetPte
  <2>2. Good(n, R \cup ({k.pte[v]} \ {Null, Trampoline})) /\ f \in Mine(n)
    BY <1>3, <2>1, PageGood
  <2>3. k.pte[v] = Null
    BY <1>3
  <2>4. R \cup ({k.pte[v]} \ {Null, Trampoline}) = R
    BY <2>3
  <2>. QED
    BY <1>3, <2>1, <2>2, <2>4 DEF WithPage
<1>4. CASE v \in Pages /\ n = [m EXCEPT !.pte[v] = f]
  <2>1. /\ n.dir = m.dir /\ n.done = m.done /\ n.ok = m.ok /\ Good(n, R) /\ f \in Mine(n)
        /\ n.pte[v] = f /\ \A w \in Pages \ {v} : n.pte[w] = m.pte[w]
    BY <1>1, <1>3, <1>4
  <2>. QED
    BY <1>1, <1>4, <2>1 DEF Mapped, Space
<1>5. CASE /\ v \in Pages /\ m.tab[TableOf(v)] = Null /\ FirstFree(m) # Null
           /\ n = [Take(m, FirstFree(m)) EXCEPT !.tab[TableOf(v)] = FirstFree(m), !.pte[v] = f]
  <2>0. PICK u \in Blocks \ m.map : u = FirstFree(m)
    BY <1>5, FirstFreeFacts
  <2>1. PICK k : TableAdded(m, R \cup {f}, v, u, k)
    BY <1>5, NewTable
  <2>2. n = [k EXCEPT !.pte[v] = f]
    BY <1>5, <2>0, <2>1 DEF TableAdded
  <2>3. /\ n.dir = m.dir /\ n.done = m.done /\ n.ok = m.ok /\ Good(n, R) /\ f \in Mine(n)
        /\ n.pte[v] = f /\ \A w \in Pages \ {v} : n.pte[w] = m.pte[w]
    BY <1>3, <1>5, <2>1, <2>2 DEF TableAdded
  <2>. QED
    BY <1>1, <1>5, <2>3 DEF Mapped, Space
<1>6. MapOutcome(m, v, f, n)
  BY <1>1, MapPageCases
<1>. QED
  BY <1>2, <1>4, <1>5, <1>6 DEF MapOutcome

-------------------------------------------------------------------------------
(* brk.                                                                        *)

\* After the pages first, ..., j - 1: the pages done were free and hold frames, the others
\* are as they were; unless a page failed, all pages passed are mapped.
BrkRun(m, R, first, j, r) ==
    /\ Good(r, R) /\ r.dir = m.dir
    /\ \A v \in Pages :
          /\ v \in r.done => m.pte[v] = Null /\ r.pte[v] \notin {Null, Trampoline}
          /\ v \notin r.done => r.pte[v] = m.pte[v]
    /\ r.ok => \A v \in first .. (j - 1) : r.pte[v] # Null

LEMMA BrkPageStep ==
    ASSUME NEW m, NEW R, NEW first \in Nat, NEW j \in Pages, j >= first, NEW r,
           BrkRun(m, R, first, j, r), NEW s, s = BrkPage(r, j)
    PROVE  BrkRun(m, R, first, j + 1, s)
<1>1. PICK f : f = FirstFree(r)
  OBVIOUS
<1>2. PICK h : h = Take(r, f)
  OBVIOUS
<1>3. PICK n : n = MapPage(h, j, f)
  OBVIOUS
<1>4. s = IF ~r.ok \/ r.pte[j] # Null THEN r
          ELSE IF f = Null THEN [r EXCEPT !.ok = FALSE]
          ELSE IF ~n.ok THEN FreeBlocks(n, {f})
          ELSE [n EXCEPT !.done = @ \cup {j}]
  BY <1>1, <1>2, <1>3 DEF BrkPage
<1>5. Good(r, R) /\ r \in Space /\ Kernel \subseteq R
  BY DEF BrkRun, Good
<1>6. r.ok \in BOOLEAN /\ r.done \subseteq Pages /\ r.pte \in [Pages -> Blocks]
  BY <1>5 DEF Space
<1>7. \A v \in first .. (j + 1 - 1) : v = j \/ v \in first .. (j - 1)
  BY DEF Pages
<1>12. j \in Nat
  BY MemoryAssumption DEF Pages
<1>8. CASE ~r.ok
  <2>1. s = r
    BY <1>4, <1>8
  <2>. QED
    BY <1>8, <2>1 DEF BrkRun
<1>9. CASE r.ok /\ r.pte[j] # Null
  <2>1. s = r
    BY <1>4, <1>9
  <2>2. \A v \in first .. (j + 1 - 1) : r.pte[v] # Null
    BY <1>7, <1>9 DEF BrkRun
  <2>3. BrkRun(m, R, first, j + 1, r)
    BY <1>12, <2>2 DEF BrkRun
  <2>. QED
    BY <2>1, <2>3
<1>10. CASE r.ok /\ r.pte[j] = Null /\ f = Null
  <2>1. s = [r EXCEPT !.ok = FALSE]
    BY <1>4, <1>10
  <2>2. /\ s \in Space /\ s.map = r.map /\ s.count = r.count /\ s.dir = r.dir /\ s.tab = r.tab
        /\ s.pte = r.pte /\ s.ok = FALSE /\ s.done = r.done
    BY <2>1, <1>5 DEF Space
  <2>3. Good(s, R)
    BY <1>5, <2>2, MarkGood
  <2>. QED
    BY <2>2, <2>3 DEF BrkRun
<1>11. CASE r.ok /\ r.pte[j] = Null /\ f # Null
  <2>1. f \in Blocks \ r.map
    BY <1>1, <1>11, FirstFreeFacts
  <2>2. /\ Good(h, R \cup {f}) /\ f \notin R /\ h.pte = r.pte /\ h.dir = r.dir /\ h.ok
        /\ h.done = r.done
    BY <1>2, <1>5, <1>11, <2>1, TakeGood
  <2>3. h.pte[j] = Null
    BY <1>11, <2>2
  <2>4. /\ n.dir = h.dir /\ n.done = h.done
        /\ n.ok => /\ Good(n, R) /\ f \in Mine(n) /\ n.pte[j] = f
                   /\ \A w \in Pages \ {j} : n.pte[w] = h.pte[w]
        /\ ~ n.ok => Good(n, R \cup {f}) /\ n.pte = h.pte
        /\ n.ok \in BOOLEAN
    <3>1. Mapped(h, R, j, f, n)
      BY <1>3, <1>5, <2>1, <2>2, <2>3, MapPageGood
    <3>. QED
      BY <3>1 DEF Mapped
  <2>5. CASE ~n.ok
    <3>1. s = FreeBlocks(n, {f})
      BY <1>4, <1>11, <2>5
    <3>2. Good(s, R) /\ s.dir = n.dir /\ s.pte = n.pte /\ s.ok = n.ok /\ s.done = n.done
      BY <1>5, <2>1, <2>2, <2>4, <2>5, <3>1, FreeOne
    <3>3. s.dir = r.dir /\ s.pte = r.pte /\ ~s.ok /\ s.done = r.done
      BY <2>2, <2>4, <2>5, <3>2
    <3>. QED
      BY <3>2, <3>3 DEF BrkRun
  <2>6. CASE n.ok
    <3>1. s = [n EXCEPT !.done = @ \cup {j}]
      BY <1>4, <1>11, <2>6
    <3>2. n \in Space /\ n.done = r.done /\ n.dir = r.dir
      BY <2>2, <2>4, <2>6 DEF Good
    <3>3. n.done \cup {j} \in SUBSET Pages
      BY <3>2 DEF Space
    <3>4. /\ s \in Space /\ s.map = n.map /\ s.count = n.count /\ s.dir = n.dir /\ s.tab = n.tab
          /\ s.pte = n.pte /\ s.ok = n.ok /\ s.done = n.done \cup {j}
      BY <3>1, <3>2, <3>3 DEF Space
    <3>5. Good(s, R)
      BY <2>4, <2>6, <3>4, MarkGood
    <3>6. f \notin {Null, Trampoline}
      BY <2>4, <2>6 DEF Mine
    <3>7. s.pte[j] = f /\ \A w \in Pages \ {j} : s.pte[w] = r.pte[w]
      BY <2>2, <2>4, <2>6, <3>4
    <3>8. s.done = r.done \cup {j} /\ s.dir = r.dir
      BY <3>2, <3>4
    <3>9. j \notin r.done /\ m.pte[j] = Null
      BY <1>11 DEF BrkRun
    <3>10. ASSUME NEW v \in Pages
           PROVE  /\ v \in s.done => m.pte[v] = Null /\ s.pte[v] \notin {Null, Trampoline}
                  /\ v \notin s.done => s.pte[v] = m.pte[v]
      BY <3>6, <3>7, <3>8, <3>9 DEF BrkRun
    <3>11. ASSUME NEW v \in first .. (j + 1 - 1) PROVE s.pte[v] # Null
      <4>1. CASE v = j
        BY <3>6, <3>7, <4>1
      <4>2. CASE v # j
        <5>1. v \in first .. (j - 1) /\ v \in Pages \ {j}
          BY <1>7, <4>2, MemoryAssumption DEF Pages
        <5>. QED
          BY <1>11, <3>7, <5>1 DEF BrkRun
      <4>. QED
        BY <4>1, <4>2
    <3>12. s.dir = m.dir
      BY <3>8 DEF BrkRun
    <3>. QED
      BY <1>12, <3>5, <3>10, <3>11, <3>12 DEF BrkRun
  <2>. QED
    BY <2>4, <2>5, <2>6
<1>. QED
  BY <1>6, <1>8, <1>9, <1>10, <1>11

\* f records the loop of brk from its first page on.
IsBrkLoop(f, start, first, last) ==
    /\ f = [v \in first .. last |-> f[v]]
    /\ f[first] = start
    /\ \A v \in (first + 1) .. last : f[v] = BrkPage(f[v-1], v - 1)

LEMMA BrkLoopExists ==
    ASSUME NEW start, NEW first \in Nat, NEW k \in Nat
    PROVE  \E f : IsBrkLoop(f, start, first, first + k)
<1>. DEFINE T == {i \in Nat : ~ \E f : IsBrkLoop(f, start, first, first + i)}
<1>. SUFFICES ASSUME T # {} PROVE FALSE
  OBVIOUS
<1>1. PICK i \in T : \A l \in T : i <= l
  <2>1. T \subseteq Nat
    OBVIOUS
  <2>. HIDE DEF T
  <2>. QED
    BY <2>1, LeastNat
<1>2. i # 0
  <2>1. PICK f : f = [v \in first .. first |-> start]
    OBVIOUS
  <2>2. f[first] = start
    BY <2>1
  <2>3. f = [v \in first .. first |-> f[v]]
    BY <2>1
  <2>4. IsBrkLoop(f, start, first, first + 0)
    BY <2>2, <2>3 DEF IsBrkLoop
  <2>. QED
    BY <2>4
<1>3. i \in Nat /\ i - 1 \in Nat /\ i - 1 \notin T
  BY <1>1, <1>2
<1>4. PICK f : IsBrkLoop(f, start, first, first + (i - 1))
  BY <1>3
<1>. DEFINE last == first + i
            g == [v \in first .. last |-> IF v = last THEN BrkPage(f[last - 1], last - 1) ELSE f[v]]
<1>5. IsBrkLoop(g, start, first, last)
  <2>0. last \in Nat /\ last > first /\ first + (i - 1) = last - 1
    BY <1>2, <1>3
  <2>1. g = [v \in first .. last |-> g[v]]
    OBVIOUS
  <2>2. g[first] = start
    <3>1. first \in first .. last /\ first # last
      BY <2>0
    <3>. QED
      BY <1>4, <3>1 DEF IsBrkLoop
  <2>3. ASSUME NEW v \in (first + 1) .. last PROVE g[v] = BrkPage(g[v-1], v - 1)
    <3>1. v - 1 \in first .. last /\ v - 1 # last /\ v \in first .. last
      BY <2>0
    <3>2. g[v-1] = f[v-1]
      BY <3>1
    <3>3. CASE v = last
      BY <3>1, <3>2, <3>3
    <3>4. CASE v # last
      <4>1. v \in (first + 1) .. (last - 1)
        BY <2>0, <3>4
      <4>2. f[v] = BrkPage(f[v-1], v - 1)
        BY <1>4, <2>0, <4>1 DEF IsBrkLoop
      <4>. QED
        BY <3>1, <3>2, <3>4, <4>2
    <3>. QED
      BY <3>3, <3>4
  <2>. HIDE DEF g
  <2>. QED
    BY <2>1, <2>2, <2>3 DEF IsBrkLoop
<1>. QED
  BY <1>1, <1>3, <1>5

LEMMA BrkPagesIsLoop ==
    ASSUME NEW start, NEW first \in Nat, NEW last \in Nat, first <= last
    PROVE  \E f : IsBrkLoop(f, start, first, last) /\ BrkPages(start, first, last) = f[last]
<1>. DEFINE Body(f) == [v \in first .. last |->
                            IF v = first THEN start ELSE BrkPage(f[v-1], v - 1)]
            c == CHOOSE f : f = Body(f)
<1>1. BrkPages(start, first, last) = c[last]
  BY DEF BrkPages
<1>2. PICK g : IsBrkLoop(g, start, first, last)
  <2>1. last - first \in Nat /\ first + (last - first) = last
    OBVIOUS
  <2>. QED
    BY <2>1, BrkLoopExists
<1>3. g = Body(g)
  <2>1. ASSUME NEW v \in first .. last PROVE g[v] = Body(g)[v]
    <3>1. v = first \/ v \in (first + 1) .. last
      OBVIOUS
    <3>. QED
      BY <1>2, <3>1 DEF IsBrkLoop
  <2>2. g = [v \in first .. last |-> g[v]]
    BY <1>2 DEF IsBrkLoop
  <2>. QED
    BY <2>1, <2>2
<1>4. c = Body(c)
  BY <1>3
<1>5. ASSUME NEW f, f = Body(f)
      PROVE  IsBrkLoop(f, start, first, last)
  <2>1. f = [v \in first .. last |-> f[v]]
    BY <1>5
  <2>2. f[first] = start
    <3>1. first \in first .. last
      OBVIOUS
    <3>2. f[first] = Body(f)[first]
      BY <1>5
    <3>. QED
      BY <3>1, <3>2
  <2>3. ASSUME NEW v \in (first + 1) .. last PROVE f[v] = BrkPage(f[v-1], v - 1)
    <3>1. v \in first .. last /\ v # first
      OBVIOUS
    <3>2. f[v] = Body(f)[v]
      BY <1>5
    <3>. QED
      BY <3>1, <3>2
  <2>. QED
    BY <2>1, <2>2, <2>3 DEF IsBrkLoop
<1>6. IsBrkLoop(c, start, first, last)
  BY <1>4, <1>5
<1>. QED
  BY <1>1, <1>6

\* The loop keeps what one of its steps keeps.
LEMMA BrkPagesGood ==
    ASSUME NEW m, NEW R, Good(m, R), m.done = {}, NEW first \in Nat, NEW last \in Nat,
           first <= last, last <= NPages, NEW r, r = BrkPages(m, first, last)
    PROVE  BrkRun(m, R, first, last, r)
<1>1. PICK f : IsBrkLoop(f, m, first, last) /\ r = f[last]
  BY BrkPagesIsLoop
<1>. DEFINE T == {i \in Nat : first + i <= last /\ ~BrkRun(m, R, first, first + i, f[first + i])}
<1>2. T = {}
  <2>. SUFFICES ASSUME T # {} PROVE FALSE
    OBVIOUS
  <2>1. PICK i \in T : \A l \in T : i <= l
    <3>1. T \subseteq Nat
      OBVIOUS
    <3>. HIDE DEF T
    <3>. QED
      BY <3>1, LeastNat
  <2>2. i # 0
    <3>1. f[first] = m /\ first + 0 = first
      BY <1>1 DEF IsBrkLoop
    <3>2. first .. (first - 1) = {}
      OBVIOUS
    <3>3. BrkRun(m, R, first, first, m)
      BY <3>2 DEF BrkRun
    <3>. QED
      BY <3>1, <3>3
  <2>3. PICK j \in Nat : j = first + (i - 1)
    BY <2>1, <2>2
  <2>4. i - 1 \in Nat /\ i - 1 \notin T /\ j >= first /\ j + 1 = first + i /\ j + 1 <= last
    BY <2>1, <2>2, <2>3
  <2>5. BrkRun(m, R, first, j, f[j])
    BY <2>3, <2>4
  <2>6. j + 1 \in (first + 1) .. last /\ j + 1 - 1 = j
    BY <2>4
  <2>7. f[j + 1] = BrkPage(f[j], j)
    <3>1. PICK v : v = j + 1
      OBVIOUS
    <3>2. f[v] = BrkPage(f[v-1], v - 1)
      BY <1>1, <2>6, <3>1 DEF IsBrkLoop
    <3>. QED
      BY <2>6, <3>1, <3>2
  <2>8. j \in Pages
    BY <2>4, MemoryAssumption DEF Pages
  <2>9. BrkRun(m, R, first, j + 1, f[j + 1])
    BY <2>4, <2>5, <2>7, <2>8, BrkPageStep
  <2>. QED
    BY <2>1, <2>4, <2>9
<1>3. last - first \in Nat /\ first + (last - first) = last
  OBVIOUS
<1>4. last - first \notin T
  BY <1>2
<1>. QED
  BY <1>1, <1>3, <1>4

\* The rollback gives back exactly the frames of the pages done.
LEMMA RollbackGood ==
    ASSUME NEW m, m \in Space, NEW R, NEW first, NEW j, NEW r, BrkRun(m, R, first, j, r),
           NEW n, n = BrkRollback(r)
    PROVE  Good(n, R) /\ n.dir = m.dir /\ n.pte = m.pte
<1>1. PICK S : S = {r.pte[v] : v \in r.done}
  OBVIOUS
<1>2. PICK k : k = FreeBlocks(r, S)
  OBVIOUS
<1>3. Good(r, R) /\ r \in Space /\ Kernel \subseteq R
  BY DEF BrkRun, Good
<1>4. r.done \subseteq Pages /\ r.pte \in [Pages -> Blocks] /\ m.pte \in [Pages -> Blocks]
  BY <1>3 DEF Space
<1>5. S \subseteq Mine(r) /\ S \cap Kernel = {}
  <2>1. S \subseteq Mine(r)
    BY <1>1, <1>4 DEF BrkRun, Mine
  <2>2. Mine(r) \cap Kernel = {}
    BY <1>3 DEF Good
  <2>. QED
    BY <2>1, <2>2
<1>6. /\ k \in Space /\ k.map = r.map \ (S \ Kernel) /\ k.count = Cardinality(k.map)
      /\ k.dir = r.dir /\ k.tab = r.tab /\ k.pte = r.pte /\ k.ok = r.ok /\ k.done = r.done
  BY <1>2, <1>3, FreeFacts DEF Good
<1>7. PICK e : e = [v \in Pages |-> IF v \in r.done THEN Null ELSE r.pte[v]]
  OBVIOUS
<1>8. e \in [Pages -> Blocks]
  BY <1>4, <1>7, BlockFacts
<1>9. \A v \in Pages : e[v] = m.pte[v]
  BY <1>7 DEF BrkRun
<1>10. e = m.pte
  BY <1>4, <1>8, <1>9
<1>11. n = [k EXCEPT !.pte = e]
  BY <1>1, <1>2, <1>6, <1>7 DEF BrkRollback
<1>12. /\ n \in Space /\ n.map = k.map /\ n.count = k.count /\ n.dir = k.dir /\ n.tab = k.tab
       /\ n.pte = e
  BY <1>6, <1>8, <1>11 DEF Space
<1>13. \A v \in Pages : /\ v \in r.done => n.pte[v] = Null
                        /\ v \notin r.done => n.pte[v] = r.pte[v]
  BY <1>7, <1>12
<1>14. Distinct(r)
  BY <1>3 DEF Good
<1>15. Mine(n) = Mine(r) \ S
  <2>1. ASSUME NEW g \in Mine(n) PROVE g \in Mine(r) /\ g \notin S
    <3>1. g \in Blocks \ {Null, Trampoline}
      BY <2>1 DEF Mine
    <3>2. CASE g = n.dir
      <4>1. g = r.dir
        BY <1>6, <1>12, <3>2
      <4>2. g \in Mine(r)
        BY <3>1, <4>1 DEF Mine
      <4>3. \A v \in r.done : r.pte[v] # g
        BY <1>4, <1>14, <3>1, <4>1 DEF Distinct
      <4>. QED
        BY <1>1, <4>2, <4>3
    <3>3. ASSUME NEW t \in Tables, g = n.tab[t] PROVE g \in Mine(r) /\ g \notin S
      <4>1. g = r.tab[t]
        BY <1>6, <1>12, <3>3
      <4>2. g \in Mine(r)
        BY <3>1, <4>1 DEF Mine
      <4>3. \A v \in r.done : r.pte[v] # g
        BY <1>4, <1>14, <3>1, <4>1 DEF Distinct
      <4>. QED
        BY <1>1, <4>2, <4>3
    <3>4. ASSUME NEW v \in Pages, g = n.pte[v] PROVE g \in Mine(r) /\ g \notin S
      <4>1. v \notin r.done /\ g = r.pte[v]
        BY <1>13, <3>1, <3>4
      <4>2. g \in Mine(r)
        BY <3>1, <4>1 DEF Mine
      <4>3. \A w \in r.done : r.pte[w] # g
        BY <1>4, <1>14, <3>1, <4>1 DEF Distinct
      <4>. QED
        BY <1>1, <4>2, <4>3
    <3>. QED
      BY <2>1, <3>2, <3>3, <3>4 DEF Mine
  <2>2. ASSUME NEW g \in Mine(r), g \notin S PROVE g \in Mine(n)
    <3>1. g \in Blocks \ {Null, Trampoline}
      BY <2>2 DEF Mine
    <3>2. ASSUME NEW v \in Pages, g = r.pte[v] PROVE g = n.pte[v]
      BY <1>1, <1>13, <2>2, <3>2
    <3>3. n.dir = r.dir /\ n.tab = r.tab
      BY <1>6, <1>12
    <3>. QED
      BY <2>2, <3>1, <3>2, <3>3 DEF Mine
  <2>. QED
    BY <2>1, <2>2
<1>16. Distinct(n)
  <2>1. n.dir = r.dir /\ n.tab = r.tab
    BY <1>6, <1>12
  <2>2. \A v \in Pages : n.pte[v] # Null => v \notin r.done /\ n.pte[v] = r.pte[v]
    BY <1>13
  <2>. QED
    BY <1>14, <2>1, <2>2 DEF Distinct
<1>17. n.map = R \cup Mine(n) /\ R \cap Mine(n) = {}
  <2>1. n.map = r.map \ S
    BY <1>5, <1>6, <1>12
  <2>2. r.map = R \cup Mine(r) /\ R \cap Mine(r) = {}
    BY <1>3 DEF Good
  <2>. QED
    BY <1>5, <1>15, <2>1, <2>2
<1>18. n.dir = m.dir /\ n.pte = m.pte /\ n.count = Cardinality(n.map)
  BY <1>6, <1>10, <1>12 DEF BrkRun
<1>. QED
  BY <1>3, <1>12, <1>16, <1>17, <1>18 DEF Good

-------------------------------------------------------------------------------
(* A new address space, and fork's copies.                                     *)

LEMMA DirectoryGood ==
    ASSUME NEW m, NEW R, Good(m, R), m.dir = Null, m.ok, NEW n, n = CreateProcessDirectory(m)
    PROVE  /\ Good(n, R) /\ n.tab = m.tab /\ n.pte = m.pte /\ n.ok \in BOOLEAN
           /\ n.ok => n.dir # Null
           /\ ~ n.ok => n.dir = Null
<1>1. PICK f : f = FirstFree(m)
  OBVIOUS
<1>2. m \in Space /\ Kernel \subseteq R /\ Distinct(m)
  BY DEF Good
<1>3. CASE f = Null
  <2>1. n = [m EXCEPT !.ok = FALSE]
    BY <1>1, <1>3 DEF CreateProcessDirectory
  <2>2. /\ n \in Space /\ n.map = m.map /\ n.count = m.count /\ n.dir = m.dir /\ n.tab = m.tab
        /\ n.pte = m.pte /\ n.ok = FALSE /\ n.done = m.done
    BY <1>2, <2>1 DEF Space
  <2>3. Good(n, R)
    BY <2>2, MarkGood
  <2>. QED
    BY <2>2, <2>3
<1>4. CASE f # Null
  <2>1. f \in Blocks \ m.map
    BY <1>1, <1>4, FirstFreeFacts
  <2>2. PICK h : h = Take(m, f)
    OBVIOUS
  <2>3. /\ Good(h, R \cup {f}) /\ f \notin R /\ h.pte = m.pte /\ h.tab = m.tab /\ h.dir = m.dir
        /\ h.ok
    BY <2>1, <2>2, TakeGood
  <2>4. h \in Space
    BY <2>3 DEF Good
  <2>5. n = [h EXCEPT !.dir = f]
    BY <1>1, <1>4, <2>2 DEF CreateProcessDirectory
  <2>6. /\ n \in Space /\ n.map = h.map /\ n.count = h.count /\ n.dir = f /\ n.tab = h.tab
        /\ n.pte = h.pte /\ n.ok
    BY <2>1, <2>3, <2>4, <2>5 DEF Space
  <2>7. f \notin Mine(h) /\ f # Null /\ f # Trampoline
    BY <1>2, <1>4, <2>3, BlockFacts DEF Good
  <2>8. /\ \A t \in Tables : h.tab[t] # f
        /\ \A v \in Pages : h.pte[v] # f
    BY <2>1, <2>7 DEF Mine
  <2>9. Mine(n) = Mine(h) \cup {f}
    <3>1. ASSUME NEW g \in Mine(n) PROVE g \in Mine(h) \cup {f}
      BY <2>6, <3>1 DEF Mine
    <3>2. ASSUME NEW g \in Mine(h) PROVE g \in Mine(n)
      <4>1. g # h.dir
        BY <2>3, <3>2 DEF Mine
      <4>. QED
        BY <2>6, <3>2, <4>1 DEF Mine
    <3>3. f \in Mine(n)
      BY <2>1, <2>6, <2>7 DEF Mine
    <3>. QED
      BY <3>1, <3>2, <3>3
  <2>10. Distinct(n)
    <3>1. Distinct(h)
      BY <2>3 DEF Good
    <3>. QED
      BY <2>6, <2>7, <2>8, <3>1 DEF Distinct
  <2>11. /\ h.map = R \cup {f} \cup Mine(h) /\ (R \cup {f}) \cap Mine(h) = {}
         /\ h.count = Cardinality(h.map)
    BY <2>3 DEF Good
  <2>12. n.map = R \cup Mine(n) /\ R \cap Mine(n) = {} /\ n.count = Cardinality(n.map)
    BY <2>3, <2>6, <2>9, <2>11
  <2>13. Good(n, R)
    BY <1>2, <2>6, <2>10, <2>12 DEF Good
  <2>. QED
    BY <1>4, <2>3, <2>6, <2>13
<1>. QED
  BY <1>3, <1>4

\* After the pages 0, ..., j - 1 of a copy of pte: nothing is mapped behind, and unless a
\* page failed, what pte maps is mapped.
CopyRun(m, R, pte, j, r) ==
    /\ Good(r, R) /\ r.dir = m.dir
    /\ r.ok => m.ok
    /\ \A v \in Pages : v >= j => r.pte[v] = Null
    /\ r.ok => \A v \in 0 .. (j - 1) : pte[v] # Null => r.pte[v] # Null

CopyStep(pte, r, v) == IF pte[v] = Null THEN r ELSE CopyPage(r, v)

LEMMA CopyPageStep ==
    ASSUME NEW m, NEW R, NEW pte, NEW j \in Pages, NEW r, CopyRun(m, R, pte, j, r),
           NEW s, s = CopyStep(pte, r, j)
    PROVE  CopyRun(m, R, pte, j + 1, s)
<1>1. PICK f : f = FirstFree(r)
  OBVIOUS
<1>2. PICK h : h = Take(r, f)
  OBVIOUS
<1>3. PICK n : n = MapPage(h, j, f)
  OBVIOUS
<1>4. s = IF pte[j] = Null \/ ~r.ok THEN r
          ELSE IF f = Null THEN [r EXCEPT !.ok = FALSE]
          ELSE IF ~n.ok THEN FreeBlocks(n, {f})
          ELSE n
  BY <1>1, <1>2, <1>3 DEF CopyStep, CopyPage
<1>5. Good(r, R) /\ r \in Space /\ Kernel \subseteq R
  BY DEF CopyRun, Good
<1>6. r.ok \in BOOLEAN /\ r.pte \in [Pages -> Blocks] /\ j \in Nat /\ Pages \subseteq Nat
  BY <1>5, MemoryAssumption DEF Space, Pages
<1>7. /\ \A v \in 0 .. (j + 1 - 1) : v = j \/ v \in 0 .. (j - 1)
      /\ \A v \in Pages : v >= j + 1 => v >= j /\ v # j
      /\ r.pte[j] = Null
  BY <1>6 DEF CopyRun
<1>8. CASE pte[j] = Null \/ ~r.ok
  <2>1. s = r
    BY <1>4, <1>8
  <2>2. r.ok => \A v \in 0 .. (j + 1 - 1) : pte[v] # Null => r.pte[v] # Null
    BY <1>7, <1>8 DEF CopyRun
  <2>3. \A v \in Pages : v >= j + 1 => r.pte[v] = Null
    BY <1>7 DEF CopyRun
  <2>4. Good(r, R) /\ r.dir = m.dir /\ (r.ok => m.ok)
    BY DEF CopyRun
  <2>. QED
    BY <1>6, <2>1, <2>2, <2>3, <2>4 DEF CopyRun
<1>9. CASE pte[j] # Null /\ r.ok /\ f = Null
  <2>1. s = [r EXCEPT !.ok = FALSE]
    BY <1>4, <1>9
  <2>2. /\ s \in Space /\ s.map = r.map /\ s.count = r.count /\ s.dir = r.dir /\ s.tab = r.tab
        /\ s.pte = r.pte /\ s.ok = FALSE /\ s.done = r.done
    BY <2>1, <1>5 DEF Space
  <2>3. Good(s, R)
    BY <1>5, <2>2, MarkGood
  <2>4. \A v \in Pages : v >= j + 1 => s.pte[v] = Null
    BY <1>7, <2>2 DEF CopyRun
  <2>5. s.dir = m.dir
    BY <2>2 DEF CopyRun
  <2>. QED
    BY <2>2, <2>3, <2>4, <2>5 DEF CopyRun
<1>10. CASE pte[j] # Null /\ r.ok /\ f # Null
  <2>1. f \in Blocks \ r.map
    BY <1>1, <1>10, FirstFreeFacts
  <2>2. /\ Good(h, R \cup {f}) /\ f \notin R /\ h.pte = r.pte /\ h.dir = r.dir /\ h.ok
    BY <1>2, <1>5, <1>10, <2>1, TakeGood
  <2>3. h.pte[j] = Null
    BY <1>7, <2>2
  <2>4. Mapped(h, R, j, f, n)
    BY <1>3, <1>5, <2>1, <2>2, <2>3, MapPageGood
  <2>5. n.ok \in BOOLEAN /\ n.dir = r.dir /\ m.ok /\ r.dir = m.dir
    BY <1>10, <2>2, <2>4 DEF Mapped, CopyRun
  <2>6. CASE ~n.ok
    <3>1. s = FreeBlocks(n, {f})
      BY <1>4, <1>10, <2>6
    <3>2. Good(n, R \cup {f}) /\ n.pte = h.pte
      BY <2>4, <2>6 DEF Mapped
    <3>3. Good(s, R) /\ s.dir = n.dir /\ s.pte = n.pte /\ s.ok = n.ok
      BY <1>5, <2>1, <2>2, <3>1, <3>2, FreeOne
    <3>4. s.dir = m.dir /\ s.pte = r.pte /\ ~s.ok
      BY <2>2, <2>5, <2>6, <3>2, <3>3
    <3>5. \A v \in Pages : v >= j + 1 => s.pte[v] = Null
      BY <1>7, <3>4 DEF CopyRun
    <3>. QED
      BY <3>3, <3>4, <3>5 DEF CopyRun
  <2>7. CASE n.ok
    <3>1. s = n
      BY <1>4, <1>10, <2>7
    <3>2. /\ Good(n, R) /\ f \in Mine(n) /\ n.pte[j] = f
          /\ \A w \in Pages \ {j} : n.pte[w] = r.pte[w]
      BY <2>2, <2>4, <2>7 DEF Mapped
    <3>3. f # Null
      BY <1>10
    <3>4. \A v \in Pages : v >= j + 1 => n.pte[v] = Null
      BY <1>7, <3>2 DEF CopyRun
    <3>5. ASSUME NEW v \in 0 .. (j + 1 - 1), pte[v] # Null PROVE n.pte[v] # Null
      <4>1. CASE v = j
        BY <3>2, <3>3, <4>1
      <4>2. CASE v # j
        <5>1. v \in 0 .. (j - 1) /\ v \in Pages \ {j}
          BY <1>7, <4>2, MemoryAssumption DEF Pages
        <5>. QED
          BY <1>10, <3>2, <3>5, <5>1 DEF CopyRun
      <4>. QED
        BY <4>1, <4>2
    <3>. QED
      BY <1>6, <2>5, <3>1, <3>2, <3>4, <3>5 DEF CopyRun
  <2>. QED
    BY <2>5, <2>6, <2>7
<1>. QED
  BY <1>6, <1>8, <1>9, <1>10

\* f records the loop of fork over the first pages.
IsCopyLoop(f, start, pte, last) ==
    /\ f = [v \in 0 .. last |-> f[v]]
    /\ f[0] = start
    /\ \A v \in 1 .. last : f[v] = CopyStep(pte, f[v-1], v - 1)

LEMMA CopyLoopExists ==
    ASSUME NEW start, NEW pte, NEW last \in Nat
    PROVE  \E f : IsCopyLoop(f, start, pte, last)
<1>. DEFINE T == {i \in Nat : ~ \E f : IsCopyLoop(f, start, pte, i)}
<1>. SUFFICES ASSUME T # {} PROVE FALSE
  OBVIOUS
<1>1. PICK i \in T : \A l \in T : i <= l
  <2>1. T \subseteq Nat
    OBVIOUS
  <2>. HIDE DEF T
  <2>. QED
    BY <2>1, LeastNat
<1>2. i # 0
  <2>1. PICK f : f = [v \in 0 .. 0 |-> start]
    OBVIOUS
  <2>2. f[0] = start /\ f = [v \in 0 .. 0 |-> f[v]]
    BY <2>1
  <2>3. IsCopyLoop(f, start, pte, 0)
    BY <2>2 DEF IsCopyLoop
  <2>. QED
    BY <2>3
<1>3. i \in Nat /\ i - 1 \in Nat /\ i - 1 \notin T
  BY <1>1, <1>2
<1>4. PICK f : IsCopyLoop(f, start, pte, i - 1)
  BY <1>3
<1>. DEFINE g == [v \in 0 .. i |-> IF v = i THEN CopyStep(pte, f[i - 1], i - 1) ELSE f[v]]
<1>5. IsCopyLoop(g, start, pte, i)
  <2>1. g = [v \in 0 .. i |-> g[v]]
    OBVIOUS
  <2>2. g[0] = start
    BY <1>2, <1>3, <1>4 DEF IsCopyLoop
  <2>3. ASSUME NEW v \in 1 .. i PROVE g[v] = CopyStep(pte, g[v-1], v - 1)
    <3>1. v - 1 \in 0 .. i /\ v - 1 # i /\ v \in 0 .. i
      BY <1>3
    <3>2. g[v-1] = f[v-1]
      BY <3>1
    <3>3. CASE v = i
      BY <3>1, <3>2, <3>3
    <3>4. CASE v # i
      <4>1. v \in 1 .. (i - 1)
        BY <1>3, <3>4
      <4>2. f[v] = CopyStep(pte, f[v-1], v - 1)
        BY <1>4, <4>1 DEF IsCopyLoop
      <4>. QED
        BY <3>1, <3>2, <3>4, <4>2
    <3>. QED
      BY <3>3, <3>4
  <2>. HIDE DEF g
  <2>. QED
    BY <2>1, <2>2, <2>3 DEF IsCopyLoop
<1>. QED
  BY <1>1, <1>3, <1>5

LEMMA CopyPagesIsLoop ==
    ASSUME NEW start, NEW pte
    PROVE  \E f : IsCopyLoop(f, start, pte, NPages) /\ CopyPages(start, pte) = f[NPages]
<1>. DEFINE Body(f) == [v \in 0 .. NPages |->
                            IF v = 0 THEN start
                            ELSE IF pte[v-1] = Null THEN f[v-1]
                            ELSE CopyPage(f[v-1], v - 1)]
            c == CHOOSE f : f = Body(f)
<1>0. NPages \in Nat
  BY MemoryAssumption
<1>1. CopyPages(start, pte) = c[NPages]
  BY DEF CopyPages
<1>2. PICK g : IsCopyLoop(g, start, pte, NPages)
  BY <1>0, CopyLoopExists
<1>3. g = Body(g)
  <2>1. ASSUME NEW v \in 0 .. NPages PROVE g[v] = Body(g)[v]
    <3>1. v = 0 \/ v \in 1 .. NPages
      BY <1>0
    <3>. QED
      BY <1>2, <3>1 DEF IsCopyLoop, CopyStep
  <2>2. g = [v \in 0 .. NPages |-> g[v]]
    BY <1>2 DEF IsCopyLoop
  <2>. QED
    BY <2>1, <2>2
<1>4. c = Body(c)
  BY <1>3
<1>5. ASSUME NEW f, f = Body(f)
      PROVE  IsCopyLoop(f, start, pte, NPages)
  <2>1. f = [v \in 0 .. NPages |-> f[v]]
    BY <1>5
  <2>2. f[0] = start
    <3>1. 0 \in 0 .. NPages
      BY <1>0
    <3>2. f[0] = Body(f)[0]
      BY <1>5
    <3>. QED
      BY <3>1, <3>2
  <2>3. ASSUME NEW v \in 1 .. NPages PROVE f[v] = CopyStep(pte, f[v-1], v - 1)
    <3>1. v \in 0 .. NPages /\ v # 0
      BY <1>0
    <3>2. f[v] = Body(f)[v]
      BY <1>5
    <3>. QED
      BY <3>1, <3>2 DEF CopyStep
  <2>. QED
    BY <2>1, <2>2, <2>3 DEF IsCopyLoop
<1>6. IsCopyLoop(c, start, pte, NPages)
  BY <1>4, <1>5
<1>. QED
  BY <1>1, <1>6

LEMMA CopyPagesGood ==
    ASSUME NEW m, NEW R, Good(m, R), \A v \in Pages : m.pte[v] = Null, NEW pte,
           NEW r, r = CopyPages(m, pte)
    PROVE  CopyRun(m, R, pte, NPages, r)
<1>1. PICK f : IsCopyLoop(f, m, pte, NPages) /\ r = f[NPages]
  BY CopyPagesIsLoop
<1>. DEFINE T == {i \in 0 .. NPages : ~CopyRun(m, R, pte, i, f[i])}
<1>0. NPages \in Nat
  BY MemoryAssumption
<1>2. T = {}
  <2>. SUFFICES ASSUME T # {} PROVE FALSE
    OBVIOUS
  <2>1. PICK i \in T : \A l \in T : i <= l
    <3>1. T \subseteq Nat
      BY <1>0
    <3>. HIDE DEF T
    <3>. QED
      BY <3>1, LeastNat
  <2>2. i # 0
    <3>1. f[0] = m
      BY <1>1 DEF IsCopyLoop
    <3>2. 0 .. (0 - 1) = {}
      OBVIOUS
    <3>3. CopyRun(m, R, pte, 0, m)
      BY <3>2 DEF CopyRun
    <3>. QED
      BY <3>1, <3>3
  <2>3. PICK j \in Nat : j = i - 1
    BY <1>0, <2>1, <2>2
  <2>4. j \in 0 .. NPages /\ j \notin T /\ i = j + 1 /\ i \in 1 .. NPages /\ i - 1 = j
    BY <1>0, <2>1, <2>2, <2>3
  <2>5. CopyRun(m, R, pte, j, f[j])
    BY <2>4
  <2>6. f[i] = CopyStep(pte, f[i-1], i - 1)
    BY <1>1, <2>4 DEF IsCopyLoop
  <2>7. f[i] = CopyStep(pte, f[j], j)
    BY <2>4, <2>6
  <2>8. j \in Pages
    BY <1>0, <2>3, <2>4 DEF Pages
  <2>9. CopyRun(m, R, pte, j + 1, f[i])
    BY <2>5, <2>7, <2>8, CopyPageStep
  <2>. QED
    BY <2>1, <2>4, <2>9
<1>3. NPages \in 0 .. NPages
  BY <1>0
<1>. QED
  BY <1>1, <1>2, <1>3

-------------------------------------------------------------------------------
(* The inductive invariant.                                                    *)

\* The frames of a process.
Own(p) ==
    {f \in Blocks \ {Null, Trampoline} :
        \/ f = page_directory[p]
        \/ \E t \in Tables : f = tables[p][t]
        \/ \E v \in Pages : f = ptes[p][v]}

\* Every frame of a process is marked used, is none of the kernel's, and belongs to that
\* process alone, in one place; a process without a directory has none.
SpaceInv ==
    /\ memory_map \subseteq Blocks /\ Kernel \subseteq memory_map
    /\ used_blocks = Cardinality(memory_map)
    /\ page_directory \in [Pcbs -> Blocks]
    /\ tables \in [Pcbs -> [Tables -> Blocks]]
    /\ ptes \in [Pcbs -> [Pages -> Blocks]]
    /\ \A p \in Pcbs : /\ Distinct(Memory(p))
                       /\ Own(p) \subseteq memory_map \ Kernel
                       /\ page_directory[p] = Null => Own(p) = {}
    /\ \A p, q \in Pcbs : p # q => Own(p) \cap Own(q) = {}

HeapInv ==
    /\ heap \in [Pcbs -> [start : Nat, end : Nat, max : Nat]]
    /\ running \subseteq Live
    /\ HeapMapped

LoaderType ==
    loader \in [pc : {"idle", "find", "take", "map", "link", "read", "start"},
                proc : Pcbs \cup {Null}, image : Images \cup {<<>>}, seg : Nat, page : Nat,
                frame : Blocks, found : Blocks]

\* The process being loaded has a directory and no thread. What the loader is about to take
\* is still free, because nothing comes in between; what it has taken is nobody's yet.
LoaderInv ==
    /\ LoaderType
    /\ paging_map_depth = IF loader.pc = "link" THEN 1 ELSE 0
    /\ loader.pc # "idle" =>
          /\ loader.proc \in Live \ running
          /\ loader.image \in Images /\ loader.seg \in 1 .. Len(loader.image)
    /\ loader.pc = "take" => loader.frame \in Blocks \ memory_map
    /\ loader.pc \in {"map", "link"} =>
          loader.frame \in memory_map \ Kernel /\ \A p \in Pcbs : loader.frame \notin Own(p)
    /\ loader.pc = "link" =>
          /\ loader.found \in Blocks \ memory_map
          /\ loader.page \in Pages /\ tables[loader.proc][TableOf(loader.page)] = Null
    /\ loader.pc = "start" => heap[loader.proc].start = heap[loader.proc].end

MemoryInv == SpaceInv /\ HeapInv /\ LoaderInv

-------------------------------------------------------------------------------
(* Storing an address space.                                                   *)

LEMMA MemoryGood ==
    ASSUME SpaceInv, NEW p \in Pcbs, NEW m, m = Memory(p)
    PROVE  /\ Good(m, memory_map \ Own(p)) /\ Mine(m) = Own(p) /\ m \in Space
           /\ m.dir = page_directory[p] /\ m.tab = tables[p] /\ m.pte = ptes[p]
           /\ m.ok /\ m.done = {}
<1>1. /\ m.map = memory_map /\ m.count = used_blocks
      /\ m.dir = page_directory[p] /\ m.tab = tables[p] /\ m.pte = ptes[p]
      /\ m.ok = TRUE /\ m.done = {}
  BY DEF Memory
<1>2. Mine(m) = Own(p)
  BY <1>1 DEF Mine, Own
<1>3. m \in Space
  <2>1. used_blocks \in Nat
    BY BlockFacts DEF SpaceInv
  <2>2. /\ memory_map \in SUBSET Blocks /\ page_directory[p] \in Blocks
        /\ tables[p] \in [Tables -> Blocks] /\ ptes[p] \in [Pages -> Blocks]
    BY DEF SpaceInv
  <2>. QED
    BY <2>1, <2>2 DEF Memory, Space
<1>4. Own(p) \subseteq memory_map \ Kernel /\ Kernel \subseteq memory_map
  BY DEF SpaceInv
<1>5. Distinct(m) /\ m.count = Cardinality(m.map)
  BY <1>1 DEF SpaceInv
<1>6. Good(m, memory_map \ Own(p))
  BY <1>1, <1>2, <1>3, <1>4, <1>5 DEF Good
<1>. QED
  BY <1>1, <1>2, <1>3, <1>6

LEMMA EmptyGood ==
    ASSUME SpaceInv, NEW p \in Pcbs, p \notin Live, NEW m, m = EmptySpace(p)
    PROVE  /\ Good(m, memory_map) /\ Own(p) = {}
           /\ m.dir = Null /\ m.tab = NoTables /\ m.pte = Unmapped /\ m.ok
<1>1. Own(p) = {}
  BY DEF Live, SpaceInv
<1>2. PICK k : k = Memory(p)
  OBVIOUS
<1>3. Good(k, memory_map \ Own(p)) /\ k \in Space /\ k.ok
  BY <1>2, MemoryGood
<1>4. m = [k EXCEPT !.tab = NoTables, !.pte = Unmapped, !.dir = Null]
  BY <1>2 DEF EmptySpace
<1>5. NoTables \in [Tables -> Blocks] /\ Unmapped \in [Pages -> Blocks] /\ Null \in Blocks
  BY BlockFacts DEF NoTables, Unmapped
<1>6. /\ m \in Space /\ m.map = k.map /\ m.count = k.count /\ m.dir = Null /\ m.tab = NoTables
      /\ m.pte = Unmapped /\ m.ok
  BY <1>3, <1>4, <1>5 DEF Space
<1>7. Mine(m) = {}
  BY <1>6 DEF Mine, NoTables, Unmapped
<1>8. Distinct(m)
  BY <1>6 DEF Distinct, NoTables, Unmapped
<1>9. k.map = memory_map /\ k.count = Cardinality(k.map) /\ Kernel \subseteq memory_map
  BY <1>2, <1>3 DEF Memory, Good
<1>. QED
  BY <1>1, <1>6, <1>7, <1>8, <1>9 DEF Good

\* p's address space is m afterwards; R is what m does not own.
Stored(p, m, R) ==
    /\ SpaceInv'
    /\ Own(p)' = Mine(m) /\ \A q \in Pcbs \ {p} : Own(q)' = Own(q)
    /\ memory_map' = R \cup Mine(m) /\ R \cap Mine(m) = {}
    /\ page_directory'[p] = m.dir /\ ptes'[p] = m.pte /\ tables'[p] = m.tab
    /\ \A q \in Pcbs \ {p} : /\ page_directory'[q] = page_directory[q]
                             /\ ptes'[q] = ptes[q] /\ tables'[q] = tables[q]
    /\ Live' = IF m.dir = Null THEN Live \ {p} ELSE Live \cup {p}

LEMMA StoreBeside ==
    ASSUME SpaceInv, NEW p \in Pcbs, NEW m, NEW R, Good(m, R),
           \A q \in Pcbs \ {p} : Own(q) \subseteq R,
           m.dir = Null => Mine(m) = {}, Store(p, m)
    PROVE  Stored(p, m, R)
<1>1. /\ m \in Space /\ Kernel \subseteq R /\ m.map = R \cup Mine(m) /\ R \cap Mine(m) = {}
      /\ m.count = Cardinality(m.map) /\ Distinct(m)
  BY DEF Good
<1>2. /\ m.map \in SUBSET Blocks /\ m.dir \in Blocks /\ m.tab \in [Tables -> Blocks]
      /\ m.pte \in [Pages -> Blocks]
  BY <1>1 DEF Space
<1>3. /\ memory_map' = m.map /\ used_blocks' = m.count
      /\ page_directory' \in [Pcbs -> Blocks] /\ tables' \in [Pcbs -> [Tables -> Blocks]]
      /\ ptes' \in [Pcbs -> [Pages -> Blocks]]
      /\ page_directory'[p] = m.dir /\ ptes'[p] = m.pte /\ tables'[p] = m.tab
      /\ \A q \in Pcbs \ {p} : /\ page_directory'[q] = page_directory[q]
                               /\ ptes'[q] = ptes[q] /\ tables'[q] = tables[q]
  BY <1>2 DEF Store, SpaceInv
<1>4. Own(p)' = Mine(m)
  BY <1>3 DEF Own, Mine
<1>5. ASSUME NEW q \in Pcbs \ {p} PROVE Own(q)' = Own(q)
  BY <1>3 DEF Own
<1>6. Distinct(Memory(p))'
  <2>1. /\ (Memory(p).dir)' = m.dir /\ (Memory(p).tab)' = m.tab /\ (Memory(p).pte)' = m.pte
    BY <1>3 DEF Memory
  <2>. QED
    BY <1>1, <2>1 DEF Distinct
<1>7. ASSUME NEW q \in Pcbs \ {p} PROVE Distinct(Memory(q))'
  <2>1. /\ (Memory(q).dir)' = Memory(q).dir /\ (Memory(q).tab)' = Memory(q).tab
        /\ (Memory(q).pte)' = Memory(q).pte
    BY <1>3 DEF Memory
  <2>2. Distinct(Memory(q))
    BY DEF SpaceInv
  <2>. QED
    BY <2>1, <2>2 DEF Distinct
<1>8. ASSUME NEW q \in Pcbs \ {p} PROVE Own(q) \subseteq R \ Kernel
  <2>1. Own(q) \subseteq memory_map \ Kernel /\ Own(q) \subseteq R
    BY DEF SpaceInv
  <2>. QED
    BY <2>1
<1>9. Mine(m) \subseteq m.map \ Kernel
  BY <1>1
<1>10. ASSUME NEW q \in Pcbs
       PROVE  /\ Distinct(Memory(q))' /\ Own(q)' \subseteq memory_map' \ Kernel
              /\ page_directory'[q] = Null => Own(q)' = {}
  <2>1. CASE q = p
    BY <1>3, <1>4, <1>6, <1>9, <2>1
  <2>2. CASE q # p
    <3>1. page_directory[q] = Null => Own(q) = {}
      BY DEF SpaceInv
    <3>. QED
      BY <1>1, <1>3, <1>5, <1>7, <1>8, <2>2, <3>1
  <2>. QED
    BY <2>1, <2>2
<1>11. ASSUME NEW q \in Pcbs, NEW s \in Pcbs, q # s PROVE Own(q)' \cap Own(s)' = {}
  <2>1. CASE q = p
    BY <1>1, <1>4, <1>5, <1>8, <1>11, <2>1
  <2>2. CASE s = p
    BY <1>1, <1>4, <1>5, <1>8, <1>11, <2>2
  <2>3. CASE q # p /\ s # p
    <3>1. Own(q) \cap Own(s) = {}
      BY <1>11 DEF SpaceInv
    <3>. QED
      BY <1>5, <2>3, <3>1
  <2>. QED
    BY <2>1, <2>2, <2>3
<1>12. SpaceInv'
  BY <1>1, <1>2, <1>3, <1>10, <1>11 DEF SpaceInv
<1>13. Live' = IF m.dir = Null THEN Live \ {p} ELSE Live \cup {p}
  BY <1>3 DEF Live
<1>. QED
  BY <1>1, <1>3, <1>4, <1>5, <1>12, <1>13 DEF Stored

LEMMA StoreStep ==
    ASSUME SpaceInv, NEW p \in Pcbs, NEW m, NEW R, Good(m, R), memory_map \ Own(p) \subseteq R,
           m.dir = Null => Mine(m) = {}, Store(p, m)
    PROVE  Stored(p, m, R)
<1>1. \A q \in Pcbs \ {p} : Own(q) \subseteq memory_map /\ Own(q) \cap Own(p) = {}
  BY DEF SpaceInv
<1>2. \A q \in Pcbs \ {p} : Own(q) \subseteq R
  BY <1>1
<1>. QED
  BY <1>2, StoreBeside

\* What the loader has taken and not mapped, and what nobody has.
Held == IF loader.pc \in {"map", "link"} THEN {loader.frame} ELSE {}
Strays == {f \in memory_map \ Kernel : f \notin Held /\ \A p \in Pcbs : f \notin Own(p)}

\* What FailedBrkUndone says of a step.
Undone ==
    \A p \in running \cap running' : heap'[p].end = heap[p].end => ptes'[p] = ptes[p]

\* What is shown of every step.
Kept == MemoryInv' /\ Strays' \subseteq Strays \cup Droppable /\ Undone

LEMMA StoredStrays ==
    ASSUME NEW p \in Pcbs, NEW m, NEW R, R \subseteq memory_map \ Own(p), Stored(p, m, R), Held = {}
    PROVE  Strays' \subseteq Strays
<1>. SUFFICES ASSUME NEW f \in Strays' PROVE f \in Strays
  OBVIOUS
<1>1. f \in memory_map' /\ f \notin Kernel /\ \A q \in Pcbs : f \notin Own(q)'
  BY DEF Strays
<1>2. f \notin Mine(m) /\ f \in R
  BY <1>1 DEF Stored
<1>3. \A q \in Pcbs \ {p} : f \notin Own(q)
  BY <1>1 DEF Stored
<1>4. f \in memory_map /\ f \notin Own(p)
  BY <1>2
<1>. QED
  BY <1>1, <1>3, <1>4 DEF Strays

-------------------------------------------------------------------------------
(* The calls of a running process.                                             *)

LEMMA BreakBounds ==
    ASSUME NEW old \in Nat, NEW brk \in 1 .. NPages * PageSize, brk > old
    PROVE  /\ BrkStart(old) \in Nat /\ RoundUp(brk) \in Nat /\ BrkStart(old) <= RoundUp(brk)
           /\ RoundUp(brk) <= NPages /\ NPages \in Nat
           /\ \A v \in Nat : /\ v * PageSize >= old => v >= BrkStart(old)
                             /\ v * PageSize < brk => v <= RoundUp(brk) - 1
<1>1. NPages \in Nat
  BY MemoryAssumption
<1>. QED
  BY <1>1 DEF BrkStart, RoundUp, PageSize

\* Between loads nothing is asked of the loader.
LEMMA Idle ==
    ASSUME LoaderInv, loader.pc = "idle", loader' = loader, paging_map_depth' = paging_map_depth
    PROVE  LoaderInv' /\ Held = {}
<1>1. LoaderType' /\ loader'.pc = "idle"
  BY DEF LoaderInv, LoaderType
<1>. QED
  BY <1>1 DEF LoaderInv, Held

LEMMA BrkKept ==
    ASSUME MemoryInv, ~Preemptible, NEW p \in Pcbs, NEW brk \in 1 .. NPages * PageSize, Brk(p, brk)
    PROVE  Kept
<1>1. /\ SpaceInv /\ LoaderInv
      /\ heap \in [Pcbs -> [start : Nat, end : Nat, max : Nat]] /\ running \subseteq Live
      /\ HeapMapped
  BY DEF MemoryInv, HeapInv
<1>2. PICK m : m = Memory(p)
  OBVIOUS
<1>3. PICK r : r = BrkPages(m, BrkStart(heap[p].end), RoundUp(brk))
  OBVIOUS
<1>4. /\ loader.pc = "idle" /\ p \in running /\ brk > heap[p].end
      /\ \/ r.ok  /\ Store(p, r) /\ heap' = [heap EXCEPT ![p].end = brk]
         \/ ~r.ok /\ Store(p, BrkRollback(r)) /\ heap' = heap
      /\ running' = running /\ paging_map_depth' = paging_map_depth /\ loader' = loader
  BY <1>2, <1>3 DEF Brk, CpuFree
<1>5. PICK R : R = memory_map \ Own(p)
  OBVIOUS
<1>6. /\ Good(m, R) /\ m \in Space /\ m.dir = page_directory[p] /\ m.pte = ptes[p]
      /\ m.done = {}
  BY <1>1, <1>2, <1>5, MemoryGood
<1>7. PICK first \in Nat, last \in Nat : first = BrkStart(heap[p].end) /\ last = RoundUp(brk)
  BY <1>1, <1>4, BreakBounds
<1>8. /\ heap[p].end \in Nat /\ heap[p].start \in Nat
      /\ first <= last /\ last <= NPages
      /\ \A v \in Nat : /\ v * PageSize >= heap[p].end => v >= first
                        /\ v * PageSize < brk => v <= last - 1
  BY <1>1, <1>4, <1>7, BreakBounds
<1>9. BrkRun(m, R, first, last, r)
  BY <1>3, <1>6, <1>7, <1>8, BrkPagesGood
<1>10. page_directory[p] # Null /\ p \in Live
  BY <1>1, <1>4 DEF Live
<1>11. LoaderInv' /\ Held = {}
  BY <1>1, <1>4, Idle
<1>12. R \subseteq memory_map \ Own(p) /\ memory_map \ Own(p) \subseteq R
  BY <1>5
<1>13. Pages \subseteq Nat
  BY MemoryAssumption DEF Pages
<1>14. CASE r.ok /\ Store(p, r) /\ heap' = [heap EXCEPT ![p].end = brk]
  <2>1. Good(r, R) /\ r.dir # Null
    BY <1>6, <1>9, <1>10 DEF BrkRun
  <2>2. Stored(p, r, R)
    BY <1>1, <1>12, <1>14, <2>1, StoreStep
  <2>3. Live' = Live
    BY <1>10, <2>1, <2>2 DEF Stored
  <2>4. /\ heap' \in [Pcbs -> [start : Nat, end : Nat, max : Nat]]
        /\ heap'[p].end = brk /\ heap'[p].start = heap[p].start
        /\ \A q \in Pcbs \ {p} : heap'[q] = heap[q]
    BY <1>1, <1>14
  <2>5. HeapMapped'
    <3>. SUFFICES ASSUME NEW q \in running', NEW v \in Pages,
                         v * PageSize >= heap'[q].start, v * PageSize < heap'[q].end
                  PROVE  ptes'[q][v] # Null
      BY DEF HeapMapped
    <3>0. q \in Pcbs /\ q \in running
      BY <1>1, <1>4 DEF Live
    <3>1. CASE q # p
      BY <1>1, <2>2, <2>4, <3>0, <3>1 DEF HeapMapped, Stored
    <3>2. CASE q = p
      <4>1. ptes'[q] = r.pte /\ v \in Nat
        BY <1>13, <2>2, <3>2 DEF Stored
      <4>2. CASE v * PageSize < heap[p].end
        <5>1. m.pte[v] # Null
          BY <1>1, <1>4, <1>6, <2>4, <3>2, <4>2 DEF HeapMapped
        <5>2. r.pte[v] # Null
          BY <1>9, <5>1 DEF BrkRun
        <5>. QED
          BY <4>1, <5>2
      <4>3. CASE ~(v * PageSize < heap[p].end)
        <5>1. v * PageSize >= heap[p].end
          BY <1>8, <4>1, <4>3 DEF PageSize
        <5>2. v \in first .. (last - 1)
          BY <1>8, <2>4, <3>2, <4>1, <5>1
        <5>3. r.pte[v] # Null
          BY <1>9, <1>14, <5>2 DEF BrkRun
        <5>. QED
          BY <4>1, <5>3
      <4>. QED
        BY <4>2, <4>3
    <3>. QED
      BY <3>1, <3>2
  <2>6. HeapInv'
    BY <1>1, <1>4, <2>3, <2>4, <2>5 DEF HeapInv
  <2>7. Undone
    <3>1. heap'[p].end # heap[p].end
      BY <1>4, <1>8, <2>4
    <3>. QED
      BY <1>1, <2>2, <3>1 DEF Undone, Stored, Live
  <2>8. Strays' \subseteq Strays
    BY <1>11, <1>12, <2>2, StoredStrays
  <2>9. SpaceInv'
    BY <2>2 DEF Stored
  <2>. QED
    BY <1>11, <2>6, <2>7, <2>8, <2>9 DEF Kept, MemoryInv
<1>15. CASE ~r.ok /\ Store(p, BrkRollback(r)) /\ heap' = heap
  <2>0. PICK n : n = BrkRollback(r)
    OBVIOUS
  <2>1. Good(n, R) /\ n.dir = m.dir /\ n.pte = m.pte
    BY <1>6, <1>9, <2>0, RollbackGood
  <2>2. Stored(p, n, R)
    <3>1. n.dir # Null /\ Store(p, n)
      BY <1>6, <1>10, <1>15, <2>0, <2>1
    <3>. QED
      BY <1>1, <1>12, <2>1, <3>1, StoreStep
  <2>3. Live' = Live
    BY <1>6, <1>10, <2>1, <2>2 DEF Stored
  <2>4. \A q \in Pcbs : ptes'[q] = ptes[q]
    BY <1>6, <2>1, <2>2 DEF Stored
  <2>5. HeapMapped'
    BY <1>1, <1>4, <1>15, <2>4 DEF HeapMapped, Live
  <2>6. HeapInv'
    BY <1>1, <1>4, <1>15, <2>3, <2>5 DEF HeapInv
  <2>7. Undone
    BY <1>1, <2>4 DEF Undone, Live
  <2>8. Strays' \subseteq Strays
    BY <1>11, <1>12, <2>2, StoredStrays
  <2>9. SpaceInv'
    BY <2>2 DEF Stored
  <2>. QED
    BY <1>11, <2>6, <2>7, <2>8, <2>9 DEF Kept, MemoryInv
<1>. QED
  BY <1>4, <1>14, <1>15

\* KillProcess(): all the frames of the process go back.
LEMMA KillStep ==
    ASSUME SpaceInv, HeapInv, NEW p \in Pcbs, Kill(p)
    PROVE  /\ SpaceInv' /\ HeapInv' /\ Own(p)' = {}
           /\ \A q \in Pcbs \ {p} : Own(q)' = Own(q)
           /\ memory_map' = memory_map \ Own(p) /\ Live' = Live \ {p}
           /\ Undone
<1>1. PICK m : m = Memory(p)
  OBVIOUS
<1>2. PICK n : n = FreeAddressSpace(m)
  OBVIOUS
<1>3. PICK R : R = memory_map \ Own(p)
  OBVIOUS
<1>4. /\ Good(n, R) /\ Mine(n) = {} /\ n.dir = Null
  BY <1>1, <1>2, <1>3, MemoryGood, SweepGood
<1>5. /\ Store(p, n) /\ heap' = [heap EXCEPT ![p] = NoHeap] /\ running' = running \ {p}
  BY <1>1, <1>2 DEF Kill
<1>6. memory_map \ Own(p) \subseteq R
  BY <1>3
<1>7. Stored(p, n, R)
  BY <1>4, <1>5, <1>6, StoreStep
<1>8. /\ heap \in [Pcbs -> [start : Nat, end : Nat, max : Nat]] /\ running \subseteq Live
      /\ HeapMapped
  BY DEF HeapInv
<1>9. NoHeap \in [start : Nat, end : Nat, max : Nat]
  BY DEF NoHeap
<1>10. /\ heap' \in [Pcbs -> [start : Nat, end : Nat, max : Nat]]
       /\ \A q \in Pcbs \ {p} : heap'[q] = heap[q]
  BY <1>5, <1>8, <1>9
<1>11. Live' = Live \ {p} /\ running' \subseteq Live' /\ Live \subseteq Pcbs
  BY <1>4, <1>5, <1>7, <1>8 DEF Stored, Live
<1>12. \A q \in running' : /\ q \in Pcbs \ {p} /\ q \in running
                           /\ ptes'[q] = ptes[q] /\ heap'[q] = heap[q]
  BY <1>5, <1>7, <1>8, <1>10, <1>11 DEF Stored
<1>13. HeapMapped' /\ Undone
  BY <1>8, <1>12 DEF HeapMapped, Undone
<1>14. memory_map' = memory_map \ Own(p)
  BY <1>3, <1>4, <1>7 DEF Stored
<1>. QED
  BY <1>4, <1>7, <1>10, <1>11, <1>13, <1>14 DEF Stored, HeapInv

LEMMA ExitKept ==
    ASSUME MemoryInv, ~Preemptible, NEW p \in Pcbs, Exit(p)
    PROVE  Kept
<1>1. loader.pc = "idle" /\ Kill(p) /\ loader' = loader /\ paging_map_depth' = paging_map_depth
  BY DEF Exit, CpuFree
<1>2. SpaceInv /\ HeapInv /\ LoaderInv
  BY DEF MemoryInv
<1>3. LoaderInv' /\ Held = {}
  BY <1>1, <1>2, Idle
<1>4. /\ SpaceInv' /\ HeapInv' /\ Own(p)' = {}
      /\ \A q \in Pcbs \ {p} : Own(q)' = Own(q)
      /\ memory_map' = memory_map \ Own(p)
      /\ Undone
  BY <1>1, <1>2, KillStep
<1>5. Strays' \subseteq Strays
  <2>. SUFFICES ASSUME NEW f \in Strays' PROVE f \in Strays
    OBVIOUS
  <2>1. f \in memory_map' /\ f \notin Kernel /\ \A q \in Pcbs : f \notin Own(q)'
    BY DEF Strays
  <2>. QED
    BY <1>3, <1>4, <2>1 DEF Strays
<1>. QED
  BY <1>3, <1>4, <1>5 DEF Kept, MemoryInv

LEMMA ForkKept ==
    ASSUME MemoryInv, ~Preemptible, NEW p \in Pcbs, NEW child \in Pcbs, NEW threadFails,
           ForkSpace(p, child, threadFails)
    PROVE  Kept
<1>1. /\ SpaceInv /\ LoaderInv
      /\ heap \in [Pcbs -> [start : Nat, end : Nat, max : Nat]] /\ running \subseteq Live
      /\ HeapMapped
  BY DEF MemoryInv, HeapInv
<1>2. PICK e : e = EmptySpace(child)
  OBVIOUS
<1>3. PICK d : d = CreateProcessDirectory(e)
  OBVIOUS
<1>4. PICK m : m = CopyPages(d, ptes[p])
  OBVIOUS
<1>5. /\ loader.pc = "idle" /\ p \in running /\ child \notin Live
      /\ \/ /\ m.ok /\ Store(child, m)
            /\ heap' = [heap EXCEPT ![child] = heap[p]]
            /\ running' = running \cup {child}
         \/ /\ Store(child, FreeAddressSpace(m))
            /\ heap' = heap /\ running' = running
      /\ paging_map_depth' = paging_map_depth /\ loader' = loader
  BY <1>2, <1>3, <1>4 DEF ForkSpace, CpuFree
<1>6. /\ Good(e, memory_map) /\ Own(child) = {}
      /\ e.dir = Null /\ e.pte = Unmapped /\ e.ok
  BY <1>1, <1>2, <1>5, EmptyGood
<1>7. /\ Good(d, memory_map) /\ d.pte = Unmapped
      /\ d.ok => d.dir # Null
  BY <1>3, <1>6, DirectoryGood
<1>8. \A v \in Pages : d.pte[v] = Null
  BY <1>7 DEF Unmapped
<1>9. CopyRun(d, memory_map, ptes[p], NPages, m)
  BY <1>4, <1>7, <1>8, CopyPagesGood
<1>10. Good(m, memory_map) /\ m.dir = d.dir /\ (m.ok => d.ok)
  BY <1>9 DEF CopyRun
<1>11. LoaderInv' /\ Held = {}
  BY <1>1, <1>5, Idle
<1>12. /\ memory_map \subseteq memory_map \ Own(child)
       /\ memory_map \ Own(child) \subseteq memory_map
  BY <1>6
<1>13. p \in Pcbs \ {child} /\ running \subseteq Pcbs \ {child}
  BY <1>1, <1>5 DEF Live
<1>14. CASE /\ m.ok /\ Store(child, m)
            /\ heap' = [heap EXCEPT ![child] = heap[p]]
            /\ running' = running \cup {child}
  <2>1. m.dir # Null
    BY <1>7, <1>10, <1>14
  <2>2. Stored(child, m, memory_map)
    BY <1>1, <1>10, <1>12, <1>14, <2>1, StoreStep
  <2>3. Live' = Live \cup {child}
    BY <2>1, <2>2 DEF Stored
  <2>4. /\ heap' \in [Pcbs -> [start : Nat, end : Nat, max : Nat]]
        /\ heap'[child] = heap[p]
        /\ \A q \in Pcbs \ {child} : heap'[q] = heap[q] /\ ptes'[q] = ptes[q]
    BY <1>1, <1>14, <2>2 DEF Stored
  <2>5. HeapMapped'
    <3>. SUFFICES ASSUME NEW q \in running', NEW v \in Pages,
                         v * PageSize >= heap'[q].start, v * PageSize < heap'[q].end
                  PROVE  ptes'[q][v] # Null
      BY DEF HeapMapped
    <3>1. CASE q # child
      BY <1>1, <1>13, <1>14, <2>4, <3>1 DEF HeapMapped
    <3>2. CASE q = child
      <4>1. ptes[p][v] # Null
        BY <1>1, <1>5, <2>4, <3>2 DEF HeapMapped
      <4>2. v \in 0 .. (NPages - 1)
        BY DEF Pages
      <4>3. m.pte[v] # Null
        BY <1>9, <1>14, <4>1, <4>2 DEF CopyRun
      <4>. QED
        BY <2>2, <3>2, <4>3 DEF Stored
    <3>. QED
      BY <3>1, <3>2
  <2>6. HeapInv'
    BY <1>1, <1>14, <2>3, <2>4, <2>5 DEF HeapInv
  <2>7. Undone
    BY <1>13, <2>4 DEF Undone
  <2>8. Strays' \subseteq Strays
    BY <1>11, <1>12, <2>2, StoredStrays
  <2>. QED
    BY <1>11, <2>2, <2>6, <2>7, <2>8 DEF Kept, MemoryInv, Stored
<1>15. CASE /\ Store(child, FreeAddressSpace(m))
            /\ heap' = heap /\ running' = running
  <2>0. PICK n : n = FreeAddressSpace(m)
    OBVIOUS
  <2>1. Good(n, memory_map) /\ Mine(n) = {} /\ n.dir = Null
    BY <1>10, <2>0, SweepGood
  <2>2. Stored(child, n, memory_map)
    BY <1>1, <1>12, <1>15, <2>0, <2>1, StoreStep
  <2>3. Live' = Live
    BY <1>5, <2>1, <2>2 DEF Stored
  <2>4. \A q \in Pcbs \ {child} : ptes'[q] = ptes[q]
    BY <2>2 DEF Stored
  <2>5. HeapMapped'
    BY <1>1, <1>13, <1>15, <2>4 DEF HeapMapped
  <2>6. HeapInv'
    BY <1>1, <1>15, <2>3, <2>5 DEF HeapInv
  <2>7. Undone
    BY <1>13, <2>4 DEF Undone
  <2>8. Strays' \subseteq Strays
    BY <1>11, <1>12, <2>2, StoredStrays
  <2>. QED
    BY <1>11, <2>2, <2>6, <2>7, <2>8 DEF Kept, MemoryInv, Stored
<1>. QED
  BY <1>5, <1>14, <1>15

-------------------------------------------------------------------------------
(* The loader.                                                                 *)

\* Finitely many numbers have a largest one.
LEMMA MaxOfValues ==
    ASSUME NEW N \in Nat \ {0}, NEW g \in [1 .. N -> Nat]
    PROVE  \E i \in 1 .. N : \A k \in 1 .. N : g[i] >= g[k]
<1>. DEFINE T == {n \in 1 .. N : ~ \E i \in 1 .. n : \A k \in 1 .. n : g[i] >= g[k]}
<1>1. T = {}
  <2>. SUFFICES ASSUME T # {} PROVE FALSE
    OBVIOUS
  <2>1. PICK n \in T : \A l \in T : n <= l
    <3>1. T \subseteq Nat
      OBVIOUS
    <3>. HIDE DEF T
    <3>. QED
      BY <3>1, LeastNat
  <2>2. n # 1
    <3>1. \A k \in 1 .. 1 : g[1] >= g[k]
      OBVIOUS
    <3>. QED
      BY <2>1, <3>1
  <2>3. n \in 1 .. N /\ n - 1 \in 1 .. N /\ n - 1 \notin T
    <3>1. n \in 1 .. N
      BY <2>1
    <3>2. n - 1 \in 1 .. N
      BY <2>2, <3>1
    <3>. HIDE DEF T
    <3>. QED
      BY <2>1, <3>1, <3>2
  <2>4. PICK i \in 1 .. (n - 1) : \A k \in 1 .. (n - 1) : g[i] >= g[k]
    BY <2>3
  <2>5. g[i] \in Nat /\ g[n] \in Nat /\ i \in 1 .. n /\ n \in 1 .. n
    BY <2>3
  <2>6. \A k \in 1 .. n : (k = n \/ k \in 1 .. (n - 1)) /\ g[k] \in Nat
    BY <2>3
  <2>7. CASE g[i] >= g[n]
    <3>1. \A k \in 1 .. n : g[i] >= g[k]
      BY <2>4, <2>6, <2>7
    <3>. QED
      BY <2>1, <2>5, <3>1
  <2>8. CASE g[n] >= g[i]
    <3>1. ASSUME NEW k \in 1 .. n PROVE g[n] >= g[k]
      <4>1. k \in 1 .. (n - 1) => g[i] >= g[k]
        BY <2>4
      <4>2. (k = n \/ k \in 1 .. (n - 1)) /\ g[k] \in Nat
        BY <2>6
      <4>. HIDE DEF T
      <4>. QED
        BY <2>5, <2>8, <4>1, <4>2
    <3>. QED
      BY <2>1, <2>5, <3>1
  <2>. QED
    BY <2>5, <2>7, <2>8
<1>2. N \in 1 .. N
  OBVIOUS
<1>3. N \notin T
  BY <1>1
<1>. QED
  BY <1>2, <1>3

LEMMA ImageFields ==
    ASSUME NEW image \in Images
    PROVE  \E N \in Nat \ {0} : /\ Len(image) = N /\ DOMAIN image = 1 .. N
                                /\ \A i \in 1 .. N : image[i] \in Nat \X Nat
<1>1. image \in Seq(Nat \X Nat) /\ image # <<>>
  BY MemoryAssumption
<1>2. PICK N \in Nat : N = Len(image)
  BY <1>1
<1>3. DOMAIN image = 1 .. N
  BY <1>1, <1>2
<1>4. \A i \in 1 .. N : image[i] \in Nat \X Nat
  BY <1>1, <1>2
<1>5. N # 0
  BY <1>1, <1>2
<1>. QED
  BY <1>2, <1>3, <1>4, <1>5

\* A program has a last page.
LEMMA ImageFacts ==
    ASSUME NEW image \in Images
    PROVE  /\ Len(image) \in Nat \ {0}
           /\ \A i \in 1 .. Len(image) : image[i][1] \in Nat /\ image[i][2] \in Nat
           /\ LastPage(image) \in Nat
<1>1. PICK N \in Nat \ {0} : /\ Len(image) = N /\ DOMAIN image = 1 .. N
                             /\ \A i \in 1 .. N : image[i] \in Nat \X Nat
  BY ImageFields
<1>2. \A i \in 1 .. N : image[i][1] \in Nat /\ image[i][2] \in Nat
  BY <1>1
<1>3. PICK g : g = [k \in 1 .. N |-> image[k][2]]
  OBVIOUS
<1>4. g \in [1 .. N -> Nat]
  BY <1>2, <1>3
<1>5. PICK i \in 1 .. N : \A k \in 1 .. N : g[i] >= g[k]
  BY <1>4, MaxOfValues
<1>6. PICK S : S = {image[k][2] : k \in DOMAIN image}
  OBVIOUS
<1>7. \E x \in S : \A y \in S : x >= y
  BY <1>1, <1>3, <1>5, <1>6
<1>8. Max(S) \in S
  BY <1>7 DEF Max
<1>9. LastPage(image) = Max(S)
  BY <1>6 DEF LastPage
<1>. QED
  BY <1>1, <1>2, <1>6, <1>8, <1>9

\* The type of the loader's record, field by field.
LEMMA LoaderFields ==
    ASSUME LoaderType
    PROVE  /\ loader.pc \in {"idle", "find", "take", "map", "link", "read", "start"}
           /\ loader.seg \in Nat /\ loader.page \in Nat
           /\ loader.frame \in Blocks /\ loader.found \in Blocks
  BY DEF LoaderType

\* An idle loader.
LEMMA NoLoadInv ==
    ASSUME loader' = NoLoad, paging_map_depth' = 0
    PROVE  LoaderInv'
<1>1. LoaderType' /\ loader'.pc = "idle"
  BY BlockFacts DEF LoaderType, NoLoad, Null
<1>. QED
  BY <1>1 DEF LoaderInv

\* loadELF() gives up: the process is killed, the frame it holds is lost.
LEMMA CleanupKept ==
    ASSUME MemoryInv, loader.pc \notin {"idle", "link"}, Cleanup
    PROVE  Kept
<1>1. SpaceInv /\ HeapInv /\ LoaderInv
  BY DEF MemoryInv
<1>2. PICK p \in Pcbs : p = loader.proc
  BY <1>1 DEF LoaderInv, Live
<1>3. Kill(p) /\ loader' = NoLoad /\ paging_map_depth' = 0
  BY <1>1, <1>2 DEF Cleanup, LoaderInv
<1>4. LoaderInv'
  BY <1>3, NoLoadInv
<1>5. /\ SpaceInv' /\ HeapInv' /\ Own(p)' = {}
      /\ \A q \in Pcbs \ {p} : Own(q)' = Own(q)
      /\ memory_map' = memory_map \ Own(p)
      /\ Undone
  BY <1>1, <1>3, KillStep
<1>6. Strays' \subseteq Strays \cup Droppable
  <2>. SUFFICES ASSUME NEW f \in Strays' PROVE f \in Strays \cup Droppable
    OBVIOUS
  <2>1. f \in memory_map' /\ f \notin Kernel /\ \A q \in Pcbs : f \notin Own(q)'
    BY DEF Strays
  <2>2. CASE f \in Held
    BY <2>2 DEF Held, Droppable
  <2>3. CASE f \notin Held
    BY <1>5, <2>1, <2>3 DEF Strays
  <2>. QED
    BY <2>2, <2>3
<1>. QED
  BY <1>4, <1>5, <1>6 DEF Kept, MemoryInv

\* The trampoline goes into the first table of a new address space.
LEMMA TrampolineMapped ==
    ASSUME NEW m, NEW R, Good(m, R), m.tab = NoTables, m.pte = Unmapped,
           NEW n, n = MapPage(m, TrampolinePage, Trampoline), n.ok
    PROVE  Good(n, R) /\ n.dir = m.dir
<1>1. m \in Space /\ TrampolinePage \in Pages /\ Trampoline \in Blocks
  BY BlockFacts, MemoryAssumption DEF Good
<1>2. m.tab[TableOf(TrampolinePage)] = Null /\ m.pte[TrampolinePage] = Null
  BY <1>1, TableOfPage DEF NoTables, Unmapped
<1>3. MapOutcome(m, TrampolinePage, Trampoline, n)
  BY <1>1, MapPageCases
<1>4. n # [m EXCEPT !.ok = FALSE]
  BY <1>1 DEF Space
<1>5. /\ FirstFree(m) # Null
      /\ n = [Take(m, FirstFree(m)) EXCEPT !.tab[TableOf(TrampolinePage)] = FirstFree(m),
                                          !.pte[TrampolinePage] = Trampoline]
  BY <1>2, <1>3, <1>4 DEF MapOutcome
<1>6. PICK u \in Blocks \ m.map : u = FirstFree(m)
  BY <1>5, FirstFreeFacts
<1>7. PICK k : TableAdded(m, R, TrampolinePage, u, k)
  BY <1>1, <1>2, NewTable
<1>8. /\ Good(k, R) /\ k \in Space /\ k.dir = m.dir /\ k.pte = m.pte
      /\ n = [k EXCEPT !.pte[TrampolinePage] = Trampoline]
  BY <1>5, <1>6, <1>7 DEF TableAdded
<1>9. WithPage(k, n, TrampolinePage, Trampoline)
  BY <1>1, <1>8, SetPte
<1>10. k.pte[TrampolinePage] = Null
  BY <1>2, <1>8
<1>11. Good(n, R)
  BY <1>1, <1>8, <1>9, <1>10, TrampolineGood
<1>. QED
  BY <1>8, <1>9, <1>11 DEF WithPage

\* Without the trampoline the directory goes back.
LEMMA DirectoryDropped ==
    ASSUME NEW m, NEW R, Good(m, R), m.tab = NoTables, m.pte = Unmapped,
           NEW n, n = [FreeBlocks(m, {m.dir}) EXCEPT !.dir = Null]
    PROVE  Good(n, R) /\ Mine(n) = {} /\ n.dir = Null
<1>1. PICK k : k = FreeBlocks(m, {m.dir})
  OBVIOUS
<1>2. m \in Space /\ m.count = Cardinality(m.map) /\ m.dir \in Blocks
  BY DEF Good, Space
<1>3. /\ k \in Space /\ k.map = m.map \ ({m.dir} \ Kernel) /\ k.count = Cardinality(k.map)
      /\ k.tab = m.tab /\ k.pte = m.pte
  BY <1>1, <1>2, FreeFacts
<1>4. Mine(m) = {m.dir} \ Kernel
  <2>1. Mine(m) = {m.dir} \ {Null, Trampoline}
    BY <1>2 DEF Mine, NoTables, Unmapped
  <2>2. Mine(m) \cap Kernel = {}
    BY DEF Good
  <2>. QED
    BY <2>1, <2>2, BlockFacts
<1>5. k.map = R
  BY <1>3, <1>4 DEF Good
<1>6. n = [k EXCEPT !.dir = Null]
  BY <1>1
<1>7. /\ n \in Space /\ n.map = k.map /\ n.count = k.count /\ n.dir = Null /\ n.tab = NoTables
      /\ n.pte = Unmapped
  BY <1>3, <1>6, BlockFacts DEF Space
<1>8. Mine(n) = {}
  BY <1>7 DEF Mine, NoTables, Unmapped
<1>9. Distinct(n)
  BY <1>7 DEF Distinct, NoTables, Unmapped
<1>10. Kernel \subseteq R
  BY DEF Good
<1>. QED
  BY <1>3, <1>5, <1>7, <1>8, <1>9, <1>10 DEF Good

\* Heaps stay as they are mapped when a process that does not run changes.
LEMMA OthersKeepHeaps ==
    ASSUME HeapInv, NEW p \in Pcbs, p \notin running, heap' = heap, running' = running,
           running \subseteq Live', \A q \in Pcbs \ {p} : ptes'[q] = ptes[q]
    PROVE  HeapInv' /\ Undone
<1>1. /\ heap \in [Pcbs -> [start : Nat, end : Nat, max : Nat]] /\ running \subseteq Live
      /\ HeapMapped
  BY DEF HeapInv
<1>2. \A q \in running : q \in Pcbs \ {p} /\ ptes'[q] = ptes[q]
  BY <1>1 DEF Live
<1>3. HeapMapped' /\ Undone
  BY <1>1, <1>2 DEF HeapMapped, Undone
<1>. QED
  BY <1>1, <1>3 DEF HeapInv

LEMMA LoadCreateKept ==
    ASSUME MemoryInv, NEW p \in Pcbs, NEW image \in Images, LoadCreate(p, image)
    PROVE  Kept
<1>1. SpaceInv /\ HeapInv /\ LoaderInv /\ running \subseteq Live
  BY DEF MemoryInv, HeapInv
<1>2. PICK e : e = EmptySpace(p)
  OBVIOUS
<1>3. PICK m : m = CreateProcessDirectory(e)
  OBVIOUS
<1>4. PICK t : t = MapPage(m, TrampolinePage, Trampoline)
  OBVIOUS
<1>5. /\ loader.pc = "idle" /\ p \notin Live
      /\ \/ /\ m.ok /\ t.ok /\ Store(p, t)
            /\ loader' = [NoLoad EXCEPT !.pc = "find", !.proc = p, !.image = image,
                                        !.page = image[1][1]]
         \/ /\ Store(p, [FreeBlocks(m, {m.dir}) EXCEPT !.dir = Null])
            /\ loader' = loader
      /\ heap' = heap /\ running' = running /\ paging_map_depth' = paging_map_depth
  BY <1>2, <1>3, <1>4 DEF LoadCreate
<1>6. /\ Good(e, memory_map) /\ Own(p) = {}
      /\ e.dir = Null /\ e.tab = NoTables /\ e.pte = Unmapped /\ e.ok
  BY <1>1, <1>2, <1>5, EmptyGood
<1>7. /\ Good(m, memory_map) /\ m.tab = NoTables /\ m.pte = Unmapped
      /\ m.ok => m.dir # Null
  BY <1>3, <1>6, DirectoryGood
<1>8. /\ memory_map \subseteq memory_map \ Own(p)
      /\ memory_map \ Own(p) \subseteq memory_map
  BY <1>6
<1>9. Held = {} /\ paging_map_depth = 0
  BY <1>1, <1>5 DEF Held, LoaderInv
<1>10. p \notin running
  BY <1>1, <1>5
<1>11. CASE /\ m.ok /\ t.ok /\ Store(p, t)
            /\ loader' = [NoLoad EXCEPT !.pc = "find", !.proc = p, !.image = image,
                                        !.page = image[1][1]]
  <2>1. Good(t, memory_map) /\ t.dir # Null
    BY <1>4, <1>7, <1>11, TrampolineMapped
  <2>2. Stored(p, t, memory_map)
    BY <1>1, <1>8, <1>11, <2>1, StoreStep
  <2>3. Live' = Live \cup {p} /\ \A q \in Pcbs \ {p} : ptes'[q] = ptes[q]
    BY <2>1, <2>2 DEF Stored
  <2>4. HeapInv' /\ Undone
    BY <1>1, <1>5, <1>10, <2>3, OthersKeepHeaps
  <2>5. 1 \in 1 .. Len(image) /\ image[1][1] \in Nat
    BY ImageFacts
  <2>6. /\ loader'.pc = "find" /\ loader'.proc = p /\ loader'.image = image /\ loader'.seg = 1
        /\ LoaderType'
    BY <1>11, <2>5, BlockFacts DEF NoLoad, LoaderType, Null
  <2>7. LoaderInv'
    BY <1>5, <1>9, <1>10, <2>3, <2>5, <2>6 DEF LoaderInv
  <2>8. Strays' \subseteq Strays
    BY <1>8, <1>9, <2>2, StoredStrays
  <2>. QED
    BY <2>2, <2>4, <2>7, <2>8 DEF Kept, MemoryInv, Stored
<1>12. CASE /\ Store(p, [FreeBlocks(m, {m.dir}) EXCEPT !.dir = Null])
            /\ loader' = loader
  <2>0. PICK n : n = [FreeBlocks(m, {m.dir}) EXCEPT !.dir = Null]
    OBVIOUS
  <2>1. Good(n, memory_map) /\ Mine(n) = {} /\ n.dir = Null /\ Store(p, n)
    BY <1>7, <1>12, <2>0, DirectoryDropped
  <2>2. Stored(p, n, memory_map)
    BY <1>1, <1>8, <2>1, StoreStep
  <2>3. Live' = Live /\ \A q \in Pcbs \ {p} : ptes'[q] = ptes[q]
    BY <1>5, <2>1, <2>2 DEF Stored
  <2>4. HeapInv' /\ Undone
    BY <1>1, <1>5, <1>10, <2>3, OthersKeepHeaps
  <2>5. LoaderInv'
    BY <1>1, <1>5, <1>12, Idle
  <2>6. Strays' \subseteq Strays
    BY <1>8, <1>9, <2>2, StoredStrays
  <2>. QED
    BY <2>2, <2>4, <2>5, <2>6 DEF Kept, MemoryInv, Stored
<1>. QED
  BY <1>5, <1>11, <1>12

\* A step that leaves the address spaces as they are.
LEMMA SpaceStays ==
    ASSUME SpaceInv, memory_map' = memory_map, used_blocks' = used_blocks,
           page_directory' = page_directory, tables' = tables, ptes' = ptes
    PROVE  SpaceInv' /\ Live' = Live /\ \A p \in Pcbs : Own(p)' = Own(p)
<1>1. ASSUME NEW p \in Pcbs PROVE Own(p)' = Own(p)
  BY DEF Own
<1>2. ASSUME NEW p \in Pcbs PROVE Distinct(Memory(p))'
  <2>1. Distinct(Memory(p))
    BY DEF SpaceInv
  <2>2. Memory(p)' = Memory(p)
    BY DEF Memory
  <2>. QED
    BY <2>1, <2>2 DEF Distinct
<1>3. Live' = Live
  BY DEF Live
<1>. QED
  BY <1>1, <1>2, <1>3 DEF SpaceInv

LEMMA HeapsStay ==
    ASSUME HeapInv, Live' = Live, ptes' = ptes, heap' = heap, running' = running
    PROVE  HeapInv' /\ Undone
<1>1. HeapMapped'
  BY DEF HeapInv, HeapMapped
<1>2. Undone
  BY DEF Undone
<1>. QED
  BY <1>1, <1>2 DEF HeapInv

\* The process being loaded.
LEMMA LoadedProcess ==
    ASSUME SpaceInv, HeapInv, LoaderInv, loader.pc # "idle"
    PROVE  /\ loader.proc \in Pcbs /\ loader.proc \in Live /\ loader.proc \notin running
           /\ page_directory[loader.proc] # Null
           /\ loader.image \in Images /\ loader.seg \in 1 .. Len(loader.image)
  BY DEF LoaderInv, Live

\* The address spaces stay and only the loader goes on, with what it holds.
LEMMA LoaderMoves ==
    ASSUME SpaceInv, memory_map' = memory_map, \A p \in Pcbs : Own(p)' = Own(p), Held' = Held
    PROVE  Strays' = Strays
<1>1. ASSUME NEW f PROVE f \in Strays' <=> f \in Strays
  BY DEF Strays
<1>. QED
  BY <1>1

LEMMA LoadFindKept ==
    ASSUME MemoryInv, LoadFind
    PROVE  Kept
<1>1. SpaceInv /\ HeapInv /\ LoaderInv /\ loader.pc = "find"
  BY DEF MemoryInv, LoadFind, Loading
<1>2. PICK p \in Pcbs : p = loader.proc
  BY <1>1, LoadedProcess
<1>3. PICK f : f = FirstFree(Memory(p))
  OBVIOUS
<1>4. \/ /\ f # Null
         /\ loader' = [loader EXCEPT !.pc = "take", !.frame = f]
         /\ UNCHANGED <<memory_map, used_blocks, page_directory, tables, ptes, heap,
                        running, paging_map_depth>>
      \/ Cleanup
  BY <1>2, <1>3 DEF LoadFind
<1>5. CASE Cleanup
  BY <1>1, <1>5, CleanupKept
<1>6. CASE /\ f # Null
           /\ loader' = [loader EXCEPT !.pc = "take", !.frame = f]
           /\ UNCHANGED <<memory_map, used_blocks, page_directory, tables, ptes, heap,
                          running, paging_map_depth>>
  <2>1. f \in Blocks \ memory_map
    <3>1. Memory(p).map = memory_map
      BY DEF Memory
    <3>. QED
      BY <1>3, <1>6, <3>1, FirstFreeFacts
  <2>2. SpaceInv' /\ Live' = Live /\ \A q \in Pcbs : Own(q)' = Own(q)
    BY <1>1, <1>6, SpaceStays
  <2>3. HeapInv' /\ Undone
    BY <1>1, <1>6, <2>2, HeapsStay
  <2>4. /\ loader'.pc = "take" /\ loader'.frame = f /\ loader'.proc = loader.proc
        /\ loader'.image = loader.image /\ loader'.seg = loader.seg /\ LoaderType'
    BY <1>1, <1>6, <2>1 DEF LoaderInv, LoaderType
  <2>5. paging_map_depth' = 0
    BY <1>1, <1>6 DEF LoaderInv
  <2>6. LoaderInv'
    BY <1>1, <1>6, <2>1, <2>2, <2>4, <2>5, LoadedProcess DEF LoaderInv
  <2>7. Held' = Held
    BY <1>1, <2>4 DEF Held
  <2>8. Strays' = Strays
    BY <1>1, <1>6, <2>2, <2>7, LoaderMoves
  <2>. QED
    BY <2>2, <2>3, <2>6, <2>8 DEF Kept, MemoryInv
<1>. QED
  BY <1>4, <1>5, <1>6

LEMMA LoadTakeKept ==
    ASSUME MemoryInv, LoadTake
    PROVE  Kept
<1>1. SpaceInv /\ HeapInv /\ LoaderInv /\ loader.pc = "take"
  BY DEF MemoryInv, LoadTake, Loading
<1>2. PICK p \in Pcbs : p = loader.proc
  BY <1>1, LoadedProcess
<1>3. p \in Live /\ p \notin running /\ page_directory[p] # Null
  BY <1>1, <1>2, LoadedProcess
<1>4. PICK f : f = loader.frame
  OBVIOUS
<1>5. f \in Blocks \ memory_map /\ paging_map_depth = 0
  BY <1>1, <1>4 DEF LoaderInv
<1>6. PICK m : m = Memory(p)
  OBVIOUS
<1>7. PICK n : n = Take(m, f)
  OBVIOUS
<1>8. /\ Store(p, n) /\ loader' = [loader EXCEPT !.pc = "map"]
      /\ heap' = heap /\ running' = running /\ paging_map_depth' = paging_map_depth
  BY <1>2, <1>4, <1>6, <1>7 DEF LoadTake
<1>9. PICK R : R = memory_map \ Own(p)
  OBVIOUS
<1>10. /\ Good(m, R) /\ Mine(m) = Own(p)
       /\ m.dir = page_directory[p] /\ m.tab = tables[p] /\ m.pte = ptes[p]
       /\ m.map = memory_map
  BY <1>1, <1>6, <1>9, MemoryGood DEF Memory
<1>11. /\ Good(n, R \cup {f}) /\ n.pte = m.pte /\ n.tab = m.tab /\ n.dir = m.dir
  BY <1>5, <1>7, <1>10, TakeGood
<1>12. Mine(n) = Own(p)
  BY <1>10, <1>11 DEF Mine
<1>13. Stored(p, n, R \cup {f})
  <2>1. memory_map \ Own(p) \subseteq R \cup {f} /\ n.dir # Null
    BY <1>3, <1>9, <1>10, <1>11
  <2>. QED
    BY <1>1, <1>8, <1>11, <2>1, StoreStep
<1>14. /\ SpaceInv' /\ Live' = Live
       /\ \A q \in Pcbs : Own(q)' = Own(q)
       /\ memory_map' = memory_map \cup {f}
       /\ \A q \in Pcbs \ {p} : ptes'[q] = ptes[q]
  <2>1. Live' = Live \cup {p}
    BY <1>3, <1>10, <1>11, <1>13 DEF Stored
  <2>2. \A q \in Pcbs : Own(q)' = Own(q)
    BY <1>12, <1>13 DEF Stored
  <2>3. memory_map' = (R \cup {f}) \cup Own(p)
    BY <1>12, <1>13 DEF Stored
  <2>4. Own(p) \subseteq memory_map
    BY <1>1 DEF SpaceInv
  <2>. QED
    BY <1>3, <1>9, <1>13, <2>1, <2>2, <2>3, <2>4 DEF Stored
<1>15. HeapInv' /\ Undone
  <2>1. running \subseteq Live'
    BY <1>1, <1>14 DEF HeapInv
  <2>. QED
    BY <1>1, <1>3, <1>8, <1>14, <2>1, OthersKeepHeaps
<1>16. /\ loader'.pc = "map" /\ loader'.frame = f /\ loader'.proc = loader.proc
       /\ loader'.image = loader.image /\ loader'.seg = loader.seg /\ LoaderType'
  BY <1>1, <1>4, <1>8 DEF LoaderInv, LoaderType
<1>17. f \in memory_map' \ Kernel /\ \A q \in Pcbs : f \notin Own(q)'
  <2>1. Kernel \subseteq memory_map /\ \A q \in Pcbs : Own(q) \subseteq memory_map
    BY <1>1 DEF SpaceInv
  <2>. QED
    BY <1>5, <1>14, <2>1
<1>18. LoaderInv'
  BY <1>1, <1>5, <1>8, <1>14, <1>16, <1>17, LoadedProcess DEF LoaderInv
<1>19. Held = {} /\ Held' = {f}
  BY <1>1, <1>16 DEF Held
<1>20. Strays' \subseteq Strays
  <2>. SUFFICES ASSUME NEW g \in Strays' PROVE g \in Strays
    OBVIOUS
  <2>1. g \in memory_map' /\ g \notin Kernel /\ g # f /\ \A q \in Pcbs : g \notin Own(q)'
    BY <1>19 DEF Strays
  <2>. QED
    BY <1>14, <1>19, <2>1 DEF Strays
<1>. QED
  BY <1>14, <1>15, <1>18, <1>20 DEF Kept, MemoryInv

\* After a page the loader holds no frame.
LEMMA AfterPageInv ==
    ASSUME LoaderInv, loader.pc \in {"map", "link"}, loader' = AfterPage, paging_map_depth' = 0,
           Live' = Live, running' = running
    PROVE  LoaderInv' /\ Held' = {}
<1>1. /\ loader.proc \in Live \ running
      /\ loader.image \in Images /\ loader.seg \in 1 .. Len(loader.image)
  BY DEF LoaderInv
<1>2. LoaderType /\ loader.page + 1 \in Nat /\ Null \in Blocks
  BY BlockFacts, LoaderFields DEF LoaderInv
<1>3. /\ loader'.pc \in {"read", "find"} /\ loader'.proc = loader.proc
      /\ loader'.image = loader.image /\ loader'.seg = loader.seg /\ LoaderType'
  <2>1. CASE loader' = [loader EXCEPT !.pc = "read", !.frame = Null, !.found = Null]
    BY <1>2, <2>1 DEF LoaderType
  <2>2. CASE loader' = [loader EXCEPT !.pc = "find", !.page = @ + 1, !.frame = Null, !.found = Null]
    BY <1>2, <2>2 DEF LoaderType
  <2>. QED
    BY <2>1, <2>2 DEF AfterPage
<1>4. LoaderInv'
  BY <1>1, <1>3 DEF LoaderInv
<1>. QED
  BY <1>3, <1>4 DEF Held

\* MapPage() of the page being loaded, k being the address space with its table.
LEMMA LoadedPage ==
    ASSUME MemoryInv, loader.pc \in {"map", "link"}, NEW p, p = loader.proc,
           NEW v \in Pages, v = loader.page, NEW R, R = memory_map \ Own(p),
           NEW k, Good(k, R), k.dir = page_directory[p], k.pte = ptes[p],
           NEW n, n = [k EXCEPT !.pte[v] = loader.frame],
           Store(p, n), paging_map_depth' = 0, loader' = AfterPage, heap' = heap, running' = running
    PROVE  Kept
<1>1. SpaceInv /\ HeapInv /\ LoaderInv
  BY DEF MemoryInv
<1>2. p \in Pcbs /\ p \in Live /\ p \notin running /\ page_directory[p] # Null
  BY <1>1, LoadedProcess
<1>3. PICK f : f = loader.frame
  OBVIOUS
<1>4. f \in memory_map \ Kernel /\ (\A q \in Pcbs : f \notin Own(q)) /\ f \in Blocks
  BY <1>1, <1>3 DEF LoaderInv, SpaceInv
<1>5. PICK S : S = R \ {f}
  OBVIOUS
<1>6. R = S \cup {f} /\ f \notin S
  BY <1>2, <1>4, <1>5
<1>7. PICK D : D = {ptes[p][v]} \ {Null, Trampoline}
  OBVIOUS
<1>8. k \in Space /\ Kernel \subseteq S
  BY <1>4, <1>5 DEF Good
<1>9. WithPage(k, n, v, f)
  BY <1>3, <1>4, <1>8, SetPte
<1>10. Good(n, S \cup D) /\ f \in Mine(n)
  BY <1>4, <1>6, <1>7, <1>8, <1>9, PageGood
<1>11. n.dir # Null
  BY <1>2, <1>9 DEF WithPage
<1>12. Stored(p, n, S \cup D)
  <2>1. ASSUME NEW q \in Pcbs \ {p} PROVE Own(q) \subseteq S \cup D
    <3>1. Own(q) \subseteq memory_map /\ Own(q) \cap Own(p) = {} /\ f \notin Own(q)
      BY <1>1, <1>2, <1>4 DEF SpaceInv
    <3>. QED
      BY <1>5, <3>1
  <2>. QED
    BY <1>1, <1>2, <1>10, <1>11, <2>1, StoreBeside
<1>13. Live' = Live /\ \A q \in Pcbs \ {p} : ptes'[q] = ptes[q]
  BY <1>2, <1>11, <1>12 DEF Stored
<1>14. HeapInv' /\ Undone
  <2>1. running \subseteq Live'
    BY <1>1, <1>13 DEF HeapInv
  <2>. QED
    BY <1>1, <1>2, <1>13, <2>1, OthersKeepHeaps
<1>15. LoaderInv' /\ Held' = {}
  BY <1>1, <1>13, AfterPageInv
<1>16. Strays' \subseteq Strays \cup Droppable
  <2>. SUFFICES ASSUME NEW g \in Strays' PROVE g \in Strays \cup Droppable
    OBVIOUS
  <2>1. g \in memory_map' /\ g \notin Kernel /\ \A q \in Pcbs : g \notin Own(q)'
    BY DEF Strays
  <2>2. g \in S \cup D /\ \A q \in Pcbs \ {p} : g \notin Own(q)
    BY <1>2, <1>12, <2>1 DEF Stored
  <2>3. CASE g \in D
    BY <1>7, <2>3 DEF Droppable
  <2>4. CASE g \in S
    <3>1. g \in memory_map /\ g \notin Own(p) /\ g # f
      BY <1>5, <2>4
    <3>2. g \notin Held
      BY <1>3, <3>1 DEF Held
    <3>. QED
      BY <2>1, <2>2, <3>1, <3>2 DEF Strays
  <2>. QED
    BY <2>2, <2>3, <2>4
<1>. QED
  BY <1>12, <1>14, <1>15, <1>16 DEF Kept, MemoryInv, Stored

LEMMA LoadMapKept ==
    ASSUME MemoryInv, LoadMap
    PROVE  Kept
<1>1. SpaceInv /\ HeapInv /\ LoaderInv /\ loader.pc = "map"
  BY DEF MemoryInv, LoadMap, Loading
<1>2. PICK p \in Pcbs : p = loader.proc
  BY <1>1, LoadedProcess
<1>3. PICK v : v = loader.page
  OBVIOUS
<1>4. CASE Cleanup
  BY <1>1, <1>4, CleanupKept
<1>5. CASE /\ v \in Pages
           /\ ptes' = [ptes EXCEPT ![p][v] = loader.frame]
           /\ loader' = AfterPage
           /\ UNCHANGED <<memory_map, used_blocks, page_directory, tables, heap, running,
                          paging_map_depth>>
  <2>1. PICK k : k = Memory(p)
    OBVIOUS
  <2>2. PICK R : R = memory_map \ Own(p)
    OBVIOUS
  <2>3. /\ Good(k, R) /\ k \in Space
        /\ k.dir = page_directory[p] /\ k.tab = tables[p] /\ k.pte = ptes[p]
        /\ k.map = memory_map /\ k.count = used_blocks
    BY <1>1, <2>1, <2>2, MemoryGood DEF Memory
  <2>4. PICK f \in Blocks : f = loader.frame
    BY <1>1, LoaderFields DEF LoaderInv
  <2>5. PICK n : n = [k EXCEPT !.pte[v] = f]
    OBVIOUS
  <2>6. Store(p, n)
    <3>1. WithPage(k, n, v, f)
      BY <1>5, <2>3, <2>5, SetPte
    <3>2. n.map = memory_map /\ n.count = used_blocks /\ n.dir = page_directory[p] /\ n.tab = tables[p]
      BY <2>3, <3>1 DEF WithPage
    <3>3. n.pte = [ptes[p] EXCEPT ![v] = f]
      BY <2>3, <2>5 DEF Space
    <3>4. /\ page_directory \in [Pcbs -> Blocks] /\ tables \in [Pcbs -> [Tables -> Blocks]]
          /\ ptes \in [Pcbs -> [Pages -> Blocks]]
      BY <1>1 DEF SpaceInv
    <3>5. page_directory = [page_directory EXCEPT ![p] = n.dir]
      BY <3>2, <3>4
    <3>6. tables = [tables EXCEPT ![p] = n.tab]
      BY <3>2, <3>4
    <3>7. ptes' = [ptes EXCEPT ![p] = n.pte]
      BY <1>5, <2>4, <3>3, <3>4
    <3>. QED
      BY <1>5, <3>2, <3>5, <3>6, <3>7 DEF Store
  <2>7. paging_map_depth' = 0
    BY <1>1, <1>5 DEF LoaderInv
  <2>8. heap' = heap /\ running' = running
    BY <1>5
  <2>. QED
    BY <1>1, <1>2, <1>3, <1>5, <2>2, <2>3, <2>4, <2>5, <2>6, <2>7, <2>8, LoadedPage
<1>. QED
  BY <1>2, <1>3, <1>4, <1>5 DEF LoadMap

LEMMA LoadMapFindKept ==
    ASSUME MemoryInv, LoadMapFind
    PROVE  Kept
<1>1. SpaceInv /\ HeapInv /\ LoaderInv /\ loader.pc = "map"
  BY DEF MemoryInv, LoadMapFind, Loading
<1>2. PICK p \in Pcbs : p = loader.proc
  BY <1>1, LoadedProcess
<1>3. PICK f : f = FirstFree(Memory(p))
  OBVIOUS
<1>4. /\ loader.page \in Pages /\ tables[loader.proc][TableOf(loader.page)] = Null
      /\ \/ /\ f # Null
            /\ paging_map_depth' = paging_map_depth + 1
            /\ loader' = [loader EXCEPT !.pc = "link", !.found = f]
            /\ UNCHANGED <<memory_map, used_blocks, page_directory, tables, ptes, heap, running>>
         \/ Cleanup
  BY <1>2, <1>3 DEF LoadMapFind
<1>5. CASE Cleanup
  BY <1>1, <1>5, CleanupKept
<1>6. CASE /\ f # Null
           /\ paging_map_depth' = paging_map_depth + 1
           /\ loader' = [loader EXCEPT !.pc = "link", !.found = f]
           /\ UNCHANGED <<memory_map, used_blocks, page_directory, tables, ptes, heap, running>>
  <2>1. f \in Blocks \ memory_map
    <3>1. Memory(p).map = memory_map
      BY DEF Memory
    <3>. QED
      BY <1>3, <1>6, <3>1, FirstFreeFacts
  <2>2. SpaceInv' /\ Live' = Live /\ \A q \in Pcbs : Own(q)' = Own(q)
    BY <1>1, <1>6, SpaceStays
  <2>3. HeapInv' /\ Undone
    BY <1>1, <1>6, <2>2, HeapsStay
  <2>4. /\ loader'.pc = "link" /\ loader'.frame = loader.frame /\ loader'.proc = loader.proc
        /\ loader'.image = loader.image /\ loader'.seg = loader.seg /\ loader'.page = loader.page
        /\ loader'.found = f /\ LoaderType'
    BY <1>1, <1>6, <2>1 DEF LoaderInv, LoaderType
  <2>5. paging_map_depth' = 1
    BY <1>1, <1>6 DEF LoaderInv
  <2>6. loader.frame \in memory_map \ Kernel /\ \A q \in Pcbs : loader.frame \notin Own(q)
    BY <1>1 DEF LoaderInv
  <2>7. LoaderInv'
    BY <1>1, <1>4, <1>6, <2>1, <2>2, <2>4, <2>5, <2>6, LoadedProcess DEF LoaderInv
  <2>8. Held' = Held
    BY <1>1, <2>4 DEF Held
  <2>9. Strays' = Strays
    BY <1>1, <1>6, <2>2, <2>8, LoaderMoves
  <2>. QED
    BY <2>2, <2>3, <2>7, <2>9 DEF Kept, MemoryInv
<1>. QED
  BY <1>4, <1>5, <1>6

LEMMA LoadMapTakeKept ==
    ASSUME MemoryInv, LoadMapTake
    PROVE  Kept
<1>1. SpaceInv /\ HeapInv /\ LoaderInv /\ loader.pc = "link"
  BY DEF MemoryInv, LoadMapTake, Loading
<1>2. PICK p \in Pcbs : p = loader.proc
  BY <1>1, LoadedProcess
<1>3. PICK v \in Pages : v = loader.page
  BY <1>1 DEF LoaderInv
<1>4. PICK t \in Blocks \ memory_map : t = loader.found
  BY <1>1 DEF LoaderInv
<1>5. tables[p][TableOf(v)] = Null /\ paging_map_depth = 1
  BY <1>1, <1>2, <1>3 DEF LoaderInv
<1>6. PICK m : m = Memory(p)
  OBVIOUS
<1>7. PICK R : R = memory_map \ Own(p)
  OBVIOUS
<1>8. /\ Good(m, R)
      /\ m.dir = page_directory[p] /\ m.tab = tables[p] /\ m.pte = ptes[p]
      /\ m.map = memory_map
  BY <1>1, <1>6, <1>7, MemoryGood DEF Memory
<1>9. PICK k : TableAdded(m, R, v, t, k)
  BY <1>4, <1>5, <1>8, NewTable
<1>10. /\ Good(k, R) /\ k.dir = page_directory[p] /\ k.pte = ptes[p]
       /\ k = [Take(m, t) EXCEPT !.tab[TableOf(v)] = t]
  BY <1>8, <1>9 DEF TableAdded
<1>11. PICK n : n = [k EXCEPT !.pte[v] = loader.frame]
  OBVIOUS
<1>12. Store(p, n) /\ loader' = AfterPage /\ heap' = heap /\ running' = running
  BY <1>2, <1>3, <1>4, <1>6, <1>10, <1>11 DEF LoadMapTake
<1>13. paging_map_depth' = 0
  BY <1>5 DEF LoadMapTake
<1>. QED
  BY <1>1, <1>2, <1>3, <1>7, <1>10, <1>11, <1>12, <1>13, LoadedPage

LEMMA HeapAfterFacts ==
    ASSUME NEW image \in Images
    PROVE  /\ HeapAfter(image) \in [start : Nat, end : Nat, max : Nat]
           /\ HeapAfter(image).start = HeapAfter(image).end
<1>1. PICK l \in Nat : l = LastPage(image)
  BY ImageFacts
<1>2. HeapPages \in Nat
  BY MemoryAssumption
<1>. QED
  BY <1>1, <1>2 DEF HeapAfter, PageSize

LEMMA LoadReadKept ==
    ASSUME MemoryInv, LoadRead
    PROVE  Kept
<1>1. SpaceInv /\ HeapInv /\ LoaderInv /\ loader.pc = "read"
  BY DEF MemoryInv, LoadRead, Loading
<1>2. PICK p \in Pcbs : p = loader.proc
  BY <1>1, LoadedProcess
<1>3. p \in Live /\ p \notin running
  BY <1>1, <1>2, LoadedProcess
<1>4. PICK image \in Images : image = loader.image
  BY <1>1, LoadedProcess
<1>5. PICK N \in Nat : N = Len(image)
  BY ImageFacts
<1>6. loader.seg \in 1 .. N
  BY <1>1, <1>4, <1>5, LoadedProcess
<1>7. CASE Cleanup
  BY <1>1, <1>7, CleanupKept
<1>8. CASE /\ loader' = IF loader.seg < Len(loader.image)
                        THEN [loader EXCEPT !.pc = "find", !.seg = @ + 1,
                                            !.page = loader.image[loader.seg + 1][1]]
                        ELSE [loader EXCEPT !.pc = "start"]
           /\ heap' = IF loader.seg < Len(loader.image) THEN heap
                      ELSE [heap EXCEPT ![loader.proc] = HeapAfter(loader.image)]
           /\ UNCHANGED <<memory_map, used_blocks, page_directory, tables, ptes, running,
                          paging_map_depth>>
  <2>1. SpaceInv' /\ Live' = Live /\ \A q \in Pcbs : Own(q)' = Own(q)
    BY <1>1, <1>8, SpaceStays
  <2>2. paging_map_depth' = 0
    BY <1>1, <1>8 DEF LoaderInv
  <2>3. Held = {}
    BY <1>1 DEF Held
  <2>4. Undone
    BY <1>8 DEF Undone
  <2>5. CASE loader.seg < N
    <3>1. PICK s \in 1 .. N : s = loader.seg + 1
      BY <1>6, <2>5
    <3>2. PICK v \in Nat : v = image[s][1]
      BY <1>5, ImageFacts
    <3>3. loader' = [loader EXCEPT !.pc = "find", !.seg = s, !.page = v] /\ heap' = heap
      BY <1>4, <1>5, <1>8, <2>5, <3>1, <3>2
    <3>4. /\ loader'.pc = "find" /\ loader'.proc = loader.proc /\ loader'.image = loader.image
          /\ loader'.seg = s /\ LoaderType'
      <4>1. s \in Nat /\ v \in Nat
        BY <3>1, <3>2
      <4>2. loader' = [loader EXCEPT !.pc = "find", !.seg = s, !.page = v] /\ LoaderType
        BY <1>1, <3>3 DEF LoaderInv
      <4>. QED
        BY <4>1, <4>2 DEF LoaderType
    <3>5. loader'.seg \in 1 .. Len(loader'.image)
      BY <1>4, <1>5, <3>1, <3>4
    <3>6. LoaderInv'
      BY <1>1, <1>8, <2>1, <2>2, <3>4, <3>5, LoadedProcess DEF LoaderInv
    <3>7. HeapInv'
      BY <1>1, <1>8, <2>1, <3>3, HeapsStay
    <3>8. Held' = Held
      BY <2>3, <3>4 DEF Held
    <3>9. Strays' = Strays
      BY <1>1, <1>8, <2>1, <3>8, LoaderMoves
    <3>. QED
      BY <2>1, <2>4, <3>6, <3>7, <3>9 DEF Kept, MemoryInv
  <2>6. CASE ~(loader.seg < N)
    <3>1. /\ loader' = [loader EXCEPT !.pc = "start"]
          /\ heap' = [heap EXCEPT ![p] = HeapAfter(image)]
      BY <1>2, <1>4, <1>5, <1>8, <2>6
    <3>2. /\ heap \in [Pcbs -> [start : Nat, end : Nat, max : Nat]] /\ running \subseteq Live
          /\ HeapMapped
      BY <1>1 DEF HeapInv
    <3>3. PICK h \in [start : Nat, end : Nat, max : Nat] :
             h = HeapAfter(image) /\ h.start = h.end
      BY HeapAfterFacts
    <3>4. /\ heap' \in [Pcbs -> [start : Nat, end : Nat, max : Nat]]
          /\ heap'[p] = h /\ \A q \in Pcbs \ {p} : heap'[q] = heap[q]
      BY <3>1, <3>2, <3>3
    <3>5. \A q \in running : q \in Pcbs \ {p}
      BY <1>3, <3>2 DEF Live
    <3>6. HeapMapped'
      BY <1>8, <3>2, <3>4, <3>5 DEF HeapMapped
    <3>7. HeapInv'
      BY <1>8, <2>1, <3>2, <3>4, <3>6 DEF HeapInv
    <3>8. /\ loader'.pc = "start" /\ loader'.proc = p /\ loader'.image = loader.image
          /\ loader'.seg = loader.seg /\ LoaderType'
      BY <1>1, <1>2, <3>1 DEF LoaderInv, LoaderType
    <3>9. heap'[loader'.proc].start = heap'[loader'.proc].end
      BY <3>3, <3>4, <3>8
    <3>10. LoaderInv'
      BY <1>1, <1>2, <1>8, <2>1, <2>2, <3>8, <3>9, LoadedProcess DEF LoaderInv
    <3>11. Held' = Held
      BY <2>3, <3>8 DEF Held
    <3>12. Strays' = Strays
      BY <1>1, <1>8, <2>1, <3>11, LoaderMoves
    <3>. QED
      BY <2>1, <2>4, <3>7, <3>10, <3>12 DEF Kept, MemoryInv
  <2>. QED
    BY <2>5, <2>6
<1>. QED
  BY <1>7, <1>8 DEF LoadRead

LEMMA LoadStartKept ==
    ASSUME MemoryInv, LoadStart
    PROVE  Kept
<1>1. SpaceInv /\ HeapInv /\ LoaderInv /\ loader.pc = "start"
  BY DEF MemoryInv, LoadStart, Loading
<1>2. PICK p \in Pcbs : p = loader.proc
  BY <1>1, LoadedProcess
<1>3. p \in Live /\ heap[p].start = heap[p].end
  BY <1>1, <1>2, LoadedProcess DEF LoaderInv
<1>4. CASE Cleanup
  BY <1>1, <1>4, CleanupKept
<1>5. CASE /\ running' = running \cup {p}
           /\ loader' = NoLoad
           /\ UNCHANGED <<memory_map, used_blocks, page_directory, tables, ptes, heap,
                          paging_map_depth>>
  <2>1. SpaceInv' /\ Live' = Live /\ \A q \in Pcbs : Own(q)' = Own(q)
    BY <1>1, <1>5, SpaceStays
  <2>2. paging_map_depth' = 0
    BY <1>1, <1>5 DEF LoaderInv
  <2>3. LoaderInv'
    BY <1>5, <2>2, NoLoadInv
  <2>4. Undone
    BY <1>5 DEF Undone
  <2>5. /\ heap \in [Pcbs -> [start : Nat, end : Nat, max : Nat]] /\ running \subseteq Live
        /\ HeapMapped
    BY <1>1 DEF HeapInv
  <2>6. ASSUME NEW v \in Pages, v * PageSize >= heap[p].start, v * PageSize < heap[p].end
        PROVE  FALSE
    <3>1. PICK h \in Nat : h = heap[p].start /\ h = heap[p].end
      BY <1>3, <2>5
    <3>2. PICK a \in Int : a = v * PageSize
      BY MemoryAssumption DEF Pages, PageSize
    <3>. QED
      BY <2>6, <3>1, <3>2
  <2>7. HeapMapped'
    BY <1>5, <2>5, <2>6 DEF HeapMapped
  <2>8. HeapInv'
    BY <1>3, <1>5, <2>1, <2>5, <2>7 DEF HeapInv
  <2>9. Held' = Held
    BY <1>1, <1>5 DEF Held, NoLoad
  <2>10. Strays' = Strays
    BY <1>1, <1>5, <2>1, <2>9, LoaderMoves
  <2>. QED
    BY <2>1, <2>3, <2>4, <2>8, <2>10 DEF Kept, MemoryInv
<1>. QED
  BY <1>2, <1>4, <1>5 DEF LoadStart

-------------------------------------------------------------------------------
(* The theorems.                                                               *)

LEMMA InitMemoryInv ==
    ASSUME MemoryInit
    PROVE  MemoryInv
<1>1. /\ memory_map = Kernel /\ used_blocks = Cardinality(Kernel)
      /\ page_directory = [p \in Pcbs |-> Null]
      /\ tables = [p \in Pcbs |-> NoTables]
      /\ ptes = [p \in Pcbs |-> Unmapped]
      /\ heap = [p \in Pcbs |-> NoHeap]
      /\ running = {} /\ paging_map_depth = 0 /\ loader = NoLoad
  BY DEF MemoryInit
<1>2. NoTables \in [Tables -> Blocks] /\ Unmapped \in [Pages -> Blocks]
  BY BlockFacts DEF NoTables, Unmapped
<1>3. ASSUME NEW p \in Pcbs PROVE Own(p) = {}
  BY <1>1 DEF Own, NoTables, Unmapped
<1>4. ASSUME NEW p \in Pcbs PROVE Distinct(Memory(p))
  BY <1>1 DEF Distinct, Memory, NoTables, Unmapped
<1>5. SpaceInv
  BY <1>1, <1>2, <1>3, <1>4, BlockFacts DEF SpaceInv
<1>6. HeapInv
  <2>1. NoHeap \in [start : Nat, end : Nat, max : Nat]
    BY DEF NoHeap
  <2>. QED
    BY <1>1, <2>1 DEF HeapInv, HeapMapped
<1>7. LoaderInv
  <2>1. LoaderType /\ loader.pc = "idle"
    BY <1>1, BlockFacts DEF LoaderType, NoLoad, Null
  <2>. QED
    BY <1>1, <2>1 DEF LoaderInv
<1>. QED
  BY <1>5, <1>6, <1>7 DEF MemoryInv

\* No action of the loader, no call and no exit breaks the invariant.
LEMMA NextKept ==
    ASSUME MemoryInv, ~Preemptible, [MemoryNext]_memoryVars
    PROVE  Kept
<1>1. ASSUME NEW p \in Pcbs, NEW image \in Images, LoadCreate(p, image) PROVE Kept
  BY <1>1, LoadCreateKept
<1>2. CASE LoadFind
  BY <1>2, LoadFindKept
<1>3. CASE LoadTake
  BY <1>3, LoadTakeKept
<1>4. CASE LoadMap
  BY <1>4, LoadMapKept
<1>5. CASE LoadMapFind
  BY <1>5, LoadMapFindKept
<1>6. CASE LoadMapTake
  BY <1>6, LoadMapTakeKept
<1>7. CASE LoadRead
  BY <1>7, LoadReadKept
<1>8. CASE LoadStart
  BY <1>8, LoadStartKept
<1>9. ASSUME NEW p \in Pcbs, NEW brk \in 1 .. NPages * PageSize, Brk(p, brk) PROVE Kept
  BY <1>9, BrkKept
<1>10. ASSUME NEW p \in Pcbs, NEW child \in Pcbs, NEW threadFails \in BOOLEAN,
              ForkSpace(p, child, threadFails)
       PROVE  Kept
  BY <1>10, ForkKept
<1>11. ASSUME NEW p \in Pcbs, Exit(p) PROVE Kept
  BY <1>11, ExitKept
<1>12. CASE UNCHANGED memoryVars
  <2>1. /\ memory_map' = memory_map /\ used_blocks' = used_blocks
        /\ page_directory' = page_directory /\ tables' = tables /\ ptes' = ptes
        /\ heap' = heap /\ running' = running /\ paging_map_depth' = paging_map_depth
        /\ loader' = loader
    BY <1>12 DEF memoryVars
  <2>2. SpaceInv /\ HeapInv /\ LoaderInv
    BY DEF MemoryInv
  <2>3. SpaceInv' /\ Live' = Live /\ \A p \in Pcbs : Own(p)' = Own(p)
    BY <2>1, <2>2, SpaceStays
  <2>4. HeapInv' /\ Undone
    BY <2>1, <2>2, <2>3, HeapsStay
  <2>5. LoaderInv'
    BY <2>1, <2>2, <2>3 DEF LoaderInv, LoaderType
  <2>6. Held' = Held
    BY <2>1 DEF Held
  <2>7. Strays' = Strays
    BY <2>1, <2>2, <2>3, <2>6, LoaderMoves
  <2>. QED
    BY <2>3, <2>4, <2>5, <2>7 DEF Kept, MemoryInv
<1>. QED
  BY <1>1, <1>2, <1>3, <1>4, <1>5, <1>6, <1>7, <1>8, <1>9, <1>10, <1>11, <1>12
  DEF MemoryNext, Load

\* One use of a frame: its place in an address space, or in the loader's hand.
UseOf(u, p) ==
    \/ u = <<"directory", p, 0, page_directory[p]>>
    \/ \E t \in Tables : u = <<"table", p, t, tables[p][t]>>
    \/ \E v \in Pages : u = <<"page", p, v, ptes[p][v]>>
UseInLoad(u) ==
    loader.pc \in {"map", "link"} /\ u = <<"loading", loader.proc, 0, loader.frame>>

LEMMA UseCases ==
    ASSUME NEW u \in Owned
    PROVE  /\ u[4] \notin {Null, Trampoline}
           /\ (\E p \in Live : UseOf(u, p)) \/ UseInLoad(u)
<1>1. u \in Uses /\ u[4] \notin {Null, Trampoline}
  BY DEF Owned
<1>2. CASE u \in {<<"directory", p, 0, page_directory[p]>> : p \in Live}
  BY <1>1, <1>2 DEF UseOf
<1>3. CASE u \in {<<"table", p, t, tables[p][t]>> : p \in Live, t \in Tables}
  BY <1>1, <1>3 DEF UseOf
<1>4. CASE u \in {<<"page", p, v, ptes[p][v]>> : p \in Live, v \in Pages}
  BY <1>1, <1>4 DEF UseOf
<1>5. CASE u \in (IF loader.pc = "map" \/ loader.pc = "link"
                  THEN {<<"loading", loader.proc, 0, loader.frame>>} ELSE {})
  BY <1>1, <1>5 DEF UseInLoad
<1>. QED
  BY <1>1, <1>2, <1>3, <1>4, <1>5 DEF Uses

\* The frame of a use belongs to the process.
LEMMA UseIsOwn ==
    ASSUME SpaceInv, NEW p \in Live, NEW u, UseOf(u, p), u[4] \notin {Null, Trampoline}
    PROVE  u[4] \in Own(p)
<1>1. /\ p \in Pcbs /\ page_directory[p] \in Blocks
      /\ \A t \in Tables : tables[p][t] \in Blocks
      /\ \A v \in Pages : ptes[p][v] \in Blocks
  BY DEF SpaceInv, Live
<1>2. CASE u = <<"directory", p, 0, page_directory[p]>>
  BY <1>1, <1>2 DEF Own
<1>3. ASSUME NEW t \in Tables, u = <<"table", p, t, tables[p][t]>> PROVE u[4] \in Own(p)
  BY <1>1, <1>3 DEF Own
<1>4. ASSUME NEW v \in Pages, u = <<"page", p, v, ptes[p][v]>> PROVE u[4] \in Own(p)
  BY <1>1, <1>4 DEF Own
<1>. QED
  BY <1>2, <1>3, <1>4 DEF UseOf

\* Two uses in one address space have two frames.
LEMMA UsesDiffer ==
    ASSUME SpaceInv, NEW p \in Live, NEW u, NEW w, UseOf(u, p), UseOf(w, p),
           u[4] = w[4], u[4] \notin {Null, Trampoline}
    PROVE  u = w
<1>1. PICK d : d = page_directory[p]
  OBVIOUS
<1>2. PICK tab : tab = tables[p]
  OBVIOUS
<1>3. PICK pte : pte = ptes[p]
  OBVIOUS
<1>4. Distinct(Memory(p))
  BY DEF SpaceInv, Live
<1>5. Memory(p).dir = d /\ Memory(p).tab = tab /\ Memory(p).pte = pte
  BY <1>1, <1>2, <1>3 DEF Memory
<1>6. /\ \A t \in Tables : tab[t] # Null => tab[t] # d
      /\ \A t, s \in Tables : t # s /\ tab[t] # Null => tab[t] # tab[s]
      /\ \A v \in Pages : pte[v] \notin {Null, Trampoline} =>
            pte[v] # d /\ \A t \in Tables : pte[v] # tab[t]
      /\ \A v, x \in Pages : v # x /\ pte[v] \notin {Null, Trampoline} => pte[v] # pte[x]
  BY <1>4, <1>5 DEF Distinct
<1>7. ASSUME NEW y, UseOf(y, p)
      PROVE  \/ y = <<"directory", p, 0, d>>
             \/ \E t \in Tables : y = <<"table", p, t, tab[t]>>
             \/ \E v \in Pages : y = <<"page", p, v, pte[v]>>
  BY <1>1, <1>2, <1>3, <1>7 DEF UseOf
<1>8. CASE u = <<"directory", p, 0, d>>
  <2>1. u[4] = d
    BY <1>8
  <2>2. ASSUME NEW t \in Tables, w = <<"table", p, t, tab[t]>> PROVE FALSE
    <3>1. w[4] = tab[t]
      BY <2>2
    <3>. QED
      BY <1>6, <2>1, <3>1
  <2>3. ASSUME NEW v \in Pages, w = <<"page", p, v, pte[v]>> PROVE FALSE
    <3>1. w[4] = pte[v]
      BY <2>3
    <3>. QED
      BY <1>6, <2>1, <3>1
  <2>. QED
    BY <1>7, <1>8, <2>2, <2>3
<1>9. ASSUME NEW t \in Tables, u = <<"table", p, t, tab[t]>> PROVE u = w
  <2>1. u[4] = tab[t]
    BY <1>9
  <2>2. CASE w = <<"directory", p, 0, d>>
    <3>1. w[4] = d
      BY <2>2
    <3>. QED
      BY <1>6, <2>1, <3>1
  <2>3. ASSUME NEW s \in Tables, w = <<"table", p, s, tab[s]>> PROVE u = w
    <3>1. w[4] = tab[s]
      BY <2>3
    <3>2. t = s
      BY <1>6, <2>1, <3>1
    <3>. QED
      BY <1>9, <2>3, <3>2
  <2>4. ASSUME NEW v \in Pages, w = <<"page", p, v, pte[v]>> PROVE FALSE
    <3>1. w[4] = pte[v]
      BY <2>4
    <3>. QED
      BY <1>6, <2>1, <3>1
  <2>. QED
    BY <1>7, <2>2, <2>3, <2>4
<1>10. ASSUME NEW v \in Pages, u = <<"page", p, v, pte[v]>> PROVE u = w
  <2>1. u[4] = pte[v]
    BY <1>10
  <2>2. CASE w = <<"directory", p, 0, d>>
    <3>1. w[4] = d
      BY <2>2
    <3>. QED
      BY <1>6, <2>1, <3>1
  <2>3. ASSUME NEW t \in Tables, w = <<"table", p, t, tab[t]>> PROVE FALSE
    <3>1. w[4] = tab[t]
      BY <2>3
    <3>. QED
      BY <1>6, <2>1, <3>1
  <2>4. ASSUME NEW x \in Pages, w = <<"page", p, x, pte[x]>> PROVE u = w
    <3>1. w[4] = pte[x]
      BY <2>4
    <3>2. v = x
      BY <1>6, <2>1, <3>1
    <3>. QED
      BY <1>10, <2>4, <3>2
  <2>. QED
    BY <1>7, <2>2, <2>3, <2>4
<1>. QED
  BY <1>7, <1>8, <1>9, <1>10

\* The frame the loader holds is nobody else's.
LEMMA UseInLoadIsHeld ==
    ASSUME LoaderInv, NEW u, UseInLoad(u)
    PROVE  /\ u[4] = loader.frame /\ Held = {u[4]}
           /\ u[4] \in memory_map \ Kernel /\ \A p \in Pcbs : u[4] \notin Own(p)
<1>1. u[4] = loader.frame /\ loader.pc \in {"map", "link"}
  BY DEF UseInLoad
<1>. QED
  BY <1>1 DEF Held, LoaderInv

LEMMA InvOwnsOnce ==
    ASSUME MemoryInv
    PROVE  FramesOwnedOnce
<1>1. SpaceInv /\ LoaderInv
  BY DEF MemoryInv
<1>2. ASSUME NEW u \in Owned PROVE u[4] \in memory_map \ Kernel
  <2>1. CASE UseInLoad(u)
    BY <1>1, <2>1, UseInLoadIsHeld
  <2>2. ASSUME NEW p \in Live, UseOf(u, p) PROVE u[4] \in memory_map \ Kernel
    <3>1. u[4] \in Own(p) /\ p \in Pcbs
      BY <1>1, <2>2, UseCases, UseIsOwn DEF Live
    <3>. QED
      BY <1>1, <3>1 DEF SpaceInv
  <2>. QED
    BY <2>1, <2>2, UseCases
<1>3. ASSUME NEW u \in Owned, NEW w \in Owned, u[4] = w[4] PROVE u = w
  <2>1. u[4] \notin {Null, Trampoline} /\ w[4] \notin {Null, Trampoline}
    BY UseCases
  <2>2. ASSUME NEW y \in Owned, NEW p \in Live, UseOf(y, p) PROVE y[4] \in Own(p) /\ p \in Pcbs
    BY <1>1, <2>2, UseCases, UseIsOwn DEF Live
  <2>3. CASE UseInLoad(u) /\ UseInLoad(w)
    BY <2>3 DEF UseInLoad
  <2>4. ASSUME UseInLoad(u), NEW p \in Live, UseOf(w, p) PROVE FALSE
    BY <1>1, <1>3, <2>2, <2>4, UseInLoadIsHeld
  <2>5. ASSUME UseInLoad(w), NEW p \in Live, UseOf(u, p) PROVE FALSE
    BY <1>1, <1>3, <2>2, <2>5, UseInLoadIsHeld
  <2>6. ASSUME NEW p \in Live, UseOf(u, p), NEW q \in Live, UseOf(w, q) PROVE u = w
    <3>1. u[4] \in Own(p) /\ w[4] \in Own(q) /\ p \in Pcbs /\ q \in Pcbs
      BY <2>2, <2>6
    <3>2. p = q
      BY <1>1, <1>3, <3>1 DEF SpaceInv
    <3>. QED
      BY <1>1, <1>3, <2>1, <2>6, <3>2, UsesDiffer
  <2>. QED
    BY <2>3, <2>4, <2>5, <2>6, UseCases
<1>. QED
  BY <1>2, <1>3 DEF FramesOwnedOnce

\* The frames of a process have uses.
LEMMA OwnIsUse ==
    ASSUME SpaceInv, NEW p \in Pcbs, NEW f \in Own(p)
    PROVE  \E u \in Owned : u[4] = f
<1>1. p \in Live /\ f \notin {Null, Trampoline}
  BY DEF SpaceInv, Live, Own
<1>2. ASSUME NEW u \in Uses, u[4] = f PROVE \E y \in Owned : y[4] = f
  BY <1>1, <1>2 DEF Owned
<1>3. CASE f = page_directory[p]
  <2>1. PICK u : u = <<"directory", p, 0, page_directory[p]>>
    OBVIOUS
  <2>2. u \in Uses /\ u[4] = f
    BY <1>1, <1>3, <2>1 DEF Uses
  <2>. QED
    BY <1>2, <2>2
<1>4. ASSUME NEW t \in Tables, f = tables[p][t] PROVE \E y \in Owned : y[4] = f
  <2>1. PICK u : u = <<"table", p, t, tables[p][t]>>
    OBVIOUS
  <2>2. u \in Uses /\ u[4] = f
    BY <1>1, <1>4, <2>1 DEF Uses
  <2>. QED
    BY <1>2, <2>2
<1>5. ASSUME NEW v \in Pages, f = ptes[p][v] PROVE \E y \in Owned : y[4] = f
  <2>1. PICK u : u = <<"page", p, v, ptes[p][v]>>
    OBVIOUS
  <2>2. u \in Uses /\ u[4] = f
    BY <1>1, <1>5, <2>1 DEF Uses
  <2>. QED
    BY <1>2, <2>2
<1>. QED
  BY <1>3, <1>4, <1>5 DEF Own

LostAreStrays == Lost = Strays

LEMMA LostIsStrays ==
    ASSUME MemoryInv
    PROVE  LostAreStrays
<1>1. SpaceInv /\ LoaderInv
  BY DEF MemoryInv
<1>2. ASSUME NEW u \in Owned PROVE u[4] \in Held \/ \E p \in Pcbs : u[4] \in Own(p)
  <2>1. CASE UseInLoad(u)
    BY <1>1, <2>1, UseInLoadIsHeld
  <2>2. ASSUME NEW p \in Live, UseOf(u, p) PROVE p \in Pcbs /\ u[4] \in Own(p)
    BY <1>1, <2>2, UseCases, UseIsOwn DEF Live
  <2>. QED
    BY <2>1, <2>2, UseCases
<1>3. ASSUME NEW f \in Held PROVE \E u \in Owned : u[4] = f
  <2>1. PICK u : u = <<"loading", loader.proc, 0, loader.frame>>
    OBVIOUS
  <2>2. loader.pc \in {"map", "link"} /\ f = loader.frame
    BY <1>3 DEF Held
  <2>3. f \notin Kernel
    BY <1>1, <2>2 DEF LoaderInv
  <2>4. f \notin {Null, Trampoline}
    BY <2>3, BlockFacts
  <2>5. u \in Uses /\ u[4] = f
    BY <2>1, <2>2 DEF Uses
  <2>. QED
    BY <2>4, <2>5 DEF Owned
<1>4. ASSUME NEW f
      PROVE  (\E u \in Owned : u[4] = f) <=> (f \in Held \/ \E p \in Pcbs : f \in Own(p))
  BY <1>1, <1>2, <1>3, OwnIsUse
<1>5. ASSUME NEW f PROVE f \in Lost <=> f \in Strays
  BY <1>4 DEF Lost, Strays
<1>. QED
  BY <1>5 DEF LostAreStrays

LEMMA InvTypes ==
    ASSUME MemoryInv
    PROVE  MemoryTypes
<1>1. SpaceInv /\ HeapInv /\ LoaderInv
  BY DEF MemoryInv
<1>2. used_blocks \in 0 .. MaxBlocks
  <2>1. memory_map \subseteq Blocks /\ used_blocks = Cardinality(memory_map)
    BY <1>1 DEF SpaceInv
  <2>2. MaxBlocks \in Nat \ {0}
    BY BlockFacts
  <2>3. IsFiniteSet(Blocks) /\ Cardinality(Blocks) = MaxBlocks
    <3>1. 0 \in Int /\ MaxBlocks - 1 \in Int /\ ~(0 > MaxBlocks - 1) /\ MaxBlocks - 1 - 0 + 1 = MaxBlocks
      BY <2>2
    <3>. QED
      BY <3>1, FS_Interval DEF Blocks
  <2>4. Cardinality(memory_map) <= MaxBlocks /\ Cardinality(memory_map) \in Nat
    BY <2>1, <2>3, FS_Subset, BlockFacts
  <2>. QED
    BY <2>1, <2>2, <2>4
<1>3. /\ memory_map \in SUBSET (0 .. MaxBlocks - 1)
      /\ page_directory \in [Pcbs -> Frames \cup {Null}]
      /\ tables \in [Pcbs -> [Tables -> Frames \cup {Null}]]
      /\ ptes \in [Pcbs -> [Pages -> Frames \cup {Null}]]
  <2>1. Frames \cup {Null} = Blocks
    BY BlockFacts
  <2>. QED
    BY <1>1, <2>1 DEF SpaceInv, Blocks
<1>4. heap \in [Pcbs -> [start : Nat, end : Nat, max : Nat]] /\ running \in SUBSET Live
  BY <1>1 DEF HeapInv
<1>5. paging_map_depth \in {0, 1}
  BY <1>1 DEF LoaderInv
<1>6. loader.pc \in {"idle", "find", "take", "map", "link", "read", "start"}
  BY <1>1, LoaderFields DEF LoaderInv
<1>. QED
  BY <1>2, <1>3, <1>4, <1>5, <1>6 DEF MemoryTypes

\* The bitmap and its counter agree, each frame in use has one use, and every byte below a
\* break is mapped (core/pmm.cpp, core/paging.cpp, core/elf.cpp, brk, fork and
\* KillProcess()), as long as no system call comes between the loader's statements.
THEOREM MemoryIsSound == ~Preemptible => (MemorySpec => []MemorySound)
<1>. SUFFICES ASSUME ~Preemptible PROVE MemorySpec => []MemorySound
  OBVIOUS
<1>1. MemoryInit => MemoryInv
  BY InitMemoryInv
<1>2. MemoryInv /\ [MemoryNext]_memoryVars => MemoryInv'
  BY NextKept DEF Kept
<1>3. MemoryInv => MemorySound
  <2>1. MemoryInv => CounterExact /\ HeapMapped
    BY DEF MemoryInv, SpaceInv, HeapInv, CounterExact
  <2>. QED
    BY <2>1, InvTypes, InvOwnsOnce DEF MemorySound
<1>. QED
  BY <1>1, <1>2, <1>3, PTL DEF MemorySpec

\* No path of brk, fork, exit or of the loader loses a frame, but for the two that the
\* loader drops: the one it could not map and the one it mapped over (core/elf.cpp).
THEOREM OnlyLoaderLoses == ~Preemptible => (MemorySpec => LostOnlyByLoader)
<1>. SUFFICES ASSUME ~Preemptible PROVE MemorySpec => LostOnlyByLoader
  OBVIOUS
<1>1. MemoryInit => MemoryInv
  BY InitMemoryInv
<1>2. MemoryInv /\ [MemoryNext]_memoryVars => MemoryInv'
  BY NextKept DEF Kept
<1>3. MemoryInv /\ [MemoryNext]_memoryVars => Strays' \subseteq Strays \cup Droppable
  BY NextKept DEF Kept
<1>4. MemoryInv => LostAreStrays
  BY LostIsStrays
<1>5. /\ LostAreStrays /\ LostAreStrays'
      /\ MemoryInv /\ [MemoryNext]_memoryVars => Strays' \subseteq Strays \cup Droppable
      => (MemoryInv /\ [MemoryNext]_memoryVars => Lost' \subseteq Lost \cup Droppable)
  BY DEF LostAreStrays
<1>. QED
  BY <1>1, <1>2, <1>3, <1>4, <1>5, PTL DEF MemorySpec, LostOnlyByLoader

\* While the break of a running process stays, so do its mappings: a brk that fails on some
\* page is undone, and no other call touches them (core/syscalls.cpp, Handle_sys_brk()).
THEOREM BrkAllOrNothing == ~Preemptible => (MemorySpec => FailedBrkUndone)
<1>. SUFFICES ASSUME ~Preemptible PROVE MemorySpec => FailedBrkUndone
  OBVIOUS
<1>1. MemoryInit => MemoryInv
  BY InitMemoryInv
<1>2. MemoryInv /\ [MemoryNext]_memoryVars => MemoryInv'
  BY NextKept DEF Kept
<1>3. MemoryInv /\ [MemoryNext]_memoryVars =>
        \A p \in running \cap running' : heap'[p].end = heap[p].end => ptes'[p] = ptes[p]
  BY NextKept DEF Kept, Undone
<1>. QED
  BY <1>1, <1>2, <1>3, PTL DEF MemorySpec, FailedBrkUndone

================================================================================

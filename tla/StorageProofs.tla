------------------------------ MODULE StorageProofs ------------------------------
(***************************************************************************)
(* The disk is a sound volume at every moment, so after every power cut,   *)
(* and descriptors, slots and directory positions keep in order: proved    *)
(* for any numbers of clusters, slots, descriptors and settings programs,  *)
(* any size of a sector, any files and any sound disk to begin with.       *)
(*                                                                         *)
(* The loops over chains, sectors and names are recursive functions.  What *)
(* holds of each pass of one is shown by looking at the least pass at      *)
(* which it would not.                                                     *)
(***************************************************************************)
EXTENDS Storage, FunctionTheorems, SequenceTheorems, WellFoundedInduction, TLAPS

\* A nonempty set of naturals has a least element.
LEMMA LeastNat ==
    ASSUME NEW T, T \subseteq Nat, T # {}
    PROVE  \E x \in T : \A y \in T : x <= y
<1>1. IsWellFoundedOn(OpToRel(<, Nat), Nat)
  BY NatLessThanWellFounded
<1>2. PICK x \in T : \A y \in T : ~ (<<y, x>> \in OpToRel(<, Nat))
  BY <1>1, WFMin
<1>3. \A y \in T : ~ (y < x)
  BY <1>2 DEF OpToRel
<1>. QED
  BY <1>3

\* A sequence of clusters without repetition is no longer than the volume.
LEMMA Pigeons ==
    ASSUME NEW q \in Seq(Clusters), \A i, j \in 1 .. Len(q) : q[i] = q[j] => i = j
    PROVE  Len(q) <= NClusters
<1>1. Len(q) \in Nat /\ NClusters \in Nat /\ q \in [1 .. Len(q) -> 1 .. NClusters]
  BY VolumeAssumption DEF Clusters
<1>2. q \in Injection(1 .. Len(q), 1 .. NClusters)
  BY <1>1 DEF Injection, IsInjective
<1>3. ExistsInjection(1 .. Len(q), 1 .. NClusters)
  BY <1>2 DEF ExistsInjection
<1>. QED
  BY <1>1, <1>3, Fun_NatInjLeq

-------------------------------------------------------------------------------
(* Loops. *)

\* Pass n of a loop whose context is a; r is what the pass before it left.
LoopStep(kind, a, r, n) ==
    CASE kind = "walk"    -> Followed(a, r)
      [] kind = "free"    -> put_fat(r, a[n], Free)
      [] kind = "stretch" -> Stretch(r, a)
      [] kind = "write"   -> WritePiece(r, a[1][n], a[2], a[3])
      [] kind = "read"    -> ReadNext(r, a[n])
      [] kind = "sum"     -> r + a[1][a[2][n]]

\* f records a loop of m passes.
IsLoop(f, kind, a, start, m) ==
    /\ f = [n \in 0 .. m |-> f[n]]
    /\ f[0] = start
    /\ \A n \in 1 .. m : f[n] = LoopStep(kind, a, f[n-1], n)

LEMMA LoopExists ==
    ASSUME NEW kind, NEW a, NEW start, NEW m \in Nat
    PROVE  \E f : IsLoop(f, kind, a, start, m)
<1>. DEFINE T == {i \in Nat : ~ \E f : IsLoop(f, kind, a, start, i)}
<1>. SUFFICES ASSUME T # {} PROVE FALSE
  OBVIOUS
<1>1. PICK i \in T : \A l \in T : i <= l
  <2>1. T \subseteq Nat
    OBVIOUS
  <2>. HIDE DEF T
  <2>. QED
    BY <2>1, LeastNat
<1>2. i # 0
  <2>1. PICK f : f = [n \in 0 .. 0 |-> start]
    OBVIOUS
  <2>2. f[0] = start /\ f = [n \in 0 .. 0 |-> f[n]]
    BY <2>1
  <2>3. IsLoop(f, kind, a, start, 0)
    BY <2>2 DEF IsLoop
  <2>. QED
    BY <2>3
<1>3. i \in Nat /\ i - 1 \in Nat /\ i - 1 \notin T
  BY <1>1, <1>2
<1>4. PICK f : IsLoop(f, kind, a, start, i - 1)
  BY <1>3
<1>. DEFINE g == [n \in 0 .. i |-> IF n = i THEN LoopStep(kind, a, f[i - 1], i) ELSE f[n]]
<1>5. IsLoop(g, kind, a, start, i)
  <2>1. g = [n \in 0 .. i |-> g[n]]
    OBVIOUS
  <2>2. g[0] = start
    BY <1>2, <1>3, <1>4 DEF IsLoop
  <2>3. ASSUME NEW n \in 1 .. i PROVE g[n] = LoopStep(kind, a, g[n-1], n)
    <3>1. n - 1 \in 0 .. i /\ n - 1 # i /\ n \in 0 .. i
      BY <1>3
    <3>2. g[n-1] = f[n-1]
      BY <3>1
    <3>3. CASE n = i
      BY <3>1, <3>2, <3>3
    <3>4. CASE n # i
      <4>1. n \in 1 .. (i - 1)
        BY <1>3, <3>4
      <4>2. f[n] = LoopStep(kind, a, f[n-1], n)
        BY <1>4, <4>1 DEF IsLoop
      <4>. QED
        BY <3>1, <3>2, <3>4, <4>2
    <3>. QED
      BY <3>3, <3>4
  <2>. HIDE DEF g
  <2>. QED
    BY <2>1, <2>2, <2>3 DEF IsLoop
<1>. QED
  BY <1>1, <1>3, <1>5

\* Where the walk along a chain begins.
WalkStart(c) == IF c \in Clusters THEN << c >> ELSE << >>

\* Chain walks along the table.
LEMMA ChainIsLoop ==
    ASSUME NEW fat, NEW c
    PROVE  \E f : IsLoop(f, "walk", fat, WalkStart(c), NClusters) /\ Chain(fat, c) = f[NClusters]
<1>. DEFINE m == NClusters
            Body(f) == [n \in 0 .. m |-> IF n = 0 THEN WalkStart(c) ELSE Followed(fat, f[n-1])]
            loop == CHOOSE f : f = Body(f)
<1>0. m \in Nat
  BY VolumeAssumption
<1>1. Chain(fat, c) = loop[m]
  BY DEF Chain, WalkStart
<1>2. \A r, n : LoopStep("walk", fat, r, n) = Followed(fat, r)
  BY DEF LoopStep
<1>. HIDE DEF m
<1>3. PICK g : IsLoop(g, "walk", fat, WalkStart(c), m)
  BY <1>0, LoopExists
<1>4. g = Body(g)
  <2>1. ASSUME NEW n \in 0 .. m PROVE g[n] = Body(g)[n]
    <3>1. n = 0 \/ n \in 1 .. m
      BY <1>0
    <3>. QED
      BY <1>2, <1>3, <3>1 DEF IsLoop
  <2>2. g = [n \in 0 .. m |-> g[n]]
    BY <1>3 DEF IsLoop
  <2>. QED
    BY <2>1, <2>2
<1>5. loop = Body(loop)
  BY <1>4
<1>6. ASSUME NEW f, f = Body(f)
      PROVE  IsLoop(f, "walk", fat, WalkStart(c), m)
  <2>1. f = [n \in 0 .. m |-> f[n]]
    BY <1>6
  <2>2. f[0] = WalkStart(c)
    <3>1. 0 \in 0 .. m
      BY <1>0
    <3>2. f[0] = Body(f)[0]
      BY <1>6
    <3>. QED
      BY <3>1, <3>2
  <2>3. ASSUME NEW n \in 1 .. m PROVE f[n] = LoopStep("walk", fat, f[n-1], n)
    <3>1. n \in 0 .. m /\ n # 0
      BY <1>0
    <3>2. f[n] = Body(f)[n]
      BY <1>6
    <3>. QED
      BY <1>2, <3>1, <3>2
  <2>. QED
    BY <2>1, <2>2, <2>3 DEF IsLoop
<1>7. IsLoop(loop, "walk", fat, WalkStart(c), m)
  BY <1>5, <1>6
<1>. QED
  BY <1>1, <1>7 DEF m

\* remove_chain() frees one cluster at a time.
LEMMA RemoveIsLoop ==
    ASSUME NEW S, NEW c, Len(Chain(S.fat, c)) \in Nat
    PROVE  \E f : IsLoop(f, "free", Chain(S.fat, c), move_window(S, "fat"), Len(Chain(S.fat, c))) /\ remove_chain(S, c) = f[Len(Chain(S.fat, c))]
<1>. DEFINE m == Len(Chain(S.fat, c))
            Body(f) == [n \in 0 .. m |-> IF n = 0 THEN move_window(S, "fat") ELSE put_fat(f[n-1], Chain(S.fat, c)[n], Free)]
            loop == CHOOSE f : f = Body(f)
<1>0. m \in Nat
  OBVIOUS
<1>1. remove_chain(S, c) = loop[m]
  BY DEF remove_chain
<1>2. \A r, n : LoopStep("free", Chain(S.fat, c), r, n) = put_fat(r, Chain(S.fat, c)[n], Free)
  BY DEF LoopStep
<1>. HIDE DEF m
<1>3. PICK g : IsLoop(g, "free", Chain(S.fat, c), move_window(S, "fat"), m)
  BY <1>0, LoopExists
<1>4. g = Body(g)
  <2>1. ASSUME NEW n \in 0 .. m PROVE g[n] = Body(g)[n]
    <3>1. n = 0 \/ n \in 1 .. m
      BY <1>0
    <3>. QED
      BY <1>2, <1>3, <3>1 DEF IsLoop
  <2>2. g = [n \in 0 .. m |-> g[n]]
    BY <1>3 DEF IsLoop
  <2>. QED
    BY <2>1, <2>2
<1>5. loop = Body(loop)
  BY <1>4
<1>6. ASSUME NEW f, f = Body(f)
      PROVE  IsLoop(f, "free", Chain(S.fat, c), move_window(S, "fat"), m)
  <2>1. f = [n \in 0 .. m |-> f[n]]
    BY <1>6
  <2>2. f[0] = move_window(S, "fat")
    <3>1. 0 \in 0 .. m
      BY <1>0
    <3>2. f[0] = Body(f)[0]
      BY <1>6
    <3>. QED
      BY <3>1, <3>2
  <2>3. ASSUME NEW n \in 1 .. m PROVE f[n] = LoopStep("free", Chain(S.fat, c), f[n-1], n)
    <3>1. n \in 0 .. m /\ n # 0
      BY <1>0
    <3>2. f[n] = Body(f)[n]
      BY <1>6
    <3>. QED
      BY <1>2, <3>1, <3>2
  <2>. QED
    BY <2>1, <2>2, <2>3 DEF IsLoop
<1>7. IsLoop(loop, "free", Chain(S.fat, c), move_window(S, "fat"), m)
  BY <1>5, <1>6
<1>. QED
  BY <1>1, <1>7 DEF m

\* f_lseek() adds one cluster at a time.
LEMMA StretchIsLoop ==
    ASSUME NEW start, NEW need \in Nat
    PROVE  \E f : IsLoop(f, "stretch", need, start, need) /\ StretchTo(start, need) = f[need]
<1>. DEFINE m == need
            Body(f) == [n \in 0 .. m |-> IF n = 0 THEN start ELSE Stretch(f[n-1], need)]
            loop == CHOOSE f : f = Body(f)
<1>0. m \in Nat
  OBVIOUS
<1>1. StretchTo(start, need) = loop[m]
  BY DEF StretchTo
<1>2. \A r, n : LoopStep("stretch", need, r, n) = Stretch(r, need)
  BY DEF LoopStep
<1>. HIDE DEF m
<1>3. PICK g : IsLoop(g, "stretch", need, start, m)
  BY <1>0, LoopExists
<1>4. g = Body(g)
  <2>1. ASSUME NEW n \in 0 .. m PROVE g[n] = Body(g)[n]
    <3>1. n = 0 \/ n \in 1 .. m
      BY <1>0
    <3>. QED
      BY <1>2, <1>3, <3>1 DEF IsLoop
  <2>2. g = [n \in 0 .. m |-> g[n]]
    BY <1>3 DEF IsLoop
  <2>. QED
    BY <2>1, <2>2
<1>5. loop = Body(loop)
  BY <1>4
<1>6. ASSUME NEW f, f = Body(f)
      PROVE  IsLoop(f, "stretch", need, start, m)
  <2>1. f = [n \in 0 .. m |-> f[n]]
    BY <1>6
  <2>2. f[0] = start
    <3>1. 0 \in 0 .. m
      BY <1>0
    <3>2. f[0] = Body(f)[0]
      BY <1>6
    <3>. QED
      BY <3>1, <3>2
  <2>3. ASSUME NEW n \in 1 .. m PROVE f[n] = LoopStep("stretch", need, f[n-1], n)
    <3>1. n \in 0 .. m /\ n # 0
      BY <1>0
    <3>2. f[n] = Body(f)[n]
      BY <1>6
    <3>. QED
      BY <1>2, <3>1, <3>2
  <2>. QED
    BY <2>1, <2>2, <2>3 DEF IsLoop
<1>7. IsLoop(loop, "stretch", need, start, m)
  BY <1>5, <1>6
<1>. QED
  BY <1>1, <1>7 DEF m

\* f_write() writes one piece at a time.
LEMMA WriteIsLoop ==
    ASSUME NEW start, NEW pieces, Len(pieces) \in Nat, NEW from, NEW units
    PROVE  \E f : IsLoop(f, "write", <<pieces, from, units>>, start, Len(pieces)) /\ WritePieces(start, pieces, from, units) = f[Len(pieces)]
<1>. DEFINE m == Len(pieces)
            Body(f) == [n \in 0 .. m |-> IF n = 0 THEN start ELSE WritePiece(f[n-1], pieces[n], from, units)]
            loop == CHOOSE f : f = Body(f)
<1>0. m \in Nat
  OBVIOUS
<1>1. WritePieces(start, pieces, from, units) = loop[m]
  BY DEF WritePieces
<1>2. \A r, n : LoopStep("write", <<pieces, from, units>>, r, n) = WritePiece(r, pieces[n], from, units)
  BY DEF LoopStep
<1>. HIDE DEF m
<1>3. PICK g : IsLoop(g, "write", <<pieces, from, units>>, start, m)
  BY <1>0, LoopExists
<1>4. g = Body(g)
  <2>1. ASSUME NEW n \in 0 .. m PROVE g[n] = Body(g)[n]
    <3>1. n = 0 \/ n \in 1 .. m
      BY <1>0
    <3>. QED
      BY <1>2, <1>3, <3>1 DEF IsLoop
  <2>2. g = [n \in 0 .. m |-> g[n]]
    BY <1>3 DEF IsLoop
  <2>. QED
    BY <2>1, <2>2
<1>5. loop = Body(loop)
  BY <1>4
<1>6. ASSUME NEW f, f = Body(f)
      PROVE  IsLoop(f, "write", <<pieces, from, units>>, start, m)
  <2>1. f = [n \in 0 .. m |-> f[n]]
    BY <1>6
  <2>2. f[0] = start
    <3>1. 0 \in 0 .. m
      BY <1>0
    <3>2. f[0] = Body(f)[0]
      BY <1>6
    <3>. QED
      BY <3>1, <3>2
  <2>3. ASSUME NEW n \in 1 .. m PROVE f[n] = LoopStep("write", <<pieces, from, units>>, f[n-1], n)
    <3>1. n \in 0 .. m /\ n # 0
      BY <1>0
    <3>2. f[n] = Body(f)[n]
      BY <1>6
    <3>. QED
      BY <1>2, <3>1, <3>2
  <2>. QED
    BY <2>1, <2>2, <2>3 DEF IsLoop
<1>7. IsLoop(loop, "write", <<pieces, from, units>>, start, m)
  BY <1>5, <1>6
<1>. QED
  BY <1>1, <1>7 DEF m

\* f_read() reads one piece at a time.
LEMMA ReadIsLoop ==
    ASSUME NEW start, NEW pieces, Len(pieces) \in Nat
    PROVE  \E f : IsLoop(f, "read", pieces, start, Len(pieces)) /\ ReadPieces(start, pieces) = f[Len(pieces)]
<1>. DEFINE m == Len(pieces)
            Body(f) == [n \in 0 .. m |-> IF n = 0 THEN start ELSE ReadNext(f[n-1], pieces[n])]
            loop == CHOOSE f : f = Body(f)
<1>0. m \in Nat
  OBVIOUS
<1>1. ReadPieces(start, pieces) = loop[m]
  BY DEF ReadPieces
<1>2. \A r, n : LoopStep("read", pieces, r, n) = ReadNext(r, pieces[n])
  BY DEF LoopStep
<1>. HIDE DEF m
<1>3. PICK g : IsLoop(g, "read", pieces, start, m)
  BY <1>0, LoopExists
<1>4. g = Body(g)
  <2>1. ASSUME NEW n \in 0 .. m PROVE g[n] = Body(g)[n]
    <3>1. n = 0 \/ n \in 1 .. m
      BY <1>0
    <3>. QED
      BY <1>2, <1>3, <3>1 DEF IsLoop
  <2>2. g = [n \in 0 .. m |-> g[n]]
    BY <1>3 DEF IsLoop
  <2>. QED
    BY <2>1, <2>2
<1>5. loop = Body(loop)
  BY <1>4
<1>6. ASSUME NEW f, f = Body(f)
      PROVE  IsLoop(f, "read", pieces, start, m)
  <2>1. f = [n \in 0 .. m |-> f[n]]
    BY <1>6
  <2>2. f[0] = start
    <3>1. 0 \in 0 .. m
      BY <1>0
    <3>2. f[0] = Body(f)[0]
      BY <1>6
    <3>. QED
      BY <3>1, <3>2
  <2>3. ASSUME NEW n \in 1 .. m PROVE f[n] = LoopStep("read", pieces, f[n-1], n)
    <3>1. n \in 0 .. m /\ n # 0
      BY <1>0
    <3>2. f[n] = Body(f)[n]
      BY <1>6
    <3>. QED
      BY <1>2, <3>1, <3>2
  <2>. QED
    BY <2>1, <2>2, <2>3 DEF IsLoop
<1>7. IsLoop(loop, "read", pieces, start, m)
  BY <1>5, <1>6
<1>. QED
  BY <1>1, <1>7 DEF m

\* Total adds one length at a time.
LEMMA TotalIsLoop ==
    ASSUME NEW len, NEW names, Len(names) \in Nat
    PROVE  \E f : IsLoop(f, "sum", <<len, names>>, 0, Len(names)) /\ Total(len, names) = f[Len(names)]
<1>. DEFINE m == Len(names)
            Body(f) == [n \in 0 .. m |-> IF n = 0 THEN 0 ELSE f[n-1] + len[names[n]]]
            loop == CHOOSE f : f = Body(f)
<1>0. m \in Nat
  OBVIOUS
<1>1. Total(len, names) = loop[m]
  BY DEF Total
<1>2. \A r, n : LoopStep("sum", <<len, names>>, r, n) = r + len[names[n]]
  BY DEF LoopStep
<1>. HIDE DEF m
<1>3. PICK g : IsLoop(g, "sum", <<len, names>>, 0, m)
  BY <1>0, LoopExists
<1>4. g = Body(g)
  <2>1. ASSUME NEW n \in 0 .. m PROVE g[n] = Body(g)[n]
    <3>1. n = 0 \/ n \in 1 .. m
      BY <1>0
    <3>. QED
      BY <1>2, <1>3, <3>1 DEF IsLoop
  <2>2. g = [n \in 0 .. m |-> g[n]]
    BY <1>3 DEF IsLoop
  <2>. QED
    BY <2>1, <2>2
<1>5. loop = Body(loop)
  BY <1>4
<1>6. ASSUME NEW f, f = Body(f)
      PROVE  IsLoop(f, "sum", <<len, names>>, 0, m)
  <2>1. f = [n \in 0 .. m |-> f[n]]
    BY <1>6
  <2>2. f[0] = 0
    <3>1. 0 \in 0 .. m
      BY <1>0
    <3>2. f[0] = Body(f)[0]
      BY <1>6
    <3>. QED
      BY <3>1, <3>2
  <2>3. ASSUME NEW n \in 1 .. m PROVE f[n] = LoopStep("sum", <<len, names>>, f[n-1], n)
    <3>1. n \in 0 .. m /\ n # 0
      BY <1>0
    <3>2. f[n] = Body(f)[n]
      BY <1>6
    <3>. QED
      BY <1>2, <3>1, <3>2
  <2>. QED
    BY <2>1, <2>2, <2>3 DEF IsLoop
<1>7. IsLoop(loop, "sum", <<len, names>>, 0, m)
  BY <1>5, <1>6
<1>. QED
  BY <1>1, <1>7 DEF m

-------------------------------------------------------------------------------
(* Chains. A root is no cluster's successor and no cluster has two          *)
(* predecessors, so that a walk from a root never comes back and the walks   *)
(* from two roots never meet.                                               *)

\* q follows the table from r on, for some way.
Walked(fat, r, q) ==
    /\ q \in Seq(Clusters)
    /\ Len(q) >= 1 /\ q[1] = r
    /\ \A i \in 1 .. Len(q) - 1 : q[i+1] = fat[q[i]]
    /\ \A i \in 1 .. Len(q) : fat[q[i]] # Free

\* q is the chain of r.
IsChain(fat, r, q) == Walked(fat, r, q) /\ fat[q[Len(q)]] \notin Clusters

LEMMA ClusterFacts ==
    /\ NClusters \in Nat /\ NClusters >= 1
    /\ Clusters = 1 .. NClusters
    /\ EOC \notin Clusters /\ Free \notin Clusters /\ EOC # Free
    /\ EOC \in Free .. EOC /\ Free \in Free .. EOC /\ Clusters \subseteq Free .. EOC
    /\ Clusters \subseteq Nat /\ 0 \notin Clusters
    /\ Free = 0
  BY VolumeAssumption DEF Clusters, EOC, Free

LEMMA WalkStep ==
    ASSUME NEW fat, NEW r, Linked(fat), NEW q, Walked(fat, r, q),
           NEW p, p = Followed(fat, q)
    PROVE  /\ Walked(fat, r, p)
           /\ IF fat[q[Len(q)]] \in Clusters THEN Len(p) = Len(q) + 1 ELSE p = q
<1>1. q \in Seq(Clusters) /\ Len(q) \in Nat /\ Len(q) >= 1 /\ q # << >>
  BY DEF Walked
<1>2. q[Len(q)] \in Clusters
  BY <1>1
<1>3. CASE fat[q[Len(q)]] \notin Clusters
  BY <1>1, <1>3 DEF Followed, Last
<1>4. CASE fat[q[Len(q)]] \in Clusters
  <2>. DEFINE x == fat[q[Len(q)]]
  <2>1. p = Append(q, x)
    BY <1>1, <1>4 DEF Followed, Last
  <2>2. /\ p \in Seq(Clusters) /\ Len(p) = Len(q) + 1 /\ p[Len(q) + 1] = x
        /\ \A i \in 1 .. Len(q) : p[i] = q[i]
    BY <1>1, <1>4, <2>1
  <2>3. fat[x] # Free
    BY <1>2, <1>4 DEF Linked
  <2>4. \A i \in 1 .. Len(p) : fat[p[i]] # Free
    BY <1>1, <2>2, <2>3 DEF Walked
  <2>5. \A i \in 1 .. Len(p) - 1 : p[i+1] = fat[p[i]]
    <3>. TAKE i \in 1 .. Len(p) - 1
    <3>1. CASE i = Len(q)
      BY <1>1, <2>2, <3>1
    <3>2. CASE i # Len(q)
      <4>1. i \in 1 .. Len(q) - 1 /\ i \in 1 .. Len(q) /\ i + 1 \in 1 .. Len(q)
        BY <1>1, <2>2, <3>2
      <4>. QED
        BY <2>2, <4>1 DEF Walked
    <3>. QED
      BY <3>1, <3>2
  <2>6. p[1] = r /\ Len(p) >= 1
    BY <1>1, <2>2 DEF Walked
  <2>. QED
    BY <1>4, <2>2, <2>4, <2>5, <2>6 DEF Walked
<1>. QED
  BY <1>3, <1>4

\* Walks from roots meet only when they are the same walk.
LEMMA WalksMeet ==
    ASSUME NEW fat, Linked(fat), NEW r, Root(fat, r), NEW s, Root(fat, s),
           NEW q, Walked(fat, r, q), NEW p, Walked(fat, s, p),
           NEW i \in 1 .. Len(q), NEW j \in 1 .. Len(p), q[i] = p[j]
    PROVE  i = j /\ r = s
<1>. DEFINE Bad(m) == /\ m \in 1 .. Len(q)
                      /\ \E n \in 1 .. Len(p) : q[m] = p[n] /\ ~(m = n /\ r = s)
            T == {m \in Nat : Bad(m)}
<1>0. /\ q \in Seq(Clusters) /\ Len(q) \in Nat /\ Len(q) >= 1
      /\ p \in Seq(Clusters) /\ Len(p) \in Nat /\ Len(p) >= 1
      /\ q[1] = r /\ p[1] = s
  BY DEF Walked
<1>. SUFFICES ASSUME ~(i = j /\ r = s) PROVE FALSE
  OBVIOUS
<1>1. Bad(i) /\ i \in Nat
  BY <1>0
<1>2. PICK m \in T : \A l \in T : m <= l
  <2>1. T \subseteq Nat /\ T # {}
    BY <1>1
  <2>. HIDE DEF T
  <2>. QED
    BY <2>1, LeastNat
<1>3. Bad(m) /\ m \in 1 .. Len(q)
  OBVIOUS
<1>4. PICK n \in 1 .. Len(p) : q[m] = p[n] /\ ~(m = n /\ r = s)
  BY <1>3
<1>5. q[m] \in Clusters
  BY <1>0, <1>3
<1>6. CASE m = 1
  <2>1. n # 1
    BY <1>0, <1>4, <1>6
  <2>2. n - 1 \in 1 .. Len(p) - 1 /\ n - 1 \in 1 .. Len(p)
    BY <1>0, <2>1
  <2>3. p[(n - 1) + 1] = fat[p[n - 1]] /\ p[n-1] \in Clusters /\ (n - 1) + 1 = n
    BY <1>0, <2>2 DEF Walked
  <2>. QED
    BY <1>0, <1>4, <1>6, <2>3 DEF Root
<1>7. CASE m # 1
  <2>1. m - 1 \in 1 .. Len(q) - 1 /\ m - 1 \in 1 .. Len(q) /\ m - 1 \in Nat /\ (m - 1) + 1 = m
    BY <1>0, <1>3, <1>7
  <2>2. q[m] = fat[q[m - 1]] /\ q[m - 1] \in Clusters
    BY <1>0, <2>1 DEF Walked
  <2>3. n # 1
    BY <1>0, <1>4, <2>2 DEF Root
  <2>4. n - 1 \in 1 .. Len(p) - 1 /\ n - 1 \in 1 .. Len(p) /\ (n - 1) + 1 = n
    BY <1>0, <2>3
  <2>5. p[n] = fat[p[n - 1]] /\ p[n - 1] \in Clusters
    BY <1>0, <2>4 DEF Walked
  <2>6. q[m - 1] = p[n - 1]
    BY <1>4, <1>5, <2>2, <2>5 DEF Linked
  <2>7. ~(m - 1 = n - 1 /\ r = s)
    BY <1>3, <1>4
  <2>8. m - 1 \in T
    BY <2>1, <2>4, <2>6, <2>7
  <2>9. m <= m - 1
    BY <1>2, <2>8
  <2>. QED
    BY <1>3, <2>9
<1>. QED
  BY <1>6, <1>7

\* A chain is a chain: the walk of Chain comes to its end.
LEMMA ChainFacts ==
    ASSUME NEW fat, Linked(fat), NEW r, Root(fat, r)
    PROVE  IsChain(fat, r, Chain(fat, r))
<1>1. PICK f : IsLoop(f, "walk", fat, WalkStart(r), NClusters) /\ Chain(fat, r) = f[NClusters]
  BY ChainIsLoop
<1>2. NClusters \in Nat
  BY ClusterFacts
<1>. DEFINE Good(n) == /\ Walked(fat, r, f[n])
                       /\ fat[f[n][Len(f[n])]] \in Clusters => Len(f[n]) = n + 1
            T == {n \in Nat : n <= NClusters /\ ~Good(n)}
<1>3. T = {}
  <2>. SUFFICES ASSUME T # {} PROVE FALSE
    OBVIOUS
  <2>1. PICK n \in T : \A l \in T : n <= l
    <3>1. T \subseteq Nat
      OBVIOUS
    <3>. HIDE DEF T
    <3>. QED
      BY <3>1, LeastNat
  <2>2. n \in Nat /\ n <= NClusters /\ ~Good(n)
    OBVIOUS
  <2>3. CASE n = 0
    <3>1. f[0] = << r >>
      BY <1>1 DEF IsLoop, WalkStart, Root
    <3>2. /\ << r >> \in Seq(Clusters) /\ Len(<< r >>) = 1 /\ << r >>[1] = r
          /\ fat[r] # Free
      BY DEF Root
    <3>3. PICK q : q = << r >>
      OBVIOUS
    <3>4. q \in Seq(Clusters) /\ Len(q) = 1 /\ q[1] = r /\ f[0] = q
      BY <3>1, <3>2, <3>3
    <3>5. Walked(fat, r, q)
      BY <3>2, <3>4 DEF Walked
    <3>. QED
      BY <2>2, <2>3, <3>4, <3>5
  <2>4. CASE n # 0
    <3>1. n - 1 \in Nat /\ n - 1 <= NClusters /\ n \in 1 .. NClusters /\ n - 1 \notin T
      BY <1>2, <2>1, <2>2, <2>4
    <3>2. PICK q : q = f[n - 1]
      OBVIOUS
    <3>3. Walked(fat, r, q) /\ (fat[q[Len(q)]] \in Clusters => Len(q) = n)
      <4>1. Good(n - 1)
        BY <3>1
      <4>. QED
        BY <2>2, <3>2, <4>1
    <3>4. f[n] = Followed(fat, q)
      BY <1>1, <3>1, <3>2 DEF IsLoop, LoopStep
    <3>5. /\ Walked(fat, r, f[n])
          /\ IF fat[q[Len(q)]] \in Clusters THEN Len(f[n]) = Len(q) + 1 ELSE f[n] = q
      BY <3>3, <3>4, WalkStep
    <3>6. fat[f[n][Len(f[n])]] \in Clusters => Len(f[n]) = n + 1
      BY <3>3, <3>5
    <3>. QED
      BY <2>2, <3>5, <3>6
  <2>. QED
    BY <2>3, <2>4
<1>4. Good(NClusters)
  BY <1>2, <1>3
<1>5. PICK q : q = Chain(fat, r)
  OBVIOUS
<1>6. Walked(fat, r, q) /\ (fat[q[Len(q)]] \in Clusters => Len(q) = NClusters + 1)
  BY <1>1, <1>4, <1>5
<1>7. Len(q) <= NClusters
  <2>1. q \in Seq(Clusters)
    BY <1>6 DEF Walked
  <2>2. \A i, j \in 1 .. Len(q) : q[i] = q[j] => i = j
    BY <1>6, WalksMeet
  <2>. QED
    BY <2>1, <2>2, Pigeons
<1>. QED
  BY <1>2, <1>5, <1>6, <1>7 DEF IsChain

LEMMA ChainUnique ==
    ASSUME NEW fat, NEW r, NEW q, IsChain(fat, r, q), NEW p, IsChain(fat, r, p)
    PROVE  q = p
<1>0. /\ q \in Seq(Clusters) /\ Len(q) \in Nat /\ Len(q) >= 1
      /\ p \in Seq(Clusters) /\ Len(p) \in Nat /\ Len(p) >= 1
      /\ q[1] = r /\ p[1] = r
      /\ fat[q[Len(q)]] \notin Clusters /\ fat[p[Len(p)]] \notin Clusters
      /\ \A i \in 1 .. Len(q) - 1 : q[i+1] = fat[q[i]]
      /\ \A i \in 1 .. Len(p) - 1 : p[i+1] = fat[p[i]]
  BY DEF IsChain, Walked
<1>. DEFINE T == {m \in Nat : m \in 1 .. Len(q) /\ m \in 1 .. Len(p) /\ q[m] # p[m]}
<1>1. T = {}
  <2>. SUFFICES ASSUME T # {} PROVE FALSE
    OBVIOUS
  <2>1. PICK m \in T : \A l \in T : m <= l
    <3>1. T \subseteq Nat
      OBVIOUS
    <3>. HIDE DEF T
    <3>. QED
      BY <3>1, LeastNat
  <2>2. m # 1
    BY <1>0
  <2>3. /\ m - 1 \in Nat /\ m - 1 \in 1 .. Len(q) - 1 /\ m - 1 \in 1 .. Len(p) - 1
        /\ m - 1 \notin T /\ (m - 1) + 1 = m
    BY <1>0, <2>1, <2>2, SMTT(20)
  <2>4. q[m - 1] = p[m - 1]
    BY <1>0, <2>3
  <2>. QED
    BY <1>0, <2>3, <2>4
<1>2. ASSUME NEW m \in 1 .. Len(q), m \in 1 .. Len(p)
      PROVE  q[m] = p[m]
  <2>1. m \in Nat
    BY <1>0
  <2>2. m \notin T
    BY <1>1
  <2>. QED
    BY <1>2, <2>1, <2>2
<1>3. Len(q) = Len(p)
  <2>1. CASE Len(q) < Len(p)
    <3>1. Len(q) \in 1 .. Len(p) - 1 /\ Len(q) + 1 \in 1 .. Len(p) /\ Len(q) \in 1 .. Len(p)
          /\ Len(q) \in 1 .. Len(q)
      BY <1>0, <2>1
    <3>2. p[Len(q) + 1] \in Clusters /\ p[Len(q) + 1] = fat[p[Len(q)]] /\ q[Len(q)] = p[Len(q)]
      BY <1>0, <1>2, <3>1
    <3>. QED
      BY <1>0, <3>2
  <2>2. CASE Len(p) < Len(q)
    <3>1. Len(p) \in 1 .. Len(q) - 1 /\ Len(p) + 1 \in 1 .. Len(q) /\ Len(p) \in 1 .. Len(p)
          /\ Len(p) \in 1 .. Len(q)
      BY <1>0, <2>2
    <3>2. q[Len(p) + 1] \in Clusters /\ q[Len(p) + 1] = fat[q[Len(p)]] /\ q[Len(p)] = p[Len(p)]
      BY <1>0, <1>2, <3>1
    <3>. QED
      BY <1>0, <3>2
  <2>. QED
    BY <1>0, <2>1, <2>2
<1>. QED
  BY <1>0, <1>2, <1>3

\* To know a chain it is enough to show one.
LEMMA ChainIs ==
    ASSUME NEW fat, Linked(fat), NEW r, Root(fat, r), NEW q, IsChain(fat, r, q)
    PROVE  Chain(fat, r) = q
  BY ChainFacts, ChainUnique

LEMMA NoChain ==
    ASSUME NEW fat
    PROVE  Chain(fat, 0) = << >>
<1>1. PICK f : IsLoop(f, "walk", fat, WalkStart(0), NClusters) /\ Chain(fat, 0) = f[NClusters]
  BY ChainIsLoop
<1>2. NClusters \in Nat /\ 0 \notin Clusters
  BY ClusterFacts
<1>. DEFINE T == {n \in Nat : n <= NClusters /\ f[n] # << >>}
<1>3. T = {}
  <2>. SUFFICES ASSUME T # {} PROVE FALSE
    OBVIOUS
  <2>1. PICK n \in T : \A l \in T : n <= l
    <3>1. T \subseteq Nat
      OBVIOUS
    <3>. HIDE DEF T
    <3>. QED
      BY <3>1, LeastNat
  <2>2. n # 0
    BY <1>1, <1>2 DEF IsLoop, WalkStart
  <2>3. n - 1 \in Nat /\ n - 1 <= NClusters /\ n \in 1 .. NClusters /\ n - 1 \notin T
    BY <1>2, <2>1, <2>2
  <2>4. f[n - 1] = << >>
    BY <2>3
  <2>5. f[n] = Followed(fat, f[n - 1])
    BY <1>1, <2>3 DEF IsLoop, LoopStep
  <2>. QED
    BY <2>4, <2>5 DEF Followed
<1>. QED
  BY <1>1, <1>2, <1>3

-------------------------------------------------------------------------------
(* Changes of the table. *)

\* The table with value in cell c.
SetCell(fat, c, value) == [fat EXCEPT ![c] = value]

\* The table fat2 has every chain of fat, as long as it was or longer.
Grown(fat, fat2) ==
    /\ Linked(fat2)
    /\ \A c \in Clusters : fat[c] # Free => fat2[c] # Free
    /\ \A r : Root(fat, r) => Root(fat2, r) /\ Len(Chain(fat2, r)) >= Len(Chain(fat, r))

LEMMA ChainLength ==
    ASSUME NEW fat, Linked(fat), NEW r, r = 0 \/ Root(fat, r)
    PROVE  Len(Chain(fat, r)) \in Nat /\ (r # 0 => Len(Chain(fat, r)) >= 1)
                                     /\ (r = 0 => Len(Chain(fat, r)) = 0)
<1>1. CASE r = 0
  <2>1. Chain(fat, r) = << >>
    BY <1>1, NoChain
  <2>. QED
    BY <1>1, <2>1
<1>2. CASE r # 0
  <2>1. IsChain(fat, r, Chain(fat, r))
    BY <1>2, ChainFacts
  <2>. QED
    BY <1>2, <2>1 DEF IsChain, Walked
<1>. QED
  BY <1>1, <1>2

LEMMA GrownRefl ==
    ASSUME NEW fat, Linked(fat)
    PROVE  Grown(fat, fat)
  BY ChainLength DEF Grown

LEMMA GrownTrans ==
    ASSUME NEW fat, Linked(fat), NEW fat2, Grown(fat, fat2), NEW fat3, Grown(fat2, fat3)
    PROVE  Grown(fat, fat3)
<1>1. ASSUME NEW r, Root(fat, r)
      PROVE  Root(fat3, r) /\ Len(Chain(fat3, r)) >= Len(Chain(fat, r))
  <2>1. Root(fat2, r) /\ Len(Chain(fat2, r)) >= Len(Chain(fat, r))
    BY <1>1 DEF Grown
  <2>2. Root(fat3, r) /\ Len(Chain(fat3, r)) >= Len(Chain(fat2, r))
    BY <2>1 DEF Grown
  <2>3. Linked(fat2) /\ Linked(fat3)
    BY DEF Grown
  <2>4. Len(Chain(fat, r)) \in Nat /\ Len(Chain(fat2, r)) \in Nat /\ Len(Chain(fat3, r)) \in Nat
    BY <1>1, <2>1, <2>2, <2>3, ChainLength
  <2>. QED
    BY <2>1, <2>2, <2>4
<1>. QED
  BY <1>1 DEF Grown

\* A chain whose clusters the change leaves alone stays.
LEMMA ChainStays ==
    ASSUME NEW fat, Linked(fat), NEW r, Root(fat, r), NEW fat2, Linked(fat2), Root(fat2, r),
           \A i \in 1 .. Len(Chain(fat, r)) : fat2[Chain(fat, r)[i]] = fat[Chain(fat, r)[i]]
    PROVE  Chain(fat2, r) = Chain(fat, r)
<1>1. PICK q : q = Chain(fat, r)
  OBVIOUS
<1>2. IsChain(fat, r, q)
  BY <1>1, ChainFacts
<1>3. \A i \in 1 .. Len(q) : fat2[q[i]] = fat[q[i]]
  BY <1>1
<1>4. Len(q) \in Nat /\ Len(q) >= 1
  BY <1>2 DEF IsChain, Walked
<1>5. IsChain(fat2, r, q)
  BY <1>2, <1>3, <1>4 DEF IsChain, Walked
<1>. QED
  BY <1>1, <1>5, ChainIs

\* Only allocated clusters are in a chain.
LEMMA ChainAllocated ==
    ASSUME NEW fat, Linked(fat), NEW r, Root(fat, r), NEW i \in 1 .. Len(Chain(fat, r))
    PROVE  /\ Chain(fat, r)[i] \in Clusters /\ fat[Chain(fat, r)[i]] # Free
           /\ Len(Chain(fat, r)) \in Nat
<1>1. IsChain(fat, r, Chain(fat, r))
  BY ChainFacts
<1>. QED
  BY <1>1 DEF IsChain, Walked

\* A free cluster is marked as the end of a chain.
LEMMA MarkEnd ==
    ASSUME NEW fat, Linked(fat), NEW n \in Clusters, fat[n] = Free,
           NEW fat2, fat2 = SetCell(fat, n, EOC)
    PROVE  /\ Grown(fat, fat2)
           /\ \A r : Root(fat, r) => Chain(fat2, r) = Chain(fat, r)
           /\ Root(fat2, n) /\ Chain(fat2, n) = << n >>
<1>0. /\ fat \in [Clusters -> Free .. EOC]
      /\ fat2 \in [Clusters -> Free .. EOC]
      /\ \A c \in Clusters : fat2[c] = IF c = n THEN EOC ELSE fat[c]
  BY ClusterFacts DEF Linked, SetCell
<1>1. Linked(fat2)
  <2>1. \A c \in Clusters : fat2[c] \in Clusters => c # n /\ fat2[c] = fat[c]
    BY <1>0, ClusterFacts
  <2>2. \A c \in Clusters : fat2[c] \in Clusters => fat2[fat2[c]] # Free
    BY <1>0, <2>1, ClusterFacts DEF Linked
  <2>3. \A c, d \in Clusters : fat2[c] = fat2[d] /\ fat2[c] \in Clusters => c = d
    BY <2>1 DEF Linked
  <2>. QED
    BY <1>0, <2>2, <2>3 DEF Linked
<1>2. ASSUME NEW r, Root(fat, r)
      PROVE  Root(fat2, r) /\ Chain(fat2, r) = Chain(fat, r)
  <2>1. Root(fat2, r)
    BY <1>0, <1>2, ClusterFacts DEF Root
  <2>2. \A i \in 1 .. Len(Chain(fat, r)) : fat2[Chain(fat, r)[i]] = fat[Chain(fat, r)[i]]
    BY <1>0, <1>2, ChainAllocated
  <2>. QED
    BY <1>1, <1>2, <2>1, <2>2, ChainStays
<1>3. Root(fat2, n)
  <2>1. \A c \in Clusters : fat[c] # n
    BY DEF Linked
  <2>. QED
    BY <1>0, <2>1, ClusterFacts DEF Root
<1>4. Chain(fat2, n) = << n >>
  <2>1. PICK q : q = << n >>
    OBVIOUS
  <2>2. q \in Seq(Clusters) /\ Len(q) = 1 /\ q[1] = n
    BY <2>1
  <2>3. IsChain(fat2, n, q)
    BY <1>0, <2>2, ClusterFacts DEF IsChain, Walked
  <2>. QED
    BY <1>1, <1>3, <2>1, <2>3, ChainIs
<1>5. Grown(fat, fat2)
  <2>1. \A c \in Clusters : fat[c] # Free => fat2[c] # Free
    BY <1>0, ClusterFacts
  <2>2. ASSUME NEW r, Root(fat, r)
        PROVE  Root(fat2, r) /\ Len(Chain(fat2, r)) >= Len(Chain(fat, r))
    <3>1. PICK k : k = Len(Chain(fat, r))
      OBVIOUS
    <3>2. k \in Nat
      BY <2>2, <3>1, ChainLength
    <3>3. Len(Chain(fat2, r)) = k /\ Root(fat2, r)
      BY <1>2, <2>2, <3>1
    <3>. QED
      BY <3>1, <3>2, <3>3
  <2>. QED
    BY <1>1, <2>1, <2>2 DEF Grown
<1>. QED
  BY <1>2, <1>3, <1>4, <1>5

\* The end c of a chain is linked to a chain n of one cluster.
LEMMA LinkEnd ==
    ASSUME NEW fat, Linked(fat), NEW c \in Clusters, NEW n \in Clusters, c # n,
           fat[c] # Free, fat[c] \notin Clusters, Root(fat, n), fat[n] = EOC,
           NEW fat2, fat2 = SetCell(fat, c, n)
    PROVE  /\ Linked(fat2)
           /\ \A x \in Clusters : fat[x] # Free => fat2[x] # Free
           /\ \A r : Root(fat, r) /\ r # n =>
                 /\ Root(fat2, r)
                 /\ Len(Chain(fat2, r)) = IF Last(Chain(fat, r)) = c THEN Len(Chain(fat, r)) + 1
                                          ELSE Len(Chain(fat, r))
<1>0. /\ fat \in [Clusters -> Free .. EOC]
      /\ fat2 \in [Clusters -> Free .. EOC]
      /\ \A x \in Clusters : fat2[x] = IF x = c THEN n ELSE fat[x]
  BY ClusterFacts DEF Linked, SetCell
<1>1. \A x \in Clusters : fat[x] # Free => fat2[x] # Free
  BY <1>0, ClusterFacts
<1>2. Linked(fat2)
  <2>1. \A x \in Clusters : fat[x] # n
    BY DEF Root
  <2>2. \A x \in Clusters : fat2[x] \in Clusters => fat2[fat2[x]] # Free
    <3>. TAKE x \in Clusters
    <3>. HAVE fat2[x] \in Clusters
    <3>1. fat[fat2[x]] # Free
      BY <1>0 DEF Linked, Root
    <3>. QED
      BY <1>1, <3>1
  <2>3. \A x, y \in Clusters : fat2[x] = fat2[y] /\ fat2[x] \in Clusters => x = y
    BY <1>0, <2>1 DEF Linked
  <2>. QED
    BY <1>0, <2>2, <2>3 DEF Linked
<1>3. ASSUME NEW r, Root(fat, r), r # n
      PROVE  /\ Root(fat2, r)
             /\ Len(Chain(fat2, r)) = IF Last(Chain(fat, r)) = c THEN Len(Chain(fat, r)) + 1
                                      ELSE Len(Chain(fat, r))
  <2>1. Root(fat2, r)
    BY <1>0, <1>1, <1>3 DEF Root
  <2>2. PICK q : q = Chain(fat, r)
    OBVIOUS
  <2>3. IsChain(fat, r, q)
    BY <1>3, <2>2, ChainFacts
  <2>4. /\ q \in Seq(Clusters) /\ Len(q) \in Nat /\ Len(q) >= 1 /\ q[1] = r
        /\ \A i \in 1 .. Len(q) - 1 : q[i+1] = fat[q[i]]
        /\ \A i \in 1 .. Len(q) : fat[q[i]] # Free /\ q[i] \in Clusters
    BY <2>3 DEF IsChain, Walked
  <2>5. \A i \in 1 .. Len(q) - 1 : q[i] # c
    <3>. TAKE i \in 1 .. Len(q) - 1
    <3>1. i + 1 \in 1 .. Len(q)
      BY <2>4
    <3>. QED
      BY <2>4, <3>1
  <2>6. CASE q[Len(q)] # c
    <3>1. \A i \in 1 .. Len(q) : q[i] # c
      <4>. TAKE i \in 1 .. Len(q)
      <4>1. i = Len(q) \/ i \in 1 .. Len(q) - 1
        BY <2>4
      <4>. QED
        BY <2>5, <2>6, <4>1
    <3>2. \A i \in 1 .. Len(q) : fat2[q[i]] = fat[q[i]]
      BY <1>0, <2>4, <3>1
    <3>3. IsChain(fat2, r, q)
      BY <2>3, <2>4, <3>2 DEF IsChain, Walked
    <3>4. Chain(fat2, r) = q
      BY <1>2, <2>1, <3>3, ChainIs
    <3>. QED
      BY <2>1, <2>2, <2>6, <3>4 DEF Last
  <2>7. CASE q[Len(q)] = c
    <3>1. PICK p : p = Append(q, n)
      OBVIOUS
    <3>2. /\ p \in Seq(Clusters) /\ Len(p) = Len(q) + 1 /\ p[Len(q) + 1] = n
          /\ \A i \in 1 .. Len(q) : p[i] = q[i]
      BY <2>4, <3>1
    <3>3. \A i \in 1 .. Len(p) - 1 : p[i+1] = fat2[p[i]]
      <4>. TAKE i \in 1 .. Len(p) - 1
      <4>1. CASE i = Len(q)
        BY <1>0, <2>4, <2>7, <3>2, <4>1
      <4>2. CASE i # Len(q)
        <5>1. i \in 1 .. Len(q) - 1 /\ i \in 1 .. Len(q) /\ i + 1 \in 1 .. Len(q)
          BY <2>4, <3>2, <4>2
        <5>2. p[i+1] = q[i+1] /\ p[i] = q[i] /\ q[i+1] = fat[q[i]] /\ q[i] # c /\ q[i] \in Clusters
          BY <2>4, <2>5, <3>2, <5>1
        <5>. QED
          BY <1>0, <5>2
      <4>. QED
        BY <4>1, <4>2
    <3>4. \A i \in 1 .. Len(p) : fat2[p[i]] # Free
      <4>. TAKE i \in 1 .. Len(p)
      <4>1. i = Len(q) + 1 \/ i \in 1 .. Len(q)
        BY <2>4, <3>2
      <4>2. fat[p[i]] # Free /\ p[i] \in Clusters
        BY <2>4, <3>2, <4>1, ClusterFacts
      <4>. QED
        BY <1>1, <4>2
    <3>5. fat2[p[Len(p)]] \notin Clusters
      BY <1>0, <2>4, <3>2, ClusterFacts
    <3>6. p[1] = r /\ Len(p) >= 1
      BY <2>4, <3>2
    <3>7. IsChain(fat2, r, p)
      BY <3>2, <3>3, <3>4, <3>5, <3>6 DEF IsChain, Walked
    <3>8. Chain(fat2, r) = p
      BY <1>2, <2>1, <3>7, ChainIs
    <3>. QED
      BY <2>1, <2>2, <2>7, <3>2, <3>8 DEF Last
  <2>. QED
    BY <2>6, <2>7
<1>. QED
  BY <1>1, <1>2, <1>3

\* The table once the first n clusters of q are free.
FreedTo(fat, q, n) == [c \in Clusters |-> IF \E i \in 1 .. n : q[i] = c THEN Free ELSE fat[c]]

\* Clusters of a chain become free, from its root on: no other chain changes.
LEMMA FreedFacts ==
    ASSUME NEW fat, Linked(fat), NEW old, Root(fat, old), NEW q, q = Chain(fat, old),
           NEW n \in 0 .. Len(q), NEW fat2, fat2 = FreedTo(fat, q, n)
    PROVE  /\ Linked(fat2)
           /\ \A r : Root(fat, r) /\ r # old => Root(fat2, r) /\ Chain(fat2, r) = Chain(fat, r)
<1>0. IsChain(fat, old, q) /\ Walked(fat, old, q)
  BY ChainFacts DEF IsChain
<1>1. /\ q \in Seq(Clusters) /\ Len(q) \in Nat /\ Len(q) >= 1 /\ q[1] = old
      /\ \A i \in 1 .. Len(q) - 1 : q[i+1] = fat[q[i]]
  BY <1>0 DEF Walked
<1>2. /\ fat \in [Clusters -> Free .. EOC]
      /\ fat2 \in [Clusters -> Free .. EOC]
      /\ \A x \in Clusters : fat2[x] = IF \E i \in 1 .. n : q[i] = x THEN Free ELSE fat[x]
  BY ClusterFacts DEF Linked, FreedTo
<1>3. Linked(fat2)
  <2>1. \A x \in Clusters : fat2[x] \in Clusters => fat2[x] = fat[x] /\ ~ \E i \in 1 .. n : q[i] = x
    BY <1>2, ClusterFacts
  <2>2. ASSUME NEW x \in Clusters, fat2[x] \in Clusters
        PROVE  fat2[fat2[x]] # Free
    <3>1. fat2[x] = fat[x] /\ ~ \E i \in 1 .. n : q[i] = x
      BY <2>1, <2>2
    <3>2. fat[fat[x]] # Free
      BY <2>2, <3>1 DEF Linked
    <3>3. ASSUME NEW i \in 1 .. n, q[i] = fat[x] PROVE FALSE
      <4>1. i # 1
        BY <1>1, <3>3 DEF Root
      <4>2. i - 1 \in 1 .. n /\ i - 1 \in 1 .. Len(q) - 1 /\ i - 1 \in 1 .. Len(q) /\ (i - 1) + 1 = i
        BY <1>1, <4>1
      <4>3. q[i] = fat[q[i - 1]] /\ q[i - 1] \in Clusters
        BY <1>1, <4>2
      <4>4. q[i - 1] = x
        BY <2>2, <3>1, <3>3, <4>3 DEF Linked
      <4>. QED
        BY <3>1, <4>2, <4>4
    <3>4. fat2[fat[x]] = fat[fat[x]]
      BY <1>2, <2>2, <3>1, <3>3
    <3>. QED
      BY <3>1, <3>2, <3>4
  <2>3. \A x, y \in Clusters : fat2[x] = fat2[y] /\ fat2[x] \in Clusters => x = y
    BY <2>1 DEF Linked
  <2>. QED
    BY <1>2, <2>2, <2>3 DEF Linked
<1>4. ASSUME NEW r, Root(fat, r), r # old
      PROVE  Root(fat2, r) /\ Chain(fat2, r) = Chain(fat, r)
  <2>1. PICK p : p = Chain(fat, r)
    OBVIOUS
  <2>2. IsChain(fat, r, p) /\ Walked(fat, r, p)
    BY <1>4, <2>1, ChainFacts DEF IsChain
  <2>3. /\ p \in Seq(Clusters) /\ Len(p) \in Nat /\ Len(p) >= 1 /\ p[1] = r
        /\ \A j \in 1 .. Len(p) : p[j] \in Clusters
    BY <2>2 DEF Walked
  <2>4. \A j \in 1 .. Len(p), i \in 1 .. n : q[i] # p[j]
    <3>. TAKE j \in 1 .. Len(p), i \in 1 .. n
    <3>1. i \in 1 .. Len(q)
      BY <1>1
    <3>. QED
      BY <1>0, <1>4, <2>2, <3>1, WalksMeet
  <2>5. \A j \in 1 .. Len(p) : fat2[p[j]] = fat[p[j]]
    <3>. TAKE j \in 1 .. Len(p)
    <3>1. p[j] \in Clusters /\ ~ \E i \in 1 .. n : q[i] = p[j]
      BY <2>3, <2>4
    <3>. QED
      BY <1>2, <3>1
  <2>6. fat2[r] = fat[r]
    BY <2>3, <2>5
  <2>7. Root(fat2, r)
    <3>1. \A x \in Clusters : fat2[x] # r
      BY <1>2, <1>4, ClusterFacts DEF Root
    <3>. QED
      BY <1>4, <2>6, <3>1 DEF Root
  <2>. QED
    BY <1>3, <1>4, <2>1, <2>5, <2>7, ChainStays
<1>. QED
  BY <1>3, <1>4

-------------------------------------------------------------------------------
(* The window. What it holds and has not written yet is in one of the two   *)
(* tables, and every image of the disk that was ever written is sound.       *)

LogSound(log) == \E T : log \in Seq(T) /\ \A image \in T : ImageSound(image)

VolSound(S) ==
    /\ S = [dir |-> S.dir, fat |-> S.fat, win |-> S.win, last |-> S.last,
            disk |-> S.disk, log |-> S.log]
    /\ S.win \in {"clean", "fat", "dir"}
    /\ S.win # "fat" => S.fat = S.disk.fat
    /\ S.win # "dir" => S.dir = S.disk.dir
    /\ S.last \in Nat
    /\ TablesSound(S.fat, S.dir)
    /\ ImageSound(S.disk)
    /\ LogSound(S.log)

LEMMA LogGrows ==
    ASSUME NEW log, LogSound(log), NEW image, ImageSound(image)
    PROVE  LogSound(Append(log, image))
<1>1. PICK T : log \in Seq(T) /\ \A x \in T : ImageSound(x)
  BY DEF LogSound
<1>2. PICK U : U = T \cup {image}
  OBVIOUS
<1>3. log \in Seq(U) /\ image \in U /\ \A x \in U : ImageSound(x)
  BY <1>1, <1>2
<1>4. Append(log, image) \in Seq(U)
  BY <1>3
<1>. QED
  BY <1>3, <1>4 DEF LogSound

LEMMA DiskWriteFacts ==
    ASSUME NEW S, VolSound(S), NEW image, ImageSound(image), NEW T, T = DiskWrite(S, image)
    PROVE  /\ T = [dir |-> S.dir, fat |-> S.fat, win |-> S.win, last |-> S.last,
                   disk |-> image, log |-> Append(S.log, image)]
           /\ LogSound(T.log)
<1>1. S = [dir |-> S.dir, fat |-> S.fat, win |-> S.win, last |-> S.last,
           disk |-> S.disk, log |-> S.log]
  BY DEF VolSound
<1>2. T = [dir |-> S.dir, fat |-> S.fat, win |-> S.win, last |-> S.last,
           disk |-> image, log |-> Append(S.log, image)]
  BY <1>1 DEF DiskWrite
<1>3. LogSound(Append(S.log, image))
  BY LogGrows DEF VolSound
<1>. QED
  BY <1>2, <1>3

\* The tables of T are those of S.
SameTables(S, T) == T.fat = S.fat /\ T.dir = S.dir

LEMMA DataWriteSound ==
    ASSUME NEW S, VolSound(S), NEW c, NEW sector, NEW T, T = DataWrite(S, c, sector)
    PROVE  VolSound(T) /\ SameTables(S, T) /\ T.win = S.win /\ T.last = S.last
<1>1. PICK image : image = [S.disk EXCEPT !.data[c] = sector]
  OBVIOUS
<1>2. S.disk = [dir |-> S.disk.dir, fat |-> S.disk.fat, data |-> S.disk.data]
  BY DEF VolSound, ImageSound
<1>3. /\ image = [dir |-> image.dir, fat |-> image.fat, data |-> image.data]
      /\ image.dir = S.disk.dir /\ image.fat = S.disk.fat
  BY <1>1, <1>2
<1>4. ImageSound(image)
  BY <1>3 DEF VolSound, ImageSound
<1>5. /\ T = [dir |-> S.dir, fat |-> S.fat, win |-> S.win, last |-> S.last,
              disk |-> image, log |-> Append(S.log, image)]
      /\ LogSound(T.log)
  BY <1>1, <1>4, DiskWriteFacts DEF DataWrite
<1>6. /\ T = [dir |-> T.dir, fat |-> T.fat, win |-> T.win, last |-> T.last,
              disk |-> T.disk, log |-> T.log]
      /\ T.dir = S.dir /\ T.fat = S.fat /\ T.win = S.win /\ T.last = S.last /\ T.disk = image
  BY <1>5
<1>. QED
  BY <1>3, <1>4, <1>5, <1>6 DEF VolSound, SameTables

LEMMA SyncSound ==
    ASSUME NEW S, VolSound(S), NEW T, T = sync_window(S)
    PROVE  VolSound(T) /\ SameTables(S, T) /\ T.win = "clean" /\ T.last = S.last
<1>1. S.disk = [dir |-> S.disk.dir, fat |-> S.disk.fat, data |-> S.disk.data]
  BY DEF VolSound, ImageSound
<1>2. TablesSound(S.fat, S.dir) /\ S.win \in {"clean", "fat", "dir"}
  BY DEF VolSound
<1>3. CASE S.win = "clean"
  <2>1. T = S
    BY <1>3 DEF sync_window
  <2>. QED
    BY <1>3, <2>1 DEF SameTables
<1>4. CASE S.win = "fat"
  <2>1. PICK image : image = [S.disk EXCEPT !.fat = S.fat]
    OBVIOUS
  <2>2. /\ image = [dir |-> image.dir, fat |-> image.fat, data |-> image.data]
        /\ image.dir = S.dir /\ image.fat = S.fat
    BY <1>1, <1>4, <2>1 DEF VolSound
  <2>3. ImageSound(image)
    BY <1>2, <2>2 DEF ImageSound
  <2>4. PICK W : W = DiskWrite(S, image)
    OBVIOUS
  <2>5. T = [W EXCEPT !.win = "clean"]
    BY <1>4, <2>1, <2>4 DEF sync_window
  <2>6. /\ W = [dir |-> S.dir, fat |-> S.fat, win |-> S.win, last |-> S.last,
                disk |-> image, log |-> Append(S.log, image)]
        /\ LogSound(W.log)
    BY <2>3, <2>4, DiskWriteFacts
  <2>7. /\ T = [dir |-> T.dir, fat |-> T.fat, win |-> T.win, last |-> T.last,
                disk |-> T.disk, log |-> T.log]
        /\ T.dir = S.dir /\ T.fat = S.fat /\ T.win = "clean" /\ T.last = S.last
        /\ T.disk = image /\ T.log = W.log
    BY <2>5, <2>6
  <2>8. S.last \in Nat
    BY DEF VolSound
  <2>. QED
    BY <1>2, <2>2, <2>3, <2>6, <2>7, <2>8 DEF VolSound, SameTables
<1>5. CASE S.win = "dir"
  <2>1. PICK image : image = [S.disk EXCEPT !.dir = S.dir]
    OBVIOUS
  <2>2. /\ image = [dir |-> image.dir, fat |-> image.fat, data |-> image.data]
        /\ image.dir = S.dir /\ image.fat = S.fat
    BY <1>1, <1>5, <2>1 DEF VolSound
  <2>3. ImageSound(image)
    BY <1>2, <2>2 DEF ImageSound
  <2>4. PICK W : W = DiskWrite(S, image)
    OBVIOUS
  <2>5. T = [W EXCEPT !.win = "clean"]
    BY <1>5, <2>1, <2>4 DEF sync_window
  <2>6. /\ W = [dir |-> S.dir, fat |-> S.fat, win |-> S.win, last |-> S.last,
                disk |-> image, log |-> Append(S.log, image)]
        /\ LogSound(W.log)
    BY <2>3, <2>4, DiskWriteFacts
  <2>7. /\ T = [dir |-> T.dir, fat |-> T.fat, win |-> T.win, last |-> T.last,
                disk |-> T.disk, log |-> T.log]
        /\ T.dir = S.dir /\ T.fat = S.fat /\ T.win = "clean" /\ T.last = S.last
        /\ T.disk = image /\ T.log = W.log
    BY <2>5, <2>6
  <2>8. S.last \in Nat
    BY DEF VolSound
  <2>. QED
    BY <1>2, <2>2, <2>3, <2>6, <2>7, <2>8 DEF VolSound, SameTables
<1>. QED
  BY <1>2, <1>3, <1>4, <1>5

LEMMA MoveSound ==
    ASSUME NEW S, VolSound(S), NEW sector, NEW T, T = move_window(S, sector)
    PROVE  VolSound(T) /\ SameTables(S, T) /\ T.win \in {"clean", sector} /\ T.last = S.last
<1>1. CASE S.win = sector
  BY <1>1 DEF move_window, SameTables
<1>2. CASE S.win # sector
  BY <1>2, SyncSound DEF move_window
<1>. QED
  BY <1>1, <1>2

LEMMA PutFatSound ==
    ASSUME NEW S, VolSound(S), NEW c, NEW value, NEW fat, fat = SetCell(S.fat, c, value),
           TablesSound(fat, S.dir), NEW T, T = put_fat(S, c, value)
    PROVE  VolSound(T) /\ T.fat = fat /\ T.dir = S.dir /\ T.last = S.last
<1>1. PICK W : W = move_window(S, "fat")
  OBVIOUS
<1>2. VolSound(W) /\ W.fat = S.fat /\ W.dir = S.dir /\ W.win \in {"clean", "fat"} /\ W.last = S.last
  BY <1>1, MoveSound DEF SameTables
<1>3. W = [dir |-> W.dir, fat |-> W.fat, win |-> W.win, last |-> W.last,
           disk |-> W.disk, log |-> W.log]
  BY <1>2 DEF VolSound
<1>4. T = [W EXCEPT !.fat[c] = value, !.win = "fat"]
  BY <1>1 DEF put_fat
<1>5. /\ T = [dir |-> T.dir, fat |-> T.fat, win |-> T.win, last |-> T.last,
              disk |-> T.disk, log |-> T.log]
      /\ T.dir = S.dir /\ T.fat = fat /\ T.win = "fat" /\ T.last = S.last
      /\ T.disk = W.disk /\ T.log = W.log
  BY <1>2, <1>3, <1>4 DEF SetCell
<1>. QED
  BY <1>2, <1>5 DEF VolSound

\* The directory with entry in place i, or behind the last one.
Placed(dir, i, entry) ==
    IF i \in DOMAIN dir THEN [dir EXCEPT ![i] = entry] ELSE Append(dir, entry)

LEMMA PutEntrySound ==
    ASSUME NEW S, VolSound(S), NEW i, NEW entry, NEW dir,
           dir = Placed(S.dir, i, entry), TablesSound(S.fat, dir), NEW T, T = put_entry(S, i, entry)
    PROVE  VolSound(T) /\ T.fat = S.fat /\ T.dir = dir /\ T.last = S.last
<1>1. PICK W : W = move_window(S, "dir")
  OBVIOUS
<1>2. VolSound(W) /\ W.fat = S.fat /\ W.dir = S.dir /\ W.win \in {"clean", "dir"} /\ W.last = S.last
  BY <1>1, MoveSound DEF SameTables
<1>3. W = [dir |-> W.dir, fat |-> W.fat, win |-> W.win, last |-> W.last,
           disk |-> W.disk, log |-> W.log]
  BY <1>2 DEF VolSound
<1>4. T = [W EXCEPT !.dir = dir, !.win = "dir"]
  BY <1>1, <1>2 DEF put_entry, Placed
<1>5. /\ T = [dir |-> T.dir, fat |-> T.fat, win |-> T.win, last |-> T.last,
              disk |-> T.disk, log |-> T.log]
      /\ T.dir = dir /\ T.fat = S.fat /\ T.win = "dir" /\ T.last = S.last
      /\ T.disk = W.disk /\ T.log = W.log
  BY <1>2, <1>3, <1>4
<1>. QED
  BY <1>2, <1>5 DEF VolSound

\* [S EXCEPT !.last = n]
LEMMA LastSound ==
    ASSUME NEW S, VolSound(S), NEW n \in Nat, NEW T, T = [S EXCEPT !.last = n]
    PROVE  VolSound(T) /\ SameTables(S, T) /\ T.last = n
<1>1. S = [dir |-> S.dir, fat |-> S.fat, win |-> S.win, last |-> S.last,
           disk |-> S.disk, log |-> S.log]
  BY DEF VolSound
<1>2. /\ T = [dir |-> T.dir, fat |-> T.fat, win |-> T.win, last |-> T.last,
              disk |-> T.disk, log |-> T.log]
      /\ T.dir = S.dir /\ T.fat = S.fat /\ T.win = S.win /\ T.last = n
      /\ T.disk = S.disk /\ T.log = S.log
  BY <1>1
<1>. QED
  BY <1>2 DEF VolSound, SameTables

-------------------------------------------------------------------------------
(* Allocating and freeing. *)

LEMMA TimesMonotone ==
    ASSUME NEW a \in Nat, NEW b \in Nat, a <= b
    PROVE  SectorUnits * a <= SectorUnits * b
<1>1. PICK u \in Nat : u = SectorUnits
  BY VolumeAssumption
<1>2. PICK d \in Nat : b = a + d
  <2>1. b - a \in Nat /\ b = a + (b - a)
    OBVIOUS
  <2>. QED
    BY <2>1
<1>3. u * b = u * a + u * d
  BY <1>2
<1>4. u * d \in Nat /\ u * a \in Nat
  OBVIOUS
<1>. QED
  BY <1>1, <1>3, <1>4

LEMMA CoversFewer ==
    ASSUME NEW fat, NEW fat2, Linked(fat), Linked(fat2), NEW r, NEW n \in Nat, Covers(fat, r, n),
           r # 0 => Root(fat2, r) /\ Len(Chain(fat2, r)) >= Len(Chain(fat, r))
    PROVE  Covers(fat2, r, n)
<1>1. r = 0 \/ Root(fat, r)
  BY DEF Covers
<1>2. r = 0 \/ Root(fat2, r)
  OBVIOUS
<1>3. PICK a \in Nat, b \in Nat : a = Len(Chain(fat, r)) /\ b = Len(Chain(fat2, r)) /\ a <= b
  BY <1>1, <1>2, ChainLength
<1>4. SectorUnits * a <= SectorUnits * b
  BY <1>3, TimesMonotone
<1>5. n <= SectorUnits * a
  BY <1>3 DEF Covers
<1>6. SectorUnits * a \in Nat /\ SectorUnits * b \in Nat
  BY VolumeAssumption
<1>. QED
  BY <1>2, <1>3, <1>4, <1>5, <1>6 DEF Covers

LEMMA CoversGrown ==
    ASSUME NEW fat, NEW fat2, Linked(fat), Grown(fat, fat2), NEW r, NEW n \in Nat, Covers(fat, r, n)
    PROVE  Covers(fat2, r, n)
<1>1. Linked(fat2)
  BY DEF Grown
<1>2. r # 0 => Root(fat2, r) /\ Len(Chain(fat2, r)) >= Len(Chain(fat, r))
  BY DEF Grown, Covers
<1>. QED
  BY <1>1, <1>2, CoversFewer

\* What the entries of a sound directory are.
LEMMA EntryFacts ==
    ASSUME NEW fat, NEW dir, TablesSound(fat, dir)
    PROVE  /\ Len(dir) \in Nat /\ DOMAIN dir = 1 .. Len(dir)
           /\ \A i \in DOMAIN dir : /\ dir[i].sclust \in 0 .. NClusters /\ dir[i].size \in Nat
                                    /\ dir[i].name \in Names
                                    /\ dir[i] = [name |-> dir[i].name, sclust |-> dir[i].sclust,
                                                 size |-> dir[i].size]
<1>. DEFINE E == [name : Names, sclust : 0 .. NClusters, size : Nat]
<1>1. dir \in Seq(E)
  BY DEF TablesSound
<1>2. \A i \in DOMAIN dir : dir[i] \in E
  <2>. HIDE DEF E
  <2>. QED
    BY <1>1
<1>3. Len(dir) \in Nat /\ DOMAIN dir = 1 .. Len(dir)
  <2>. HIDE DEF E
  <2>. QED
    BY <1>1
<1>4. \A e \in E : /\ e.sclust \in 0 .. NClusters /\ e.size \in Nat /\ e.name \in Names
                   /\ e = [name |-> e.name, sclust |-> e.sclust, size |-> e.size]
  OBVIOUS
<1>. QED
  BY <1>2, <1>3, <1>4

\* A directory stays sound when the chains of its entries do not get shorter.
LEMMA TablesKept ==
    ASSUME NEW fat, NEW dir, TablesSound(fat, dir), NEW fat2, Linked(fat2),
           \A i \in DOMAIN dir : dir[i].sclust # 0 =>
              /\ Root(fat2, dir[i].sclust)
              /\ Len(Chain(fat2, dir[i].sclust)) >= Len(Chain(fat, dir[i].sclust))
    PROVE  TablesSound(fat2, dir)
<1>1. \A i \in DOMAIN dir : Covers(fat2, dir[i].sclust, dir[i].size)
  <2>. TAKE i \in DOMAIN dir
  <2>1. dir[i].size \in Nat
    BY EntryFacts
  <2>2. Covers(fat, dir[i].sclust, dir[i].size) /\ Linked(fat)
    BY DEF TablesSound
  <2>. QED
    BY <2>1, <2>2, CoversFewer
<1>. QED
  BY <1>1 DEF TablesSound

LEMMA GrownTables ==
    ASSUME NEW fat, NEW dir, TablesSound(fat, dir), NEW fat2, Grown(fat, fat2)
    PROVE  TablesSound(fat2, dir)
<1>1. \A i \in DOMAIN dir : dir[i].sclust # 0 => Root(fat, dir[i].sclust)
  BY DEF TablesSound, Covers
<1>2. Linked(fat2) /\ \A i \in DOMAIN dir : dir[i].sclust # 0 =>
              /\ Root(fat2, dir[i].sclust)
              /\ Len(Chain(fat2, dir[i].sclust)) >= Len(Chain(fat, dir[i].sclust))
  BY <1>1 DEF Grown
<1>. QED
  BY <1>2, TablesKept

LEMMA NextFreeFacts ==
    ASSUME NEW fat, NEW scl \in Nat
    PROVE  NextFree(fat, scl) = 0 \/ (NextFree(fat, scl) \in Clusters /\ fat[NextFree(fat, scl)] = Free)
<1>. DEFINE at(k) == ((scl + k - 1) % NClusters) + 1
            hits == {k \in 1 .. NClusters : fat[at(k)] = Free}
<1>1. NextFree(fat, scl) = IF hits = {} THEN 0 ELSE at(CHOOSE k \in hits : \A j \in hits : k <= j)
  BY DEF NextFree
<1>2. CASE hits = {}
  BY <1>1, <1>2
<1>3. CASE hits # {}
  <2>1. hits \subseteq Nat
    BY ClusterFacts
  <2>2. \E k \in hits : \A j \in hits : k <= j
    <3>. HIDE DEF hits
    <3>. QED
      BY <1>3, <2>1, LeastNat
  <2>3. PICK k : k = CHOOSE i \in hits : \A j \in hits : i <= j
    OBVIOUS
  <2>4. k \in hits
    <3>. HIDE DEF hits
    <3>. QED
      BY <2>2, <2>3
  <2>5. NextFree(fat, scl) = at(k)
    <3>. HIDE DEF hits, at
    <3>. QED
      BY <1>1, <1>3, <2>3
  <2>6. at(k) \in 1 .. NClusters
    <3>1. NClusters \in Nat \ {0} /\ scl + k - 1 \in Nat /\ k \in 1 .. NClusters
      BY <2>4, ClusterFacts
    <3>2. PICK x \in Nat : x = scl + k - 1
      BY <3>1
    <3>3. x % NClusters \in 0 .. NClusters - 1
      BY <3>1, <3>2
    <3>. QED
      BY <3>1, <3>2, <3>3
  <2>. QED
    BY <2>4, <2>5, <2>6, ClusterFacts
<1>. QED
  BY <1>2, <1>3

LEMMA FreeClusterFacts ==
    ASSUME NEW S, S.last \in Nat, NEW c, c = 0 \/ c \in Clusters, NEW n, n = FreeCluster(S, c)
    PROVE  n = 0 \/ (n \in Clusters /\ S.fat[n] = Free)
<1>1. c \in Nat
  BY ClusterFacts
<1>2. (c % NClusters) + 1 \in Clusters
  BY <1>1, ClusterFacts
<1>3. PICK right : right = (c % NClusters) + 1
  OBVIOUS
<1>4. \/ n = NextFree(S.fat, S.last)
      \/ n = right /\ S.fat[right] = Free
      \/ n = NextFree(S.fat, c)
  BY <1>3 DEF FreeCluster
<1>. QED
  BY <1>1, <1>2, <1>3, <1>4, NextFreeFacts

\* create_chain() gives the cluster after c, and every chain is still there.
LEMMA CreateSound ==
    ASSUME NEW S, VolSound(S), NEW c, c = 0 \/ (c \in Clusters /\ S.fat[c] # Free),
           NEW k, k = create_chain(S, c)
    PROVE  /\ VolSound(k.vol) /\ k.vol.dir = S.dir /\ Grown(S.fat, k.vol.fat)
           /\ k.ncl = 0 \/ k.ncl \in Clusters
           /\ c = 0 /\ k.ncl # 0 =>
                 /\ S.fat[k.ncl] = Free /\ Root(k.vol.fat, k.ncl)
                 /\ Len(Chain(k.vol.fat, k.ncl)) = 1
           /\ c # 0 /\ k.ncl # 0 => \A r : Root(S.fat, r) /\ Last(Chain(S.fat, r)) = c =>
                 Len(Chain(k.vol.fat, r)) = Len(Chain(S.fat, r)) + 1
<1>1. PICK W : W = move_window(S, "fat")
  OBVIOUS
<1>2. VolSound(W) /\ W.fat = S.fat /\ W.dir = S.dir
  BY <1>1, MoveSound DEF SameTables
<1>3. Linked(S.fat) /\ TablesSound(S.fat, S.dir) /\ W.last \in Nat
  BY <1>2 DEF VolSound, TablesSound
<1>4. k = ChainIn(W, c)
  BY <1>1 DEF create_chain
<1>5. Grown(S.fat, S.fat)
  BY <1>3, GrownRefl
<1>6. CASE c # 0 /\ S.fat[c] \in Clusters
  <2>1. k = [vol |-> W, ncl |-> S.fat[c]]
    BY <1>2, <1>4, <1>6 DEF ChainIn
  <2>2. \A r : Root(S.fat, r) => Last(Chain(S.fat, r)) # c
    <3>. TAKE r
    <3>. HAVE Root(S.fat, r)
    <3>1. IsChain(S.fat, r, Chain(S.fat, r))
      BY <1>3, ChainFacts
    <3>. QED
      BY <1>6, <3>1 DEF IsChain, Last
  <2>. QED
    BY <1>2, <1>5, <1>6, <2>1, <2>2
<1>7. CASE ~(c # 0 /\ S.fat[c] \in Clusters)
  <2>1. PICK n : n = FreeCluster(W, c)
    OBVIOUS
  <2>2. n = 0 \/ (n \in Clusters /\ S.fat[n] = Free)
    BY <1>2, <1>3, <2>1, FreeClusterFacts
  <2>3. k = Link(W, c, n)
    BY <1>2, <1>4, <1>7, <2>1 DEF ChainIn
  <2>4. CASE n = 0
    <3>1. k = [vol |-> W, ncl |-> 0]
      BY <2>3, <2>4 DEF Link
    <3>. QED
      BY <1>2, <1>5, <3>1
  <2>5. CASE n # 0
    <3>1. n \in Clusters /\ S.fat[n] = Free
      BY <2>2, <2>5
    <3>2. PICK M : M = put_fat(W, n, EOC)
      OBVIOUS
    <3>3. PICK fat2 : fat2 = SetCell(S.fat, n, EOC)
      OBVIOUS
    <3>4. /\ Grown(S.fat, fat2)
          /\ \A r : Root(S.fat, r) => Chain(fat2, r) = Chain(S.fat, r)
          /\ Root(fat2, n) /\ Chain(fat2, n) = << n >>
      BY <1>3, <3>1, <3>3, MarkEnd
    <3>5. TablesSound(fat2, S.dir) /\ Linked(fat2)
      BY <1>3, <3>4, GrownTables DEF Grown
    <3>6. VolSound(M) /\ M.fat = fat2 /\ M.dir = S.dir
      <4>1. fat2 = SetCell(W.fat, n, EOC) /\ TablesSound(fat2, W.dir)
        BY <1>2, <3>3, <3>5
      <4>2. VolSound(M) /\ M.fat = fat2 /\ M.dir = W.dir
        BY <1>2, <3>2, <4>1, PutFatSound
      <4>. QED
        BY <1>2, <4>2
    <3>7. CASE c = 0
      <4>1. k = [vol |-> [M EXCEPT !.last = n], ncl |-> n]
        BY <2>3, <2>5, <3>2, <3>7 DEF Link
      <4>2. PICK T : T = [M EXCEPT !.last = n]
        OBVIOUS
      <4>3. VolSound(T) /\ T.fat = fat2 /\ T.dir = S.dir
        BY <3>1, <3>6, <4>2, LastSound, ClusterFacts DEF SameTables
      <4>4. k.vol = T /\ k.ncl = n
        BY <4>1, <4>2
      <4>5. Len(Chain(fat2, n)) = 1
        BY <3>4
      <4>. QED
        BY <3>1, <3>4, <3>7, <4>3, <4>4, <4>5
    <3>8. CASE c # 0
      <4>1. c \in Clusters /\ S.fat[c] # Free /\ c # n /\ S.fat[c] \notin Clusters
        BY <1>7, <3>1, <3>8
      <4>2. S.fat \in [Clusters -> Free .. EOC]
        BY <1>3 DEF Linked
      <4>3. fat2[c] = S.fat[c] /\ fat2[n] = EOC
        BY <3>1, <3>3, <4>1, <4>2 DEF SetCell
      <4>4. PICK fat3 : fat3 = SetCell(fat2, c, n)
        OBVIOUS
      <4>5. /\ Linked(fat3)
            /\ \A x \in Clusters : fat2[x] # Free => fat3[x] # Free
            /\ \A r : Root(fat2, r) /\ r # n =>
                 /\ Root(fat3, r)
                 /\ Len(Chain(fat3, r)) = IF Last(Chain(fat2, r)) = c THEN Len(Chain(fat2, r)) + 1
                                          ELSE Len(Chain(fat2, r))
        <5>1. fat2[c] # Free /\ fat2[c] \notin Clusters
          BY <4>1, <4>3
        <5>2. Linked(fat2) /\ Root(fat2, n)
          BY <3>4, <3>5
        <5>. QED
          BY <3>1, <4>1, <4>3, <4>4, <5>1, <5>2, LinkEnd
      <4>6. ASSUME NEW r, Root(S.fat, r)
            PROVE  /\ Root(fat3, r)
                   /\ Len(Chain(fat3, r)) = IF Last(Chain(S.fat, r)) = c
                                            THEN Len(Chain(S.fat, r)) + 1
                                            ELSE Len(Chain(S.fat, r))
                   /\ Len(Chain(fat3, r)) >= Len(Chain(S.fat, r))
        <5>1. r # n
          BY <3>1, <4>6 DEF Root
        <5>2. Root(fat2, r) /\ Chain(fat2, r) = Chain(S.fat, r)
          BY <3>4, <4>6 DEF Grown
        <5>3. /\ Root(fat3, r)
              /\ Len(Chain(fat3, r)) = IF Last(Chain(S.fat, r)) = c
                                            THEN Len(Chain(S.fat, r)) + 1
                                            ELSE Len(Chain(S.fat, r))
          BY <4>5, <5>1, <5>2
        <5>4. Len(Chain(S.fat, r)) \in Nat
          BY <1>3, <4>6, ChainLength
        <5>. QED
          BY <5>3, <5>4
      <4>7. Grown(S.fat, fat3)
        <5>1. \A x \in Clusters : S.fat[x] # Free => fat3[x] # Free
          BY <3>4, <4>5 DEF Grown
        <5>. QED
          BY <4>5, <4>6, <5>1 DEF Grown
      <4>8. TablesSound(fat3, S.dir)
        BY <1>3, <4>7, GrownTables
      <4>9. PICK L : L = put_fat(M, c, n)
        OBVIOUS
      <4>10. VolSound(L) /\ L.fat = fat3 /\ L.dir = S.dir
        <5>1. fat3 = SetCell(M.fat, c, n) /\ TablesSound(fat3, M.dir)
          BY <3>6, <4>4, <4>8
        <5>2. VolSound(L) /\ L.fat = fat3 /\ L.dir = M.dir
          BY <3>6, <4>9, <5>1, PutFatSound
        <5>. QED
          BY <3>6, <5>2
      <4>11. PICK T : T = [L EXCEPT !.last = n]
        OBVIOUS
      <4>12. VolSound(T) /\ T.fat = fat3 /\ T.dir = S.dir
        BY <3>1, <4>10, <4>11, LastSound, ClusterFacts DEF SameTables
      <4>13. k = [vol |-> T, ncl |-> n]
        BY <2>3, <2>5, <3>2, <3>8, <4>9, <4>11 DEF Link
      <4>14. k.vol = T /\ k.ncl = n
        BY <4>13
      <4>. QED
        BY <3>1, <3>8, <4>6, <4>7, <4>12, <4>14
    <3>. QED
      BY <3>7, <3>8
  <2>. QED
    BY <2>4, <2>5
<1>. QED
  BY <1>6, <1>7

\* remove_chain() of a chain no entry names any more leaves every other chain.
LEMMA RemoveSound ==
    ASSUME NEW S, VolSound(S), NEW old, Root(S.fat, old),
           \A i \in DOMAIN S.dir : S.dir[i].sclust # old,
           NEW T, T = remove_chain(S, old)
    PROVE  /\ VolSound(T) /\ T.dir = S.dir
           /\ \A r : Root(S.fat, r) /\ r # old => Root(T.fat, r) /\ Chain(T.fat, r) = Chain(S.fat, r)
<1>0. Linked(S.fat) /\ TablesSound(S.fat, S.dir)
  BY DEF VolSound, TablesSound
<1>1. PICK q : q = Chain(S.fat, old)
  OBVIOUS
<1>2. q \in Seq(Clusters) /\ Len(q) \in Nat
  <2>1. IsChain(S.fat, old, q)
    BY <1>0, <1>1, ChainFacts
  <2>. QED
    BY <2>1 DEF IsChain, Walked
<1>3. PICK f : IsLoop(f, "free", q, move_window(S, "fat"), Len(q)) /\ T = f[Len(q)]
  BY <1>1, <1>2, RemoveIsLoop
<1>4. \A n \in 0 .. Len(q) : TablesSound(FreedTo(S.fat, q, n), S.dir)
  <2>. TAKE n \in 0 .. Len(q)
  <2>1. PICK fat2 : fat2 = FreedTo(S.fat, q, n)
    OBVIOUS
  <2>2. /\ Linked(fat2)
        /\ \A r : Root(S.fat, r) /\ r # old => Root(fat2, r) /\ Chain(fat2, r) = Chain(S.fat, r)
    BY <1>0, <1>1, <2>1, FreedFacts
  <2>3. ASSUME NEW i \in DOMAIN S.dir, S.dir[i].sclust # 0
        PROVE  /\ Root(fat2, S.dir[i].sclust)
               /\ Len(Chain(fat2, S.dir[i].sclust)) >= Len(Chain(S.fat, S.dir[i].sclust))
    <3>1. PICK r : r = S.dir[i].sclust
      OBVIOUS
    <3>2. Root(S.fat, r) /\ r # old
      BY <1>0, <2>3, <3>1 DEF TablesSound, Covers
    <3>3. Root(fat2, r) /\ Chain(fat2, r) = Chain(S.fat, r) /\ Len(Chain(S.fat, r)) \in Nat
      BY <1>0, <2>2, <3>2, ChainLength
    <3>. QED
      BY <3>1, <3>3
  <2>. QED
    BY <1>0, <2>1, <2>2, <2>3, TablesKept
<1>. DEFINE Good(n) == VolSound(f[n]) /\ f[n].fat = FreedTo(S.fat, q, n) /\ f[n].dir = S.dir
            B == {n \in Nat : n <= Len(q) /\ ~Good(n)}
<1>5. S.fat \in [Clusters -> Free .. EOC]
  BY <1>0 DEF Linked
<1>6. B = {}
  <2>. SUFFICES ASSUME B # {} PROVE FALSE
    OBVIOUS
  <2>1. PICK n \in B : \A l \in B : n <= l
    <3>1. B \subseteq Nat
      OBVIOUS
    <3>. HIDE DEF B
    <3>. QED
      BY <3>1, LeastNat
  <2>2. n \in Nat /\ n <= Len(q) /\ ~Good(n)
    OBVIOUS
  <2>3. CASE n = 0
    <3>1. f[0] = move_window(S, "fat")
      BY <1>3 DEF IsLoop
    <3>2. VolSound(f[0]) /\ f[0].fat = S.fat /\ f[0].dir = S.dir
      BY <3>1, MoveSound DEF SameTables
    <3>3. FreedTo(S.fat, q, 0) = S.fat
      BY <1>5 DEF FreedTo
    <3>. QED
      BY <2>2, <2>3, <3>2, <3>3
  <2>4. CASE n # 0
    <3>1. n - 1 \in Nat /\ n - 1 <= Len(q) /\ n \in 1 .. Len(q) /\ n - 1 \notin B
      BY <1>2, <2>1, <2>2, <2>4
    <3>2. Good(n - 1)
      BY <3>1
    <3>3. PICK R : R = f[n - 1]
      OBVIOUS
    <3>4. VolSound(R) /\ R.fat = FreedTo(S.fat, q, n - 1) /\ R.dir = S.dir
      BY <3>2, <3>3
    <3>5. f[n] = put_fat(R, q[n], Free)
      BY <1>3, <3>1, <3>3 DEF IsLoop, LoopStep
    <3>6. FreedTo(S.fat, q, n) = SetCell(R.fat, q[n], Free)
      <4>1. q[n] \in Clusters
        BY <1>2, <3>1
      <4>2. \A c \in Clusters : (\E i \in 1 .. n : q[i] = c)
                                   <=> (c = q[n] \/ \E i \in 1 .. (n - 1) : q[i] = c)
        <5>. TAKE c \in Clusters
        <5>1. \A i \in 1 .. n : i = n \/ i \in 1 .. (n - 1)
          BY <3>1
        <5>2. \A i \in 1 .. (n - 1) : i \in 1 .. n
          BY <3>1
        <5>3. n \in 1 .. n
          BY <3>1
        <5>. QED
          BY <5>1, <5>2, <5>3
      <4>3. R.fat = [c \in Clusters |-> IF \E i \in 1 .. (n - 1) : q[i] = c THEN Free ELSE S.fat[c]]
        BY <3>4 DEF FreedTo
      <4>4. SetCell(R.fat, q[n], Free)
              = [c \in Clusters |-> IF c = q[n] THEN Free
                                    ELSE IF \E i \in 1 .. (n - 1) : q[i] = c THEN Free ELSE S.fat[c]]
        <5>. DEFINE G == [c \in Clusters |-> IF \E i \in 1 .. (n - 1) : q[i] = c THEN Free
                                             ELSE S.fat[c]]
        <5>1. [G EXCEPT ![q[n]] = Free]
                = [c \in Clusters |-> IF c = q[n] THEN Free ELSE G[c]]
          <6>. HIDE DEF G
          <6>1. G = [c \in Clusters |-> G[c]]
            BY DEF G
          <6>. QED
            BY <4>1, <6>1
        <5>. QED
          BY <4>3, <5>1 DEF SetCell
      <4>5. FreedTo(S.fat, q, n)
              = [c \in Clusters |-> IF c = q[n] THEN Free
                                    ELSE IF \E i \in 1 .. (n - 1) : q[i] = c THEN Free ELSE S.fat[c]]
        BY <4>2 DEF FreedTo
      <4>. QED
        BY <4>4, <4>5
    <3>7. TablesSound(FreedTo(S.fat, q, n), R.dir)
      BY <1>4, <3>1, <3>4
    <3>8. VolSound(f[n]) /\ f[n].fat = FreedTo(S.fat, q, n) /\ f[n].dir = R.dir
      <4>1. PICK fat2 : fat2 = FreedTo(S.fat, q, n)
        OBVIOUS
      <4>2. fat2 = SetCell(R.fat, q[n], Free) /\ TablesSound(fat2, R.dir)
        BY <3>6, <3>7, <4>1
      <4>3. VolSound(f[n]) /\ f[n].fat = fat2 /\ f[n].dir = R.dir
        BY <3>4, <3>5, <4>2, PutFatSound
      <4>. QED
        BY <4>1, <4>3
    <3>. QED
      BY <2>2, <3>4, <3>8
  <2>. QED
    BY <2>3, <2>4
<1>7. VolSound(T) /\ T.fat = FreedTo(S.fat, q, Len(q)) /\ T.dir = S.dir
  <2>1. Good(Len(q))
    BY <1>2, <1>6
  <2>. QED
    BY <1>3, <2>1
<1>8. Len(q) \in 0 .. Len(q)
  BY <1>2
<1>. QED
  BY <1>0, <1>1, <1>7, <1>8, FreedFacts

-------------------------------------------------------------------------------
(* File objects. *)

IsFile(F) ==
    /\ F = [entry |-> F.entry, sclust |-> F.sclust, fsize |-> F.fsize, fptr |-> F.fptr,
            sect |-> F.sect, buf |-> F.buf, dirty |-> F.dirty, modified |-> F.modified]
    /\ F.fsize \in Nat

\* G is the file object F but for its position and its cached sector.
SameFile(F, G) ==
    IsFile(G) /\ G.entry = F.entry /\ G.sclust = F.sclust /\ G.fsize = F.fsize

LEMMA FlushFacts ==
    ASSUME NEW S, VolSound(S), NEW F, IsFile(F), NEW r, r = flush_buf(S, F)
    PROVE  /\ VolSound(r.vol) /\ SameTables(S, r.vol)
           /\ SameFile(F, r.fil) /\ r.fil.fptr = F.fptr
<1>1. CASE F.dirty
  <2>1. PICK T : T = DataWrite(S, F.sect, F.buf)
    OBVIOUS
  <2>2. VolSound(T) /\ SameTables(S, T)
    BY <2>1, DataWriteSound
  <2>3. r = [vol |-> T, fil |-> [F EXCEPT !.dirty = FALSE]]
    BY <1>1, <2>1 DEF flush_buf
  <2>4. PICK G : G = [F EXCEPT !.dirty = FALSE]
    OBVIOUS
  <2>5. SameFile(F, G) /\ G.fptr = F.fptr
    BY <2>4 DEF IsFile, SameFile
  <2>6. r.vol = T /\ r.fil = G
    BY <2>3, <2>4
  <2>. QED
    BY <2>2, <2>5, <2>6
<1>2. CASE ~F.dirty
  <2>1. r = [vol |-> S, fil |-> F]
    BY <1>2 DEF flush_buf
  <2>2. r.vol = S /\ r.fil = F
    BY <2>1
  <2>. QED
    BY <2>2 DEF SameTables, SameFile
<1>. QED
  BY <1>1, <1>2

LEMMA LoadFacts ==
    ASSUME NEW S, VolSound(S), NEW F, IsFile(F), NEW c, NEW r, r = load_buf(S, F, c)
    PROVE  /\ VolSound(r.vol) /\ SameTables(S, r.vol)
           /\ SameFile(F, r.fil) /\ r.fil.fptr = F.fptr
<1>1. PICK b : b = flush_buf(S, F)
  OBVIOUS
<1>2. /\ VolSound(b.vol) /\ SameTables(S, b.vol)
      /\ SameFile(F, b.fil) /\ b.fil.fptr = F.fptr
  BY <1>1, FlushFacts
<1>3. CASE F.sect = c
  <2>1. r = [vol |-> S, fil |-> F]
    BY <1>3 DEF load_buf
  <2>2. r.vol = S /\ r.fil = F
    BY <2>1
  <2>. QED
    BY <2>2 DEF SameTables, SameFile
<1>4. CASE F.sect # c
  <2>1. PICK x : x = b.vol.disk.data[c]
    OBVIOUS
  <2>2. PICK G : G = [b.fil EXCEPT !.sect = c, !.buf = x]
    OBVIOUS
  <2>3. r = [vol |-> b.vol, fil |-> G]
    BY <1>1, <1>4, <2>1, <2>2 DEF load_buf
  <2>4. IsFile(b.fil)
    BY <1>2 DEF SameFile
  <2>5. SameFile(b.fil, G) /\ G.fptr = b.fil.fptr
    BY <2>2, <2>4 DEF IsFile, SameFile
  <2>6. r.vol = b.vol /\ r.fil = G
    BY <2>3
  <2>. QED
    BY <1>2, <2>5, <2>6 DEF SameFile
<1>. QED
  BY <1>3, <1>4

\* What a write through F makes of the volume S and of F: chains only grow, and a
\* file that had none gets one of clusters that were free.
FileGrown(S, F, T, G) ==
    /\ VolSound(T) /\ T.dir = S.dir /\ Grown(S.fat, T.fat)
    /\ IsFile(G) /\ G.entry = F.entry
    /\ Covers(T.fat, G.sclust, G.fsize)
    /\ \/ G.sclust = F.sclust
       \/ F.sclust = 0 /\ G.sclust \in Clusters /\ S.fat[G.sclust] = Free

LEMMA FileGrownTrans ==
    ASSUME NEW S, VolSound(S), NEW F, NEW T, NEW G, FileGrown(S, F, T, G),
           NEW U, NEW H, FileGrown(T, G, U, H)
    PROVE  FileGrown(S, F, U, H)
<1>1. Linked(S.fat)
  BY DEF VolSound, TablesSound
<1>2. Grown(S.fat, T.fat) /\ Grown(T.fat, U.fat)
  BY DEF FileGrown
<1>3. Grown(S.fat, U.fat)
  BY <1>1, <1>2, GrownTrans
<1>4. \A c \in Clusters : T.fat[c] = Free => S.fat[c] = Free
  BY <1>2 DEF Grown
<1>5. \/ H.sclust = F.sclust
      \/ F.sclust = 0 /\ H.sclust \in Clusters /\ S.fat[H.sclust] = Free
  BY <1>4, ClusterFacts DEF FileGrown
<1>. QED
  BY <1>3, <1>5 DEF FileGrown

LEMMA FileGrownRefl ==
    ASSUME NEW S, VolSound(S), NEW F, IsFile(F), Covers(S.fat, F.sclust, F.fsize),
           NEW T, VolSound(T), SameTables(S, T), NEW G, SameFile(F, G)
    PROVE  FileGrown(S, F, T, G)
<1>1. Linked(S.fat)
  BY DEF VolSound, TablesSound
<1>2. Grown(S.fat, T.fat)
  BY <1>1, GrownRefl DEF SameTables
<1>. QED
  BY <1>2 DEF FileGrown, SameTables, SameFile

\* A file object that is given the cluster k.ncl when it has none.
WithChain(F, k) == [F EXCEPT !.sclust = IF @ = 0 THEN k.ncl ELSE @]

LEMMA GivenChain ==
    ASSUME NEW S, VolSound(S), NEW F, IsFile(F), Covers(S.fat, F.sclust, F.fsize),
           NEW c, c = 0 <=> F.sclust = 0, c # 0 => c \in Clusters /\ S.fat[c] # Free,
           NEW k, k = create_chain(S, c), k.ncl # 0,
           NEW G, G = WithChain(F, k)
    PROVE  /\ FileGrown(S, F, k.vol, G) /\ G.fptr = F.fptr /\ G.sclust # 0
           /\ Len(Chain(k.vol.fat, G.sclust)) >= Len(Chain(S.fat, F.sclust))
           /\ c = 0 => Len(Chain(k.vol.fat, G.sclust)) = 1
           /\ c # 0 /\ Last(Chain(S.fat, F.sclust)) = c =>
                 Len(Chain(k.vol.fat, G.sclust)) = Len(Chain(S.fat, F.sclust)) + 1
<1>1. /\ VolSound(k.vol) /\ k.vol.dir = S.dir /\ Grown(S.fat, k.vol.fat)
      /\ k.ncl = 0 \/ k.ncl \in Clusters
      /\ c = 0 /\ k.ncl # 0 =>
           /\ S.fat[k.ncl] = Free /\ Root(k.vol.fat, k.ncl)
           /\ Len(Chain(k.vol.fat, k.ncl)) = 1
      /\ c # 0 /\ k.ncl # 0 => \A r : Root(S.fat, r) /\ Last(Chain(S.fat, r)) = c =>
           Len(Chain(k.vol.fat, r)) = Len(Chain(S.fat, r)) + 1
  BY CreateSound
<1>2. Linked(S.fat) /\ Linked(k.vol.fat)
  BY <1>1 DEF VolSound, TablesSound
<1>3. /\ IsFile(G) /\ G.entry = F.entry /\ G.fsize = F.fsize /\ G.fptr = F.fptr
      /\ G.sclust = IF F.sclust = 0 THEN k.ncl ELSE F.sclust
  BY DEF IsFile, WithChain
<1>4. F.sclust = 0 \/ Root(S.fat, F.sclust)
  BY DEF Covers
<1>5. CASE F.sclust = 0
  <2>1. c = 0 /\ G.sclust = k.ncl
    BY <1>3, <1>5
  <2>2. /\ S.fat[G.sclust] = Free /\ Root(k.vol.fat, G.sclust) /\ G.sclust \in Clusters
        /\ Len(Chain(k.vol.fat, G.sclust)) = 1 /\ G.sclust # 0
    BY <1>1, <2>1
  <2>3. Len(Chain(S.fat, F.sclust)) = 0
    BY <1>2, <1>5, ChainLength
  <2>4. F.fsize \in Nat /\ F.fsize <= SectorUnits * 0
    BY <2>3 DEF Covers, IsFile
  <2>5. Covers(k.vol.fat, G.sclust, G.fsize)
    <3>1. F.fsize <= SectorUnits * 1
      BY <2>4, VolumeAssumption
    <3>. QED
      BY <1>3, <2>2, <3>1 DEF Covers
  <2>. QED
    BY <1>1, <1>3, <1>5, <2>1, <2>2, <2>3, <2>5 DEF FileGrown
<1>6. CASE F.sclust # 0
  <2>1. G.sclust = F.sclust /\ Root(S.fat, F.sclust) /\ c # 0
    BY <1>3, <1>4, <1>6
  <2>2. Len(Chain(k.vol.fat, F.sclust)) >= Len(Chain(S.fat, F.sclust))
    BY <1>1, <2>1 DEF Grown
  <2>3. Covers(k.vol.fat, F.sclust, F.fsize)
    BY <1>1, <1>2, CoversGrown DEF IsFile
  <2>. QED
    BY <1>1, <1>3, <1>6, <2>1, <2>2, <2>3 DEF FileGrown
<1>. QED
  BY <1>5, <1>6

LEMMA NoCluster ==
    ASSUME NEW S, VolSound(S), NEW F, IsFile(F), Covers(S.fat, F.sclust, F.fsize),
           NEW c, c # 0 => c \in Clusters /\ S.fat[c] # Free,
           NEW k, k = create_chain(S, c)
    PROVE  FileGrown(S, F, k.vol, F) /\ VolSound(k.vol)
<1>1. VolSound(k.vol) /\ k.vol.dir = S.dir /\ Grown(S.fat, k.vol.fat)
  BY CreateSound
<1>2. Linked(S.fat)
  BY DEF VolSound, TablesSound
<1>3. Covers(k.vol.fat, F.sclust, F.fsize)
  BY <1>1, <1>2, CoversGrown DEF IsFile
<1>. QED
  BY <1>1, <1>3 DEF FileGrown

-------------------------------------------------------------------------------
(* f_lseek(). *)

IsStretch(r) == r = [vol |-> r.vol, fil |-> r.fil, full |-> r.full]

LEMMA StretchStep ==
    ASSUME NEW r, IsStretch(r), VolSound(r.vol), IsFile(r.fil),
           Covers(r.vol.fat, r.fil.sclust, r.fil.fsize), NEW need,
           NEW s, s = Stretch(r, need)
    PROVE  IsStretch(s) /\ FileGrown(r.vol, r.fil, s.vol, s.fil)
<1>1. PICK c : c = ChainEnd(r.vol.fat, r.fil.sclust)
  OBVIOUS
<1>2. PICK k : k = create_chain(r.vol, c)
  OBVIOUS
<1>3. s = r \/ s = Stretched(r, k)
  BY <1>1, <1>2 DEF Stretch
<1>4. Linked(r.vol.fat)
  BY DEF VolSound, TablesSound
<1>5. (c = 0 <=> r.fil.sclust = 0) /\ (c # 0 => c \in Clusters /\ r.vol.fat[c] # Free)
  <2>1. CASE r.fil.sclust = 0
    BY <1>1, <2>1 DEF ChainEnd
  <2>2. CASE r.fil.sclust # 0
    <3>1. Root(r.vol.fat, r.fil.sclust)
      BY <2>2 DEF Covers
    <3>2. IsChain(r.vol.fat, r.fil.sclust, Chain(r.vol.fat, r.fil.sclust))
      BY <1>4, <3>1, ChainFacts
    <3>3. c = Chain(r.vol.fat, r.fil.sclust)[Len(Chain(r.vol.fat, r.fil.sclust))]
      BY <1>1, <2>2 DEF ChainEnd, Last
    <3>4. c \in Clusters /\ r.vol.fat[c] # Free
      BY <3>2, <3>3 DEF IsChain, Walked
    <3>. QED
      BY <2>2, <3>4, ClusterFacts
  <2>. QED
    BY <2>1, <2>2
<1>6. CASE s = r
  <2>1. SameFile(r.fil, r.fil) /\ SameTables(r.vol, r.vol)
    BY DEF SameFile, SameTables
  <2>. QED
    BY <1>6, <2>1, FileGrownRefl
<1>7. CASE s = Stretched(r, k) /\ k.ncl = 0
  <2>1. s = [r EXCEPT !.vol = k.vol, !.full = TRUE]
    BY <1>7 DEF Stretched
  <2>2. s = [vol |-> k.vol, fil |-> r.fil, full |-> TRUE]
    BY <2>1 DEF IsStretch
  <2>3. IsStretch(s) /\ s.vol = k.vol /\ s.fil = r.fil
    BY <2>2 DEF IsStretch
  <2>. QED
    BY <1>2, <1>5, <2>3, NoCluster
<1>8. CASE s = Stretched(r, k) /\ k.ncl # 0
  <2>1. s = [r EXCEPT !.vol = k.vol, !.fil.sclust = IF @ = 0 THEN k.ncl ELSE @]
    BY <1>8 DEF Stretched
  <2>2. PICK G : G = WithChain(r.fil, k)
    OBVIOUS
  <2>3. s = [vol |-> k.vol, fil |-> G, full |-> r.full]
    BY <2>1, <2>2 DEF IsStretch, WithChain
  <2>4. IsStretch(s) /\ s.vol = k.vol /\ s.fil = G
    BY <2>3 DEF IsStretch
  <2>5. FileGrown(r.vol, r.fil, k.vol, G)
    BY <1>2, <1>5, <1>8, <2>2, GivenChain
  <2>. QED
    BY <2>4, <2>5
<1>. QED
  BY <1>3, <1>6, <1>7, <1>8

LEMMA StretchToFacts ==
    ASSUME NEW r, IsStretch(r), VolSound(r.vol), IsFile(r.fil),
           Covers(r.vol.fat, r.fil.sclust, r.fil.fsize), NEW need \in Nat,
           NEW s, s = StretchTo(r, need)
    PROVE  IsStretch(s) /\ FileGrown(r.vol, r.fil, s.vol, s.fil)
<1>1. PICK f : IsLoop(f, "stretch", need, r, need) /\ s = f[need]
  BY StretchIsLoop
<1>. DEFINE Good(n) == IsStretch(f[n]) /\ FileGrown(r.vol, r.fil, f[n].vol, f[n].fil)
            B == {n \in Nat : n <= need /\ ~Good(n)}
<1>2. B = {}
  <2>. SUFFICES ASSUME B # {} PROVE FALSE
    OBVIOUS
  <2>1. PICK n \in B : \A l \in B : n <= l
    <3>1. B \subseteq Nat
      OBVIOUS
    <3>. HIDE DEF B
    <3>. QED
      BY <3>1, LeastNat
  <2>2. n \in Nat /\ n <= need /\ ~Good(n)
    OBVIOUS
  <2>3. CASE n = 0
    <3>1. f[0] = r
      BY <1>1 DEF IsLoop
    <3>2. SameFile(r.fil, r.fil) /\ SameTables(r.vol, r.vol)
      BY DEF SameFile, SameTables
    <3>3. FileGrown(r.vol, r.fil, r.vol, r.fil)
      BY <3>2, FileGrownRefl
    <3>. QED
      BY <2>2, <2>3, <3>1, <3>3
  <2>4. CASE n # 0
    <3>1. n - 1 \in Nat /\ n - 1 <= need /\ n \in 1 .. need /\ n - 1 \notin B
      BY <2>1, <2>2, <2>4
    <3>2. Good(n - 1)
      BY <3>1
    <3>3. PICK u : u = f[n - 1]
      OBVIOUS
    <3>4. IsStretch(u) /\ FileGrown(r.vol, r.fil, u.vol, u.fil)
      BY <3>2, <3>3
    <3>5. f[n] = Stretch(u, need)
      BY <1>1, <3>1, <3>3 DEF IsLoop, LoopStep
    <3>6. VolSound(u.vol) /\ IsFile(u.fil) /\ Covers(u.vol.fat, u.fil.sclust, u.fil.fsize)
      BY <3>4 DEF FileGrown
    <3>7. IsStretch(f[n]) /\ FileGrown(u.vol, u.fil, f[n].vol, f[n].fil)
      BY <3>4, <3>5, <3>6, StretchStep
    <3>8. FileGrown(r.vol, r.fil, f[n].vol, f[n].fil)
      BY <3>4, <3>7, FileGrownTrans
    <3>. QED
      BY <2>2, <3>7, <3>8
  <2>. QED
    BY <2>3, <2>4
<1>3. Good(need)
  BY <1>2
<1>. QED
  BY <1>1, <1>3

LEMMA LandedFacts ==
    ASSUME NEW S, VolSound(S), NEW F, IsFile(F), Covers(S.fat, F.sclust, F.fsize),
           NEW reached \in Nat, reached <= SectorUnits * Len(Chain(S.fat, F.sclust)),
           NEW r, r = Landed(S, F, reached)
    PROVE  /\ FileGrown(S, F, r.vol, r.fil) /\ SameTables(S, r.vol)
           /\ r.fil.fptr = reached /\ r.fil.sclust = F.sclust
           /\ r.fil.fsize = Larger(F.fsize, reached)
<1>. DEFINE grown == [F EXCEPT !.fptr = reached, !.fsize = Larger(@, reached),
                              !.modified = @ \/ reached > F.fsize]
            c == Chain(S.fat, F.sclust)[(reached \div SectorUnits) + 1]
<1>1. r = IF reached % SectorUnits = 0 THEN [vol |-> S, fil |-> grown] ELSE load_buf(S, grown, c)
  BY DEF Landed
<1>2. Larger(F.fsize, reached) \in Nat /\ Larger(F.fsize, reached) \in {F.fsize, reached}
  BY DEF Larger, IsFile
<1>3. /\ IsFile(grown) /\ grown.entry = F.entry /\ grown.sclust = F.sclust
      /\ grown.fptr = reached /\ grown.fsize = Larger(F.fsize, reached)
  <2>1. PICK mod : mod = (F.modified \/ reached > F.fsize)
    OBVIOUS
  <2>2. PICK size : size = Larger(F.fsize, reached)
    OBVIOUS
  <2>3. F = [entry |-> F.entry, sclust |-> F.sclust, fsize |-> F.fsize, fptr |-> F.fptr,
             sect |-> F.sect, buf |-> F.buf, dirty |-> F.dirty, modified |-> F.modified]
    BY DEF IsFile
  <2>4. grown = [F EXCEPT !.fptr = reached, !.fsize = size, !.modified = mod]
    BY <2>1, <2>2, Zenon
  <2>. HIDE DEF grown
  <2>6. grown = [entry |-> F.entry, sclust |-> F.sclust, fsize |-> size, fptr |-> reached,
                 sect |-> F.sect, buf |-> F.buf, dirty |-> F.dirty, modified |-> mod]
    BY <2>3, <2>4
  <2>5. size \in Nat
    BY <1>2, <2>2
  <2>. QED
    BY <2>2, <2>5, <2>6 DEF IsFile
<1>. HIDE DEF grown, c
<1>4. Covers(S.fat, F.sclust, Larger(F.fsize, reached))
  BY <1>2 DEF Covers
<1>5. VolSound(r.vol) /\ SameTables(S, r.vol) /\ SameFile(grown, r.fil) /\ r.fil.fptr = reached
  <2>1. CASE reached % SectorUnits = 0
    <3>1. r = [vol |-> S, fil |-> grown]
      BY <1>1, <2>1
    <3>2. r.vol = S /\ r.fil = grown
      BY <3>1
    <3>. QED
      BY <1>3, <3>2 DEF SameTables, SameFile
  <2>2. CASE reached % SectorUnits # 0
    BY <1>1, <1>3, <2>2, LoadFacts
  <2>. QED
    BY <2>1, <2>2
<1>6. Covers(r.vol.fat, r.fil.sclust, r.fil.fsize)
  BY <1>3, <1>4, <1>5 DEF SameFile, SameTables
<1>7. Linked(S.fat)
  BY DEF VolSound, TablesSound
<1>8. Grown(S.fat, r.vol.fat)
  BY <1>5, <1>7, GrownRefl DEF SameTables
<1>. QED
  BY <1>3, <1>5, <1>6, <1>8 DEF FileGrown, SameFile, SameTables

LEMMA LengthTimes ==
    ASSUME NEW fat, Linked(fat), NEW r, NEW n, Covers(fat, r, n)
    PROVE  SectorUnits * Len(Chain(fat, r)) \in Nat /\ Len(Chain(fat, r)) \in Nat
<1>1. PICK a \in Nat : a = Len(Chain(fat, r))
  BY ChainLength DEF Covers
<1>2. PICK u \in Nat : u = SectorUnits
  BY VolumeAssumption
<1>3. u * a \in Nat
  OBVIOUS
<1>. QED
  BY <1>1, <1>2, <1>3

\* f_lseek() grows the file when it may, and comes to rest inside its chain.
LEMMA SeekFacts ==
    ASSUME NEW S, VolSound(S), NEW F, IsFile(F), Covers(S.fat, F.sclust, F.fsize),
           NEW target \in Nat, NEW write, NEW r, r = f_lseek(S, F, target, write)
    PROVE  /\ FileGrown(S, F, r.vol, r.fil) /\ r.fil.fptr \in Nat
           /\ r.fil.fptr <= SectorUnits * Len(Chain(r.vol.fat, r.fil.sclust))
           /\ ~write => SameTables(S, r.vol) /\ SameFile(F, r.fil)
<1>. DEFINE need == (target + SectorUnits - 1) \div SectorUnits
            V == IF Follows(F, target) THEN move_window(S, "fat") ELSE S
            start == [vol |-> V, fil |-> F, full |-> FALSE]
            u == IF write THEN StretchTo(start, need) ELSE start
<1>1. r = SeekIn(u.vol, u.fil, target, write)
  BY DEF f_lseek
<1>2. need \in Nat
  <2>1. SectorUnits \in Nat /\ SectorUnits >= 1
    BY VolumeAssumption
  <2>2. PICK x \in Nat : x = target + SectorUnits - 1
    BY <2>1
  <2>3. x \div SectorUnits \in Nat
    BY <2>1
  <2>. QED
    BY <2>2, <2>3
<1>3. VolSound(V) /\ SameTables(S, V)
  BY MoveSound DEF SameTables
<1>4. IsStretch(start) /\ start.vol = V /\ start.fil = F
  BY DEF IsStretch
<1>. HIDE DEF V, start, need
<1>5. FileGrown(S, F, V, F)
  <2>1. SameFile(F, F)
    BY DEF SameFile
  <2>. QED
    BY <1>3, <2>1, FileGrownRefl
<1>6. Covers(V.fat, F.sclust, F.fsize)
  BY <1>3 DEF SameTables
<1>7. CASE write
  <2>1. u = StretchTo(start, need)
    BY <1>7
  <2>. HIDE DEF u
  <2>2. FileGrown(V, F, u.vol, u.fil)
    BY <1>2, <1>3, <1>4, <1>6, <2>1, StretchToFacts
  <2>3. VolSound(u.vol) /\ IsFile(u.fil) /\ Covers(u.vol.fat, u.fil.sclust, u.fil.fsize)
    BY <2>2 DEF FileGrown
  <2>4. Linked(u.vol.fat)
    BY <2>3 DEF VolSound, TablesSound
  <2>5. PICK m \in Nat : m = SectorUnits * Len(Chain(u.vol.fat, u.fil.sclust))
    BY <2>3, <2>4, LengthTimes
  <2>6. PICK reached : reached = Smaller(target, m)
    OBVIOUS
  <2>7. reached \in Nat /\ reached <= m
    BY <2>6 DEF Smaller
  <2>8. r = Landed(u.vol, u.fil, reached)
    BY <1>1, <1>7, <2>5, <2>6 DEF SeekIn
  <2>9. /\ FileGrown(u.vol, u.fil, r.vol, r.fil) /\ SameTables(u.vol, r.vol)
        /\ r.fil.fptr = reached /\ r.fil.sclust = u.fil.sclust
    BY <2>3, <2>5, <2>7, <2>8, LandedFacts
  <2>10. FileGrown(S, F, u.vol, u.fil)
    BY <1>3, <1>5, <2>2, FileGrownTrans
  <2>11. FileGrown(S, F, r.vol, r.fil)
    BY <2>9, <2>10, FileGrownTrans
  <2>. QED
    BY <1>7, <2>5, <2>7, <2>9, <2>11 DEF SameTables
<1>8. CASE ~write
  <2>1. u = start /\ u.vol = V /\ u.fil = F
    BY <1>4, <1>8
  <2>. HIDE DEF u
  <2>2. PICK reached : reached = Smaller(target, F.fsize)
    OBVIOUS
  <2>3. reached \in Nat /\ reached <= F.fsize /\ F.fsize \in Nat
    BY <2>2 DEF Smaller, IsFile
  <2>4. Linked(V.fat)
    BY <1>3 DEF VolSound, TablesSound
  <2>5. PICK m \in Nat : m = SectorUnits * Len(Chain(V.fat, F.sclust))
    BY <1>6, <2>4, LengthTimes
  <2>6. reached <= m
    BY <1>6, <2>3, <2>5 DEF Covers
  <2>7. r = Landed(V, F, reached)
    BY <1>1, <1>8, <2>1, <2>2 DEF SeekIn
  <2>8. /\ FileGrown(V, F, r.vol, r.fil) /\ SameTables(V, r.vol)
        /\ r.fil.fptr = reached /\ r.fil.sclust = F.sclust
        /\ r.fil.fsize = Larger(F.fsize, reached)
    BY <1>3, <1>6, <2>3, <2>5, <2>6, <2>7, LandedFacts
  <2>9. r.fil.fsize = F.fsize
    BY <2>3, <2>8 DEF Larger
  <2>10. FileGrown(S, F, r.vol, r.fil)
    BY <1>3, <1>5, <2>8, FileGrownTrans
  <2>11. SameFile(F, r.fil)
    BY <2>8, <2>9 DEF SameFile, FileGrown
  <2>12. SameTables(S, r.vol)
    BY <1>3, <2>8 DEF SameTables
  <2>13. r.fil.fptr <= SectorUnits * Len(Chain(r.vol.fat, r.fil.sclust))
    BY <2>5, <2>6, <2>8 DEF SameTables
  <2>. QED
    BY <2>3, <2>8, <2>10, <2>11, <2>12, <2>13
<1>. QED
  BY <1>7, <1>8

-------------------------------------------------------------------------------
(* Pieces of sectors. *)

LEMMA DivFacts ==
    ASSUME NEW x \in Nat
    PROVE  /\ x \div SectorUnits \in Nat
           /\ SectorUnits * (x \div SectorUnits) <= x
           /\ x < SectorUnits * ((x \div SectorUnits) + 1)
           /\ x % SectorUnits = 0 => x = SectorUnits * (x \div SectorUnits)
<1>1. PICK u \in Nat \ {0} : u = SectorUnits
  BY VolumeAssumption
<1>2. PICK d \in Nat, m \in Nat : d = x \div u /\ m = x % u
  OBVIOUS
<1>3. x = u * d + m /\ m < u
  BY <1>2
<1>4. u * (d + 1) = u * d + u /\ u * d \in Nat
  OBVIOUS
<1>. QED
  BY <1>1, <1>2, <1>3, <1>4

LEMMA TimesModulo ==
    ASSUME NEW k \in Nat
    PROVE  (SectorUnits * k) % SectorUnits = 0 /\ SectorUnits * k \in Nat
<1>1. PICK u \in Nat \ {0} : u = SectorUnits
  BY VolumeAssumption
<1>2. PICK x \in Nat : x = u * k
  OBVIOUS
<1>3. PICK d \in Nat, m \in Nat : d = x \div u /\ m = x % u
  OBVIOUS
<1>4. x = u * d + m /\ m < u
  BY <1>3
<1>5. CASE d < k
  <2>1. PICK e \in Nat : k = d + 1 + e
    <3>1. k - d - 1 \in Nat /\ k = d + 1 + (k - d - 1)
      BY <1>5
    <3>. QED
      BY <3>1
  <2>2. u * k = u * d + u + u * e
    BY <2>1
  <2>3. u * e \in Nat /\ u * d \in Nat
    OBVIOUS
  <2>. QED
    BY <1>2, <1>4, <2>2, <2>3
<1>6. CASE d >= k
  <2>1. PICK e \in Nat : d = k + e
    <3>1. d - k \in Nat /\ d = k + (d - k)
      BY <1>6
    <3>. QED
      BY <3>1
  <2>2. u * d = u * k + u * e
    BY <2>1
  <2>3. u * e \in Nat /\ u * k \in Nat
    OBVIOUS
  <2>. QED
    BY <1>1, <1>2, <1>3, <1>4, <2>2, <2>3
<1>. QED
  BY <1>5, <1>6

\* Piece j lies in sector first + j - 1, from its start unless it is the first one.
IsPiece(p, from, base, j) ==
    /\ p.index = base + j - 1
    /\ p.lo \in Nat /\ p.hi \in Nat /\ p.lo <= p.hi
    /\ p.hi <= SectorUnits * (base + j)
    /\ p.lo % SectorUnits # 0 => from % SectorUnits # 0 /\ j = 1
    /\ p.lo % SectorUnits = 0 => p.lo = SectorUnits * (base + j - 1)

LEMMA PiecesFacts ==
    ASSUME NEW from \in Nat, NEW n \in Nat \ {0}, NEW q, q = Pieces(from, n),
           NEW base, base = from \div SectorUnits
    PROVE  /\ Len(q) \in Nat /\ base \in Nat
           /\ \A j \in 1 .. Len(q) : IsPiece(q[j], from, base, j)
<1>1. PICK u \in Nat \ {0} : u = SectorUnits
  BY VolumeAssumption
<1>2. PICK z \in Nat : z = from + n - 1
  OBVIOUS
<1>3. PICK last \in Nat : last = z \div SectorUnits
  BY DivFacts
<1>4. /\ base \in Nat /\ u * base <= from /\ from < u * (base + 1)
      /\ from % u = 0 => from = u * base
  BY <1>1, DivFacts
<1>5. u * last <= z /\ z < u * (last + 1)
  BY <1>1, <1>2, <1>3, DivFacts
<1>6. base <= last
  <2>. SUFFICES ASSUME last + 1 <= base PROVE FALSE
    BY <1>3, <1>4
  <2>1. u * (last + 1) <= u * base
    BY <1>1, <1>4, TimesMonotone
  <2>2. u * (last + 1) \in Nat /\ u * base \in Nat
    BY <1>4
  <2>. QED
    BY <1>2, <1>4, <1>5, <2>1, <2>2
<1>7. PICK m \in Nat : m = last - base + 1
  BY <1>4, <1>6
<1>8. q = [j \in 1 .. m |->
              [index |-> base + j - 1,
               lo |-> Larger(from, (base + j - 1) * SectorUnits),
               hi |-> Smaller(from + n, (base + j - 1 + 1) * SectorUnits)]]
  BY <1>2, <1>3, <1>7 DEF Pieces
<1>9. Len(q) = m
  BY <1>8
<1>10. ASSUME NEW j \in 1 .. m
       PROVE  IsPiece(q[j], from, base, j)
  <2>1. PICK k \in Nat : k = base + j - 1
    BY <1>4
  <2>2. PICK a \in Nat, b \in Nat : a = u * k /\ b = u * (k + 1)
    OBVIOUS
  <2>3. k * SectorUnits = a /\ (k + 1) * SectorUnits = b
    BY <1>1, <2>1, <2>2
  <2>4. PICK p : p = q[j]
    OBVIOUS
  <2>5. p.index = k /\ p.lo = Larger(from, a) /\ p.hi = Smaller(from + n, b)
    BY <1>8, <2>1, <2>3, <2>4
  <2>6. k <= last
    BY <1>4, <1>7, <2>1
  <2>7. a <= z
    <3>1. u * k <= u * last
      BY <1>1, <2>6, TimesMonotone
    <3>2. u * last \in Nat
      OBVIOUS
    <3>. QED
      BY <1>5, <2>2, <3>1, <3>2
  <2>8. a <= b /\ from < b
    <3>1. b = a + u
      BY <2>2
    <3>2. u * (base + 1) <= u * (k + 1)
      BY <1>1, <1>4, <2>1, TimesMonotone
    <3>3. u * (base + 1) \in Nat
      BY <1>4
    <3>. QED
      BY <1>4, <2>2, <3>1, <3>2, <3>3
  <2>9. p.lo \in Nat /\ p.hi \in Nat /\ p.lo <= p.hi /\ p.hi <= b
    BY <1>2, <2>5, <2>7, <2>8 DEF Larger, Smaller
  <2>10. a % u = 0
    BY <1>1, <2>2, TimesModulo
  <2>11. CASE j = 1
    <3>1. k = base /\ a <= from
      BY <1>4, <2>1, <2>2, <2>11
    <3>2. p.lo = from
      BY <2>5, <3>1 DEF Larger
    <3>3. p.lo % u = 0 => p.lo = a
      BY <1>4, <2>2, <3>1, <3>2
    <3>. QED
      <4>1. p.hi <= SectorUnits * (base + j)
        <5>1. base + j = k + 1
          BY <1>4, <2>1
        <5>. QED
          BY <1>1, <2>2, <2>9, <5>1
      <4>2. p.lo % SectorUnits = 0 => p.lo = SectorUnits * (base + j - 1)
        BY <1>1, <2>1, <2>2, <3>3
      <4>3. p.lo % SectorUnits # 0 => from % SectorUnits # 0 /\ j = 1
        BY <2>11, <3>2
      <4>. QED
        BY <2>1, <2>4, <2>5, <2>9, <4>1, <4>2, <4>3 DEF IsPiece
  <2>12. CASE j # 1
    <3>1. base + 1 <= k
      BY <1>4, <2>1, <2>12
    <3>2. u * (base + 1) <= a
      BY <1>1, <1>4, <2>2, <3>1, TimesMonotone
    <3>3. u * (base + 1) \in Nat
      BY <1>4
    <3>4. p.lo = a
      BY <1>4, <2>5, <3>2, <3>3 DEF Larger
    <3>. QED
      <4>1. p.hi <= SectorUnits * (base + j)
        <5>1. base + j = k + 1
          BY <1>4, <2>1
        <5>. QED
          BY <1>1, <2>2, <2>9, <5>1
      <4>2. p.lo % SectorUnits = 0
        BY <1>1, <2>10, <3>4
      <4>3. p.lo = SectorUnits * (base + j - 1)
        BY <1>1, <2>1, <2>2, <3>4
      <4>. QED
        BY <2>1, <2>4, <2>5, <2>9, <4>1, <4>2, <4>3 DEF IsPiece
  <2>. QED
    BY <2>11, <2>12
<1>. QED
  BY <1>4, <1>9, <1>10

-------------------------------------------------------------------------------
(* f_write(). *)

IsWrite(r) ==
    r = [vol |-> r.vol, fil |-> r.fil, done |-> r.done, full |-> r.full] /\ r.done \in Nat

\* Of what is written, only the size and the volume matter here.
LEMMA WriteClusterFacts ==
    ASSUME NEW r, IsWrite(r), NEW b, VolSound(b.vol), IsFile(b.fil), NEW c, NEW p,
           p.lo \in Nat, p.hi \in Nat, p.lo <= p.hi, NEW from, NEW units,
           NEW s, s = WriteCluster(r, b, c, p, from, units)
    PROVE  /\ IsWrite(s) /\ s.full = r.full
           /\ VolSound(s.vol) /\ SameTables(b.vol, s.vol)
           /\ IsFile(s.fil) /\ s.fil.entry = b.fil.entry /\ s.fil.sclust = b.fil.sclust
           /\ s.fil.fsize \in {b.fil.fsize, p.hi}
<1>. DEFINE grown == [b.fil EXCEPT !.fsize = Larger(@, p.hi), !.fptr = p.hi]
            whole == Merge(BlankSector, p, from, units)
            filled == IF b.fil.sect # c /\ p.lo < b.fil.fsize THEN b.vol.disk.data[c] ELSE b.fil.buf
            merged == Merge(filled, p, from, units)
            T == DataWrite(b.vol, c, whole)
            G == [grown EXCEPT !.buf = IF b.fil.sect = c THEN whole ELSE @]
            H == [grown EXCEPT !.sect = c, !.buf = merged, !.dirty = TRUE]
<1>0. s = IF p.hi - p.lo = SectorUnits
          THEN [r EXCEPT !.vol = T, !.fil = G, !.done = @ + SectorUnits]
          ELSE [r EXCEPT !.vol = b.vol, !.fil = H, !.done = @ + p.hi - p.lo]
  BY DEF WriteCluster
<1>1. PICK size : size = Larger(b.fil.fsize, p.hi)
  OBVIOUS
<1>2. size \in Nat /\ size \in {b.fil.fsize, p.hi}
  BY <1>1 DEF Larger, IsFile
<1>. HIDE DEF whole, merged
<1>3. /\ IsFile(grown) /\ grown.entry = b.fil.entry /\ grown.sclust = b.fil.sclust
      /\ grown.fsize = size
  <2>1. b.fil = [entry |-> b.fil.entry, sclust |-> b.fil.sclust, fsize |-> b.fil.fsize,
                 fptr |-> b.fil.fptr, sect |-> b.fil.sect, buf |-> b.fil.buf,
                 dirty |-> b.fil.dirty, modified |-> b.fil.modified]
    BY DEF IsFile
  <2>2. grown = [b.fil EXCEPT !.fsize = size, !.fptr = p.hi]
    BY <1>1, Zenon
  <2>. HIDE DEF grown
  <2>3. grown = [entry |-> b.fil.entry, sclust |-> b.fil.sclust, fsize |-> size,
                 fptr |-> p.hi, sect |-> b.fil.sect, buf |-> b.fil.buf,
                 dirty |-> b.fil.dirty, modified |-> b.fil.modified]
    BY <2>1, <2>2
  <2>. QED
    BY <1>2, <2>3 DEF IsFile
<1>. HIDE DEF grown
<1>4. /\ IsFile(G) /\ G.entry = b.fil.entry /\ G.sclust = b.fil.sclust /\ G.fsize = size
  <2>1. PICK x : x = IF b.fil.sect = c THEN whole ELSE grown.buf
    OBVIOUS
  <2>2. G = [grown EXCEPT !.buf = x]
    BY <2>1
  <2>. HIDE DEF G
  <2>. QED
    BY <1>3, <2>2 DEF IsFile
<1>5. /\ IsFile(H) /\ H.entry = b.fil.entry /\ H.sclust = b.fil.sclust /\ H.fsize = size
  <2>1. PICK x : x = merged
    OBVIOUS
  <2>2. H = [grown EXCEPT !.sect = c, !.buf = x, !.dirty = TRUE]
    BY <2>1
  <2>3. grown = [entry |-> grown.entry, sclust |-> grown.sclust, fsize |-> grown.fsize,
                 fptr |-> grown.fptr, sect |-> grown.sect, buf |-> grown.buf,
                 dirty |-> grown.dirty, modified |-> grown.modified]
    BY <1>3 DEF IsFile
  <2>. HIDE DEF H
  <2>4. H = [entry |-> grown.entry, sclust |-> grown.sclust, fsize |-> grown.fsize,
             fptr |-> grown.fptr, sect |-> c, buf |-> x, dirty |-> TRUE,
             modified |-> grown.modified]
    BY <2>2, <2>3
  <2>. QED
    BY <1>3, <2>4 DEF IsFile
<1>6. VolSound(T) /\ SameTables(b.vol, T)
  BY DataWriteSound
<1>. HIDE DEF G, H, T
<1>7. CASE p.hi - p.lo = SectorUnits
  <2>1. r.done + SectorUnits \in Nat
    BY VolumeAssumption DEF IsWrite
  <2>2. s = [vol |-> T, fil |-> G, done |-> r.done + SectorUnits, full |-> r.full]
    BY <1>0, <1>7 DEF IsWrite
  <2>3. s.vol = T /\ s.fil = G /\ s.full = r.full /\ s.done = r.done + SectorUnits
    BY <2>2
  <2>. QED
    BY <1>2, <1>4, <1>6, <2>1, <2>2, <2>3 DEF IsWrite
<1>8. CASE p.hi - p.lo # SectorUnits
  <2>1. r.done + p.hi - p.lo \in Nat
    BY DEF IsWrite
  <2>2. s = [vol |-> b.vol, fil |-> H, done |-> r.done + p.hi - p.lo, full |-> r.full]
    BY <1>0, <1>8 DEF IsWrite
  <2>3. s.vol = b.vol /\ s.fil = H /\ s.full = r.full /\ s.done = r.done + p.hi - p.lo
    BY <2>2
  <2>. QED
    BY <1>2, <1>5, <2>1, <2>2, <2>3 DEF IsWrite, SameTables
<1>. QED
  BY <1>7, <1>8

LEMMA WriteBoundaryFacts ==
    ASSUME NEW r, IsWrite(r), VolSound(r.vol), NEW k, k.ncl # 0, NEW p,
           p.lo \in Nat, p.hi \in Nat, p.lo <= p.hi, NEW from, NEW units,
           NEW G, G = WithChain(r.fil, k), FileGrown(r.vol, r.fil, k.vol, G),
           p.hi <= SectorUnits * Len(Chain(k.vol.fat, G.sclust)),
           NEW s, s = WriteBoundary(r, k, p, from, units)
    PROVE  /\ IsWrite(s) /\ s.full = r.full
           /\ FileGrown(r.vol, r.fil, s.vol, s.fil)
           /\ Len(Chain(s.vol.fat, s.fil.sclust)) = Len(Chain(k.vol.fat, G.sclust))
<1>1. VolSound(k.vol) /\ IsFile(G) /\ Covers(k.vol.fat, G.sclust, G.fsize)
  BY DEF FileGrown
<1>2. PICK b : b = flush_buf(k.vol, G)
  OBVIOUS
<1>3. /\ VolSound(b.vol) /\ SameTables(k.vol, b.vol) /\ SameFile(G, b.fil)
  BY <1>1, <1>2, FlushFacts
<1>4. s = WriteCluster(r, b, k.ncl, p, from, units)
  BY <1>2 DEF WriteBoundary, WithChain
<1>5. /\ IsWrite(s) /\ s.full = r.full
      /\ VolSound(s.vol) /\ SameTables(b.vol, s.vol)
      /\ IsFile(s.fil) /\ s.fil.entry = b.fil.entry /\ s.fil.sclust = b.fil.sclust
      /\ s.fil.fsize \in {b.fil.fsize, p.hi}
  BY <1>3, <1>4, WriteClusterFacts DEF SameFile
<1>6. /\ SameTables(k.vol, s.vol) /\ s.fil.entry = G.entry /\ s.fil.sclust = G.sclust
      /\ s.fil.fsize \in {G.fsize, p.hi}
  BY <1>3, <1>5 DEF SameTables, SameFile
<1>7. Covers(s.vol.fat, s.fil.sclust, s.fil.fsize)
  BY <1>1, <1>6 DEF Covers, SameTables
<1>8. FileGrown(r.vol, r.fil, s.vol, s.fil)
  BY <1>5, <1>6, <1>7 DEF FileGrown, SameTables
<1>. QED
  BY <1>5, <1>6, <1>8 DEF SameTables

LEMMA WriteCachedFacts ==
    ASSUME NEW r, IsWrite(r), VolSound(r.vol), IsFile(r.fil), NEW p,
           Covers(r.vol.fat, r.fil.sclust, r.fil.fsize),
           p.lo \in Nat, p.hi \in Nat, p.lo <= p.hi, NEW from, NEW units,
           p.hi <= SectorUnits * Len(Chain(r.vol.fat, r.fil.sclust)),
           NEW s, s = WriteCached(r, p, from, units)
    PROVE  /\ IsWrite(s) /\ s.full = r.full
           /\ FileGrown(r.vol, r.fil, s.vol, s.fil)
           /\ Len(Chain(s.vol.fat, s.fil.sclust)) = Len(Chain(r.vol.fat, r.fil.sclust))
<1>1. PICK size : size = Larger(r.fil.fsize, p.hi)
  OBVIOUS
<1>2. size \in Nat /\ size \in {r.fil.fsize, p.hi}
  BY <1>1 DEF Larger, IsFile
<1>3. PICK x : x = Merge(r.fil.buf, p, from, units)
  OBVIOUS
<1>4. PICK n : n = r.done + p.hi - p.lo
  OBVIOUS
<1>5. n \in Nat
  BY <1>4 DEF IsWrite
<1>6. PICK G : G = [r.fil EXCEPT !.buf = x, !.dirty = TRUE, !.fptr = p.hi, !.fsize = size]
  OBVIOUS
<1>7. IsFile(G) /\ G.entry = r.fil.entry /\ G.sclust = r.fil.sclust /\ G.fsize = size
  BY <1>2, <1>6 DEF IsFile
<1>8. s = [r EXCEPT !.fil.buf = x, !.fil.dirty = TRUE, !.fil.fptr = p.hi,
                    !.fil.fsize = size, !.done = n]
  BY <1>1, <1>3, <1>4 DEF WriteCached
<1>9. s = [vol |-> r.vol, fil |-> G, done |-> n, full |-> r.full]
  BY <1>6, <1>8 DEF IsWrite
<1>10. s.vol = r.vol /\ s.fil = G /\ s.done = n /\ s.full = r.full /\ IsWrite(s)
  BY <1>5, <1>9 DEF IsWrite
<1>11. Covers(r.vol.fat, G.sclust, G.fsize)
  BY <1>2, <1>7 DEF Covers
<1>12. Grown(r.vol.fat, r.vol.fat)
  BY GrownRefl DEF VolSound, TablesSound
<1>. QED
  BY <1>7, <1>10, <1>11, <1>12 DEF FileGrown

\* After j pieces: the chain reaches to where the next piece begins.
WriteInv(S, F, from, base, j, r) ==
    /\ IsWrite(r) /\ FileGrown(S, F, r.vol, r.fil)
    /\ ~r.full => /\ Len(Chain(r.vol.fat, r.fil.sclust)) >= base + j
                  /\ from % SectorUnits # 0 => Len(Chain(r.vol.fat, r.fil.sclust)) >= base + 1

LEMMA FullTimes ==
    ASSUME NEW n, NEW len \in Nat, NEW k \in Nat, k <= len, n \in Nat, n <= SectorUnits * k
    PROVE  n <= SectorUnits * len
<1>1. SectorUnits * k <= SectorUnits * len
  BY TimesMonotone
<1>2. SectorUnits * k \in Nat /\ SectorUnits * len \in Nat
  BY VolumeAssumption
<1>. QED
  BY <1>1, <1>2

LEMMA WriteStep ==
    ASSUME NEW S, VolSound(S), NEW F, NEW from, NEW base \in Nat, NEW j \in Nat \ {0}, NEW r,
           WriteInv(S, F, from, base, j - 1, r), NEW p, IsPiece(p, from, base, j), NEW units,
           NEW s, s = WritePiece(r, p, from, units)
    PROVE  WriteInv(S, F, from, base, j, s)
<1>1. /\ IsWrite(r) /\ FileGrown(S, F, r.vol, r.fil)
      /\ VolSound(r.vol) /\ IsFile(r.fil) /\ Covers(r.vol.fat, r.fil.sclust, r.fil.fsize)
  BY DEF WriteInv, FileGrown
<1>2. Linked(r.vol.fat)
  BY <1>1 DEF VolSound, TablesSound
<1>3. PICK n \in Nat : n = Len(Chain(r.vol.fat, r.fil.sclust))
  BY <1>1, <1>2, LengthTimes
<1>4. p.lo \in Nat /\ p.hi \in Nat /\ p.lo <= p.hi /\ p.hi <= SectorUnits * (base + j)
  BY DEF IsPiece
<1>5. CASE r.full
  <2>1. s = r
    BY <1>5 DEF WritePiece
  <2>. QED
    BY <1>1, <1>5, <2>1 DEF WriteInv
<1>6. CASE ~r.full
  <2>1. n >= base + (j - 1) /\ (from % SectorUnits # 0 => n >= base + 1)
    BY <1>3, <1>6 DEF WriteInv
  <2>2. CASE p.lo % SectorUnits # 0
    <3>1. from % SectorUnits # 0 /\ j = 1
      BY <2>2 DEF IsPiece
    <3>2. n >= base + j
      BY <2>1, <3>1
    <3>3. p.hi <= SectorUnits * n
      BY <1>4, <3>2, FullTimes
    <3>4. s = WriteCached(r, p, from, units)
      BY <1>6, <2>2 DEF WritePiece
    <3>5. /\ IsWrite(s) /\ s.full = r.full
          /\ FileGrown(r.vol, r.fil, s.vol, s.fil)
          /\ Len(Chain(s.vol.fat, s.fil.sclust)) = n
      BY <1>1, <1>3, <1>4, <3>3, <3>4, WriteCachedFacts
    <3>6. FileGrown(S, F, s.vol, s.fil)
      BY <1>1, <3>5, FileGrownTrans
    <3>. QED
      BY <3>1, <3>2, <3>5, <3>6 DEF WriteInv
  <2>3. CASE p.lo % SectorUnits = 0
    <3>0. p.lo = SectorUnits * (base + j - 1) /\ p.index = base + j - 1
      BY <2>3 DEF IsPiece
    <3>1. PICK m \in Nat : m = base + j - 1 /\ m + 1 = base + j
      OBVIOUS
    <3>2. SectorUnits \in Nat \ {0} /\ p.lo = SectorUnits * m /\ p.index = m
      BY <3>0, <3>1, VolumeAssumption
    <3>3. p.lo = 0 <=> m = 0
      <4>1. m # 0 => SectorUnits * m >= SectorUnits * 1
        BY TimesMonotone
      <4>2. SectorUnits * 1 = SectorUnits /\ SectorUnits * 0 = 0
        BY <3>2
      <4>. QED
        BY <3>2, <4>1, <4>2
    \* What each of the ways to a cluster has to provide.
    <3>4. ASSUME NEW k, k.ncl # 0, s = WriteBoundary(r, k, p, from, units),
                 NEW G, G = WithChain(r.fil, k), FileGrown(r.vol, r.fil, k.vol, G),
                 NEW len \in Nat, len = Len(Chain(k.vol.fat, G.sclust)), len >= m + 1
          PROVE  WriteInv(S, F, from, base, j, s)
      <4>1. p.hi <= SectorUnits * len
        BY <1>4, <3>1, <3>4, FullTimes
      <4>2. /\ IsWrite(s) /\ s.full = r.full
            /\ FileGrown(r.vol, r.fil, s.vol, s.fil)
            /\ Len(Chain(s.vol.fat, s.fil.sclust)) = len
        BY <1>1, <1>4, <3>4, <4>1, WriteBoundaryFacts
      <4>3. FileGrown(S, F, s.vol, s.fil)
        BY <1>1, <4>2, FileGrownTrans
      <4>4. len >= base + j /\ len >= base + 1
        BY <3>1, <3>4
      <4>. QED
        BY <4>2, <4>3, <4>4 DEF WriteInv
    <3>5. CASE p.lo = 0 /\ r.fil.sclust # 0
      <4>1. PICK k : k = [vol |-> r.vol, ncl |-> r.fil.sclust]
        OBVIOUS
      <4>2. k.vol = r.vol /\ k.ncl = r.fil.sclust
        BY <4>1
      <4>3. s = WriteBoundary(r, k, p, from, units)
        BY <1>6, <2>3, <3>5, <4>1 DEF WritePiece
      <4>4. PICK G : G = WithChain(r.fil, k)
        OBVIOUS
      <4>5. G = r.fil
        BY <1>1, <3>5, <4>4 DEF WithChain, IsFile
      <4>6. FileGrown(r.vol, r.fil, k.vol, G)
        <5>1. SameFile(r.fil, G) /\ SameTables(r.vol, k.vol)
          BY <1>1, <4>2, <4>5 DEF SameFile, SameTables
        <5>. QED
          BY <1>1, <4>2, <5>1, FileGrownRefl
      <4>7. n >= 1
        <5>1. Root(r.vol.fat, r.fil.sclust)
          BY <1>1, <3>5 DEF Covers
        <5>. QED
          BY <1>2, <1>3, <3>5, <5>1, ChainLength
      <4>8. n = Len(Chain(k.vol.fat, G.sclust)) /\ n >= m + 1
        BY <1>3, <3>3, <3>5, <4>2, <4>5, <4>7
      <4>. QED
        BY <3>4, <3>5, <4>2, <4>3, <4>4, <4>6, <4>8
    <3>6. CASE ~(p.lo = 0 /\ r.fil.sclust # 0)
      <4>1. PICK c : c = Before(r, p)
        OBVIOUS
      <4>2. PICK k : k = create_chain(r.vol, c)
        OBVIOUS
      <4>3. s = WriteBoundary(r, k, p, from, units)
        BY <1>6, <2>3, <3>6, <4>1, <4>2 DEF WritePiece
      <4>4. /\ c = 0 <=> r.fil.sclust = 0
            /\ c # 0 => c \in Clusters /\ r.vol.fat[c] # Free
            /\ c = 0 => m = 0
            /\ c # 0 => 1 <= m /\ m <= n /\ c = Chain(r.vol.fat, r.fil.sclust)[m]
        <5>1. CASE p.lo = 0
          BY <3>3, <3>6, <4>1, <5>1 DEF Before
        <5>2. CASE p.lo # 0
          <6>1. c = Chain(r.vol.fat, r.fil.sclust)[m] /\ 1 <= m /\ m <= n
            BY <2>1, <3>1, <3>2, <3>3, <4>1, <5>2 DEF Before
          <6>2. r.fil.sclust # 0
            BY <1>2, <1>3, <6>1, ChainLength
          <6>3. Root(r.vol.fat, r.fil.sclust) /\ m \in 1 .. n
            BY <1>1, <6>1, <6>2 DEF Covers
          <6>4. c \in Clusters /\ r.vol.fat[c] # Free
            BY <1>2, <1>3, <6>1, <6>3, ChainAllocated
          <6>. QED
            BY <6>1, <6>2, <6>4, ClusterFacts
        <5>. QED
          BY <5>1, <5>2
      <4>5. CASE k.ncl = 0
        <5>1. s = [r EXCEPT !.full = TRUE, !.vol = k.vol]
          BY <4>3, <4>5 DEF WriteBoundary
        <5>2. s = [vol |-> k.vol, fil |-> r.fil, done |-> r.done, full |-> TRUE]
          BY <1>1, <5>1 DEF IsWrite
        <5>3. s.vol = k.vol /\ s.fil = r.fil /\ s.full = TRUE /\ IsWrite(s)
          BY <1>1, <5>2 DEF IsWrite
        <5>4. FileGrown(r.vol, r.fil, k.vol, r.fil)
          BY <1>1, <4>2, <4>4, NoCluster
        <5>5. FileGrown(S, F, s.vol, s.fil)
          BY <1>1, <5>3, <5>4, FileGrownTrans
        <5>. QED
          BY <5>3, <5>5 DEF WriteInv
      <4>6. CASE k.ncl # 0
        <5>1. PICK G : G = WithChain(r.fil, k)
          OBVIOUS
        <5>2. /\ FileGrown(r.vol, r.fil, k.vol, G) /\ G.fptr = r.fil.fptr /\ G.sclust # 0
              /\ Len(Chain(k.vol.fat, G.sclust)) >= n
              /\ c = 0 => Len(Chain(k.vol.fat, G.sclust)) = 1
              /\ c # 0 /\ Last(Chain(r.vol.fat, r.fil.sclust)) = c =>
                   Len(Chain(k.vol.fat, G.sclust)) = n + 1
          BY <1>1, <1>3, <4>2, <4>4, <4>6, <5>1, GivenChain
        <5>3. PICK len \in Nat : len = Len(Chain(k.vol.fat, G.sclust))
          <6>1. Linked(k.vol.fat) /\ Covers(k.vol.fat, G.sclust, G.fsize)
            BY <5>2 DEF FileGrown, VolSound, TablesSound
          <6>. QED
            BY <6>1, LengthTimes
        <5>4. len >= m + 1
          <6>1. CASE c = 0
            <7>1. m = 0
              BY <4>4, <6>1
            <7>2. len = 1
              BY <5>2, <5>3, <6>1
            <7>. QED
              BY <7>1, <7>2
          <6>2. CASE c # 0 /\ m = n
            BY <1>3, <4>4, <5>2, <5>3, <6>2 DEF Last
          <6>3. CASE c # 0 /\ m # n
            BY <4>4, <5>2, <5>3, <6>3
          <6>. QED
            BY <6>1, <6>2, <6>3
        <5>. QED
          BY <3>4, <4>3, <4>6, <5>1, <5>2, <5>3, <5>4
      <4>. QED
        BY <4>5, <4>6
    <3>. QED
      BY <3>5, <3>6
  <2>4. p.lo % SectorUnits = 0 \/ p.lo % SectorUnits # 0
    OBVIOUS
  <2>. QED
    BY <2>2, <2>3, <2>4
<1>. QED
  BY <1>5, <1>6

\* f_write() after f_lseek().
LEMMA WriteFacts ==
    ASSUME NEW S, VolSound(S), NEW F, IsFile(F), Covers(S.fat, F.sclust, F.fsize),
           F.fptr \in Nat, F.fptr <= SectorUnits * Len(Chain(S.fat, F.sclust)),
           NEW units, Len(units) \in Nat \ {0}, NEW r, r = f_write(S, F, units)
    PROVE  FileGrown(S, F, r.vol, r.fil) /\ r.done \in Nat
<1>. DEFINE from == F.fptr
            base == from \div SectorUnits
            q == Pieces(from, Len(units))
            start == [vol |-> S, fil |-> [F EXCEPT !.modified = TRUE], done |-> 0, full |-> FALSE]
<1>1. r = WritePieces(start, q, from, units)
  BY DEF f_write
<1>2. PICK G : G = [F EXCEPT !.modified = TRUE]
  OBVIOUS
<1>3. SameFile(F, G)
  BY <1>2 DEF IsFile, SameFile
<1>4. start.vol = S /\ start.fil = G /\ start.full = FALSE /\ IsWrite(start)
  BY <1>2 DEF IsWrite
<1>5. /\ Len(q) \in Nat /\ base \in Nat
      /\ \A j \in 1 .. Len(q) : IsPiece(q[j], from, base, j)
  BY PiecesFacts
<1>. HIDE DEF start, q
<1>6. Linked(S.fat)
  BY DEF VolSound, TablesSound
<1>7. WriteInv(S, F, from, base, 0, start)
  <2>1. SameTables(S, S)
    BY DEF SameTables
  <2>2. FileGrown(S, F, start.vol, start.fil)
    BY <1>3, <1>4, <2>1, FileGrownRefl
  <2>3. PICK n \in Nat : n = Len(Chain(S.fat, F.sclust))
    BY <1>6, LengthTimes
  <2>4. /\ SectorUnits * base <= from /\ from < SectorUnits * (base + 1)
        /\ from % SectorUnits = 0 => from = SectorUnits * base
    BY DivFacts
  <2>5. n >= base
    <3>. SUFFICES ASSUME n + 1 <= base PROVE FALSE
      BY <1>5, <2>3
    <3>1. SectorUnits * (n + 1) <= SectorUnits * base
      BY <1>5, TimesMonotone
    <3>2. PICK u \in Nat \ {0} : u = SectorUnits
      BY VolumeAssumption
    <3>3. u * (n + 1) = u * n + u /\ u * n \in Nat
      OBVIOUS
    <3>4. PICK x \in Nat : x = u * base
      BY <1>5
    <3>. QED
      BY <2>3, <2>4, <3>1, <3>2, <3>3, <3>4
  <2>6. from % SectorUnits # 0 => n >= base + 1
    <3>. SUFFICES ASSUME n <= base, from % SectorUnits # 0 PROVE FALSE
      BY <1>5, <2>3
    <3>1. SectorUnits * n <= SectorUnits * base
      BY <1>5, TimesMonotone
    <3>2. PICK x \in Nat, y \in Nat : x = SectorUnits * base /\ y = SectorUnits * n
      BY <1>5, VolumeAssumption
    <3>3. from = x
      BY <2>3, <2>4, <3>1, <3>2
    <3>4. x % SectorUnits = 0
      BY <1>5, <3>2, TimesModulo
    <3>. QED
      BY <3>3, <3>4
  <2>7. Len(Chain(start.vol.fat, start.fil.sclust)) = n
    BY <1>3, <1>4, <2>3 DEF SameFile
  <2>. QED
    BY <1>4, <1>5, <2>2, <2>5, <2>6, <2>7 DEF WriteInv
<1>8. PICK f : IsLoop(f, "write", <<q, from, units>>, start, Len(q)) /\ r = f[Len(q)]
  BY <1>1, <1>5, WriteIsLoop
<1>. HIDE DEF from, base
<1>. DEFINE Good(n) == WriteInv(S, F, from, base, n, f[n])
            B == {n \in Nat : n <= Len(q) /\ ~Good(n)}
<1>9. B = {}
  <2>. SUFFICES ASSUME B # {} PROVE FALSE
    OBVIOUS
  <2>1. PICK n \in B : \A l \in B : n <= l
    <3>1. B \subseteq Nat
      OBVIOUS
    <3>. HIDE DEF B
    <3>. QED
      BY <3>1, LeastNat
  <2>2. n \in Nat /\ n <= Len(q) /\ ~Good(n)
    OBVIOUS
  <2>3. CASE n = 0
    <3>1. f[0] = start
      BY <1>8 DEF IsLoop
    <3>. QED
      BY <1>7, <2>2, <2>3, <3>1
  <2>4. CASE n # 0
    <3>1. n - 1 \in Nat /\ n - 1 <= Len(q) /\ n \in 1 .. Len(q) /\ n - 1 \notin B
      BY <1>5, <2>1, <2>2, <2>4
    <3>2. WriteInv(S, F, from, base, n - 1, f[n - 1])
      BY <3>1
    <3>3. f[n] = WritePiece(f[n - 1], q[n], from, units)
      BY <1>8, <3>1 DEF IsLoop, LoopStep
    <3>4. IsPiece(q[n], from, base, n)
      BY <1>5, <3>1
    <3>5. WriteInv(S, F, from, base, n, f[n])
      BY <1>5, <2>2, <2>4, <3>2, <3>3, <3>4, WriteStep
    <3>. QED
      BY <2>2, <3>5
  <2>. QED
    BY <2>3, <2>4
<1>10. Good(Len(q))
  BY <1>5, <1>9
<1>. QED
  BY <1>8, <1>10 DEF WriteInv, IsWrite

-------------------------------------------------------------------------------
(* f_read(), f_close() and f_open(). *)

LEMMA ReadStep ==
    ASSUME NEW r, VolSound(r.vol), IsFile(r.fil), NEW p, NEW s, s = ReadNext(r, p)
    PROVE  VolSound(s.vol) /\ SameTables(r.vol, s.vol) /\ SameFile(r.fil, s.fil)
<1>1. PICK c : c = Chain(r.vol.fat, r.fil.sclust)[p.index + 1]
  OBVIOUS
<1>2. PICK S : S = IF p.lo > 0 /\ p.lo % SectorUnits = 0 THEN move_window(r.vol, "fat") ELSE r.vol
  OBVIOUS
<1>3. VolSound(S) /\ SameTables(r.vol, S)
  <2>1. CASE S = r.vol
    BY <2>1 DEF SameTables
  <2>2. CASE S = move_window(r.vol, "fat")
    BY <2>2, MoveSound
  <2>. QED
    BY <1>2, <2>1, <2>2
<1>4. PICK b : b = IF p.hi - p.lo = SectorUnits THEN [vol |-> S, fil |-> r.fil]
                   ELSE load_buf(S, r.fil, c)
  OBVIOUS
<1>5. VolSound(b.vol) /\ SameTables(S, b.vol) /\ SameFile(r.fil, b.fil)
  <2>1. CASE b = [vol |-> S, fil |-> r.fil]
    <3>1. b.vol = S /\ b.fil = r.fil
      BY <2>1
    <3>. QED
      BY <1>3, <3>1 DEF SameTables, SameFile
  <2>2. CASE b = load_buf(S, r.fil, c)
    BY <1>3, <2>2, LoadFacts
  <2>. QED
    BY <1>4, <2>1, <2>2
<1>6. s.vol = b.vol /\ s.fil = [b.fil EXCEPT !.fptr = p.hi]
  <2>1. s = ReadPiece(r, p, c)
    BY <1>1 DEF ReadNext
  <2>2. CASE p.hi - p.lo = SectorUnits
    <3>1. PICK u : s = [vol |-> b.vol, fil |-> [b.fil EXCEPT !.fptr = p.hi], units |-> u]
      BY <1>2, <1>4, <2>1, <2>2, Zenon DEF ReadPiece
    <3>. QED
      BY <3>1
  <2>3. CASE p.hi - p.lo # SectorUnits
    <3>1. PICK u : s = [vol |-> b.vol, fil |-> [b.fil EXCEPT !.fptr = p.hi], units |-> u]
      BY <1>2, <1>4, <2>1, <2>3, Zenon DEF ReadPiece
    <3>. QED
      BY <3>1
  <2>. QED
    BY <2>2, <2>3
<1>7. SameFile(b.fil, s.fil)
  <2>1. PICK G : G = s.fil
    OBVIOUS
  <2>2. IsFile(b.fil)
    BY <1>5 DEF SameFile
  <2>3. G = [b.fil EXCEPT !.fptr = p.hi]
    BY <1>6, <2>1
  <2>4. SameFile(b.fil, G)
    BY <2>2, <2>3 DEF IsFile, SameFile
  <2>. QED
    BY <2>1, <2>4
<1>. QED
  BY <1>3, <1>5, <1>6, <1>7 DEF SameTables, SameFile

LEMMA ReadFacts ==
    ASSUME NEW S, VolSound(S), NEW F, IsFile(F), F.fptr \in Nat, NEW n \in Nat \ {0},
           NEW r, r = f_read(S, F, n)
    PROVE  VolSound(r.vol) /\ SameTables(S, r.vol) /\ SameFile(F, r.fil)
<1>. DEFINE start == [vol |-> S, fil |-> F, units |-> << >>]
<1>1. PICK q : q = Pieces(F.fptr, n)
  OBVIOUS
<1>2. r = ReadPieces(start, q)
  BY <1>1 DEF f_read
<1>3. Len(q) \in Nat
  BY <1>1, PiecesFacts
<1>4. start.vol = S /\ start.fil = F
  OBVIOUS
<1>. HIDE DEF start
<1>5. PICK f : IsLoop(f, "read", q, start, Len(q)) /\ r = f[Len(q)]
  BY <1>2, <1>3, ReadIsLoop
<1>. DEFINE Good(m) == VolSound(f[m].vol) /\ SameTables(S, f[m].vol) /\ SameFile(F, f[m].fil)
            B == {m \in Nat : m <= Len(q) /\ ~Good(m)}
<1>6. B = {}
  <2>. SUFFICES ASSUME B # {} PROVE FALSE
    OBVIOUS
  <2>1. PICK m \in B : \A l \in B : m <= l
    <3>1. B \subseteq Nat
      OBVIOUS
    <3>. HIDE DEF B
    <3>. QED
      BY <3>1, LeastNat
  <2>2. m \in Nat /\ m <= Len(q) /\ ~Good(m)
    OBVIOUS
  <2>3. CASE m = 0
    <3>1. f[0] = start
      BY <1>5 DEF IsLoop
    <3>. QED
      BY <1>4, <2>2, <2>3, <3>1 DEF SameTables, SameFile
  <2>4. CASE m # 0
    <3>1. m - 1 \in Nat /\ m - 1 <= Len(q) /\ m \in 1 .. Len(q) /\ m - 1 \notin B
      BY <1>3, <2>1, <2>2, <2>4
    <3>2. Good(m - 1)
      BY <3>1
    <3>3. PICK u : u = f[m - 1]
      OBVIOUS
    <3>4. VolSound(u.vol) /\ SameTables(S, u.vol) /\ SameFile(F, u.fil) /\ IsFile(u.fil)
      BY <3>2, <3>3 DEF SameFile
    <3>5. f[m] = ReadNext(u, q[m])
      BY <1>5, <3>1, <3>3 DEF IsLoop, LoopStep
    <3>6. VolSound(f[m].vol) /\ SameTables(u.vol, f[m].vol) /\ SameFile(u.fil, f[m].fil)
      BY <3>4, <3>5, ReadStep
    <3>. QED
      BY <2>2, <3>4, <3>6 DEF SameTables, SameFile
  <2>. QED
    BY <2>3, <2>4
<1>7. Good(Len(q))
  BY <1>3, <1>6
<1>. QED
  BY <1>5, <1>7

\* The directory with entry in place i.
SetEntry(dir, i, entry) == [dir EXCEPT ![i] = entry]

LEMMA SetEntryFacts ==
    ASSUME NEW fat, NEW dir, TablesSound(fat, dir), NEW i \in DOMAIN dir,
           NEW c, NEW n \in Nat, Covers(fat, c, n),
           \A j \in DOMAIN dir : j # i => c = 0 \/ dir[j].sclust # c,
           NEW entry, entry = [name |-> dir[i].name, sclust |-> c, size |-> n],
           NEW dir2, dir2 = SetEntry(dir, i, entry)
    PROVE  /\ TablesSound(fat, dir2)
           /\ DOMAIN dir2 = DOMAIN dir /\ Len(dir2) = Len(dir)
           /\ dir2[i] = entry /\ \A j \in DOMAIN dir : j # i => dir2[j] = dir[j]
<1>. DEFINE E == [name : Names, sclust : 0 .. NClusters, size : Nat]
<1>1. dir \in Seq(E) /\ Linked(fat)
  BY DEF TablesSound
<1>2. c \in 0 .. NClusters
  BY ClusterFacts DEF Covers, Root
<1>3. dir[i].name \in Names
  BY EntryFacts
<1>4. entry \in E
  BY <1>2, <1>3
<1>5. entry.name = dir[i].name /\ entry.sclust = c /\ entry.size = n
  OBVIOUS
<1>. HIDE DEF E
<1>6. /\ dir2 \in Seq(E) /\ DOMAIN dir2 = DOMAIN dir /\ Len(dir2) = Len(dir)
      /\ dir2[i] = entry /\ \A j \in DOMAIN dir : j # i => dir2[j] = dir[j]
  BY <1>1, <1>4 DEF SetEntry
<1>7. \A j \in DOMAIN dir2 : Covers(fat, dir2[j].sclust, dir2[j].size)
  BY <1>5, <1>6, SMTT(20) DEF TablesSound
<1>8. \A j, k \in DOMAIN dir2 :
         j = k \/ (dir2[j].name # dir2[k].name /\ dir2[j].sclust \notin {dir2[k].sclust} \ {0})
  <2>1. \A j, k \in DOMAIN dir :
         j = k \/ (dir[j].name # dir[k].name /\ dir[j].sclust \notin {dir[k].sclust} \ {0})
    BY DEF TablesSound
  <2>. QED
    BY <1>5, <1>6, <2>1
<1>. QED
  BY <1>1, <1>6, <1>7, <1>8 DEF TablesSound, E

\* After f_close() the entry of the file names its chain, if the file was changed.
LEMMA CloseFacts ==
    ASSUME NEW S, VolSound(S), NEW F, IsFile(F), F.entry \in DOMAIN S.dir,
           Covers(S.fat, F.sclust, F.fsize),
           \A j \in DOMAIN S.dir : j # F.entry => F.sclust = 0 \/ S.dir[j].sclust # F.sclust,
           NEW T, T = f_close(S, F)
    PROVE  /\ VolSound(T) /\ T.fat = S.fat
           /\ DOMAIN T.dir = DOMAIN S.dir /\ Len(T.dir) = Len(S.dir)
           /\ \A j \in DOMAIN S.dir : j # F.entry => T.dir[j] = S.dir[j]
           /\ T.dir[F.entry].name = S.dir[F.entry].name
           /\ T.dir[F.entry].sclust \in {S.dir[F.entry].sclust, F.sclust}
<1>1. CASE ~F.modified
  <2>1. T = S
    BY <1>1 DEF f_close
  <2>. QED
    BY <2>1
<1>2. CASE F.modified
  <2>1. PICK b : b = flush_buf(S, F)
    OBVIOUS
  <2>2. PICK W : W = b.vol
    OBVIOUS
  <2>3. VolSound(W) /\ W.fat = S.fat /\ W.dir = S.dir
    BY <2>1, <2>2, FlushFacts DEF SameTables
  <2>4. PICK entry : entry = [W.dir[F.entry] EXCEPT !.sclust = F.sclust, !.size = F.fsize]
    OBVIOUS
  <2>5. PICK P : P = put_entry(W, F.entry, entry)
    OBVIOUS
  <2>6. T = sync_window(P)
    BY <1>2, <2>1, <2>2, <2>4, <2>5 DEF f_close
  <2>7. PICK dir2 : dir2 = SetEntry(S.dir, F.entry, entry)
    OBVIOUS
  <2>8. TablesSound(S.fat, S.dir) /\ F.fsize \in Nat
    BY DEF VolSound, IsFile
  <2>9. entry = [name |-> S.dir[F.entry].name, sclust |-> F.sclust, size |-> F.fsize]
    <3>1. S.dir[F.entry] = [name |-> S.dir[F.entry].name, sclust |-> S.dir[F.entry].sclust,
                            size |-> S.dir[F.entry].size]
      BY <2>8, EntryFacts
    <3>2. PICK e : e = S.dir[F.entry]
      OBVIOUS
    <3>3. entry = [e EXCEPT !.sclust = F.sclust, !.size = F.fsize]
      BY <2>3, <2>4, <3>2
    <3>4. e = [name |-> e.name, sclust |-> e.sclust, size |-> e.size]
      BY <3>1, <3>2
    <3>5. entry = [name |-> e.name, sclust |-> F.sclust, size |-> F.fsize]
      BY <3>3, <3>4
    <3>. QED
      BY <3>2, <3>5
  <2>10. /\ TablesSound(S.fat, dir2)
         /\ DOMAIN dir2 = DOMAIN S.dir /\ Len(dir2) = Len(S.dir)
         /\ dir2[F.entry] = entry /\ \A j \in DOMAIN S.dir : j # F.entry => dir2[j] = S.dir[j]
    BY <2>7, <2>8, <2>9, SetEntryFacts
  <2>11. dir2 = Placed(W.dir, F.entry, entry)
    BY <2>3, <2>7 DEF SetEntry, Placed
  <2>12. VolSound(P) /\ P.fat = S.fat /\ P.dir = dir2
    <3>1. TablesSound(W.fat, dir2)
      BY <2>3, <2>10
    <3>2. VolSound(P) /\ P.fat = W.fat /\ P.dir = dir2
      BY <2>3, <2>5, <2>11, <3>1, PutEntrySound
    <3>. QED
      BY <2>3, <3>2
  <2>13. VolSound(T) /\ T.fat = S.fat /\ T.dir = dir2
    BY <2>6, <2>12, SyncSound DEF SameTables
  <2>14. entry.name = S.dir[F.entry].name /\ entry.sclust = F.sclust
    BY <2>9
  <2>. QED
    BY <2>10, <2>13, <2>14
<1>. QED
  BY <1>1, <1>2

\* The entry of a file is emptied, or appended, and its chain freed.
NewEntry(dir, i, name, old) ==
    \/ i \in DOMAIN dir /\ dir[i].name = name /\ dir[i].sclust = old
    \/ i = Len(dir) + 1 /\ old = 0 /\ \A j \in DOMAIN dir : dir[j].name # name

EmptiedDir(dir, i, name) ==
    IF i \in DOMAIN dir THEN SetEntry(dir, i, [name |-> name, sclust |-> 0, size |-> 0])
    ELSE Append(dir, [name |-> name, sclust |-> 0, size |-> 0])

LEMMA EmptiedDirFacts ==
    ASSUME NEW fat, NEW dir, TablesSound(fat, dir), NEW name \in Names, NEW i, NEW old,
           NewEntry(dir, i, name, old), NEW dir2, dir2 = EmptiedDir(dir, i, name)
    PROVE  /\ TablesSound(fat, dir2)
           /\ Len(dir) <= Len(dir2) /\ i \in DOMAIN dir2
           /\ dir2[i] = [name |-> name, sclust |-> 0, size |-> 0]
           /\ \A j \in DOMAIN dir : j \in DOMAIN dir2 /\ (j # i => dir2[j] = dir[j])
           /\ \A j \in DOMAIN dir2 : j # i => j \in DOMAIN dir
<1>. DEFINE entry == [name |-> name, sclust |-> 0, size |-> 0]
            E == [name : Names, sclust : 0 .. NClusters, size : Nat]
<1>1. Covers(fat, 0, 0)
  <2>1. Len(Chain(fat, 0)) = 0 /\ SectorUnits * 0 = 0
    BY ChainLength, VolumeAssumption DEF TablesSound
  <2>. QED
    BY <2>1 DEF Covers
<1>2. Len(dir) \in Nat /\ DOMAIN dir = 1 .. Len(dir)
  BY EntryFacts
<1>3. CASE i \in DOMAIN dir
  <2>1. dir[i].name = name
    BY <1>2, <1>3 DEF NewEntry
  <2>2. dir2 = SetEntry(dir, i, entry) /\ entry = [name |-> dir[i].name, sclust |-> 0, size |-> 0]
    BY <1>3, <2>1 DEF EmptiedDir
  <2>3. 0 \in Nat /\ \A j \in DOMAIN dir : j # i => 0 = 0 \/ dir[j].sclust # 0
    OBVIOUS
  <2>4. /\ TablesSound(fat, dir2)
        /\ DOMAIN dir2 = DOMAIN dir /\ Len(dir2) = Len(dir)
        /\ dir2[i] = entry /\ \A j \in DOMAIN dir : j # i => dir2[j] = dir[j]
    <3>. HIDE DEF entry
    <3>. QED
      BY <1>1, <1>3, <2>2, <2>3, SetEntryFacts
  <2>. QED
    BY <1>2, <1>3, <2>4
<1>4. CASE i \notin DOMAIN dir
  <2>1. i = Len(dir) + 1 /\ \A j \in DOMAIN dir : dir[j].name # name
    BY <1>4 DEF NewEntry
  <2>2. dir2 = Append(dir, entry)
    BY <1>4 DEF EmptiedDir
  <2>3. entry \in E
    BY ClusterFacts
  <2>4. entry.name = name /\ entry.sclust = 0 /\ entry.size = 0
    OBVIOUS
  <2>5. dir \in Seq(E) /\ Linked(fat)
    BY DEF TablesSound
  <2>. HIDE DEF entry, E
  <2>6. /\ dir2 \in Seq(E) /\ Len(dir2) = Len(dir) + 1 /\ DOMAIN dir2 = 1 .. Len(dir) + 1
        /\ dir2[Len(dir) + 1] = entry /\ \A j \in 1 .. Len(dir) : dir2[j] = dir[j]
    BY <2>2, <2>3, <2>5
  <2>7. /\ dir2[i] = entry /\ i \in DOMAIN dir2 /\ i \notin DOMAIN dir
        /\ \A j \in DOMAIN dir : j \in DOMAIN dir2 /\ j # i /\ dir2[j] = dir[j]
        /\ \A j \in DOMAIN dir2 : j = i \/ j \in DOMAIN dir
    BY <1>2, <2>1, <2>6
  <2>8. \A j \in DOMAIN dir2 : Covers(fat, dir2[j].sclust, dir2[j].size)
    <3>1. \A j \in DOMAIN dir : Covers(fat, dir[j].sclust, dir[j].size)
      BY DEF TablesSound
    <3>. QED
      BY <1>1, <2>4, <2>7, <3>1
  <2>9. \A j, k \in DOMAIN dir2 :
           j = k \/ (dir2[j].name # dir2[k].name /\ dir2[j].sclust \notin {dir2[k].sclust} \ {0})
    <3>1. \A j, k \in DOMAIN dir :
           j = k \/ (dir[j].name # dir[k].name /\ dir[j].sclust \notin {dir[k].sclust} \ {0})
      BY DEF TablesSound
    <3>. QED
      BY <2>1, <2>4, <2>7, <3>1
  <2>10. TablesSound(fat, dir2)
    BY <2>5, <2>6, <2>8, <2>9 DEF TablesSound, E
  <2>. QED
    BY <1>2, <2>6, <2>7, <2>10 DEF entry
<1>. QED
  BY <1>3, <1>4

LEMMA EmptiedFacts ==
    ASSUME NEW S, VolSound(S), NEW name \in Names, NEW i, NEW old,
           NewEntry(S.dir, i, name, old), NEW T, T = Emptied(S, i, name, old)
    PROVE  /\ VolSound(T) /\ T.dir = EmptiedDir(S.dir, i, name)
           /\ \A r : Root(S.fat, r) /\ r # old =>
                 Root(T.fat, r) /\ Chain(T.fat, r) = Chain(S.fat, r)
<1>. DEFINE entry == [name |-> name, sclust |-> 0, size |-> 0]
<1>1. PICK P : P = put_entry(S, i, entry)
  OBVIOUS
<1>2. PICK dir2 : dir2 = EmptiedDir(S.dir, i, name)
  OBVIOUS
<1>3. /\ TablesSound(S.fat, dir2) /\ i \in DOMAIN dir2 /\ dir2[i] = entry
      /\ \A j \in DOMAIN dir2 : j # i => j \in DOMAIN S.dir
      /\ \A j \in DOMAIN S.dir : j # i => dir2[j] = S.dir[j]
  BY <1>2, EmptiedDirFacts DEF VolSound
<1>4. VolSound(P) /\ P.fat = S.fat /\ P.dir = dir2
  <2>1. dir2 = Placed(S.dir, i, entry)
    BY <1>2 DEF EmptiedDir, SetEntry, Placed
  <2>2. TablesSound(S.fat, dir2)
    BY <1>3
  <2>. HIDE DEF entry
  <2>. QED
    BY <1>1, <2>1, <2>2, PutEntrySound
<1>5. CASE old = 0
  <2>1. T = P
    BY <1>1, <1>5 DEF Emptied
  <2>. QED
    BY <1>2, <1>4, <2>1
<1>6. CASE old # 0
  <2>1. PICK R : R = remove_chain(P, old)
    OBVIOUS
  <2>2. PICK L : L = Look(R)
    OBVIOUS
  <2>3. T = [L EXCEPT !.last = old - 1]
    BY <1>1, <1>6, <2>1, <2>2 DEF Emptied
  <2>4. i \in DOMAIN S.dir /\ S.dir[i].sclust = old
    BY <1>6 DEF NewEntry
  <2>5. Root(P.fat, old)
    BY <1>4, <1>6, <2>4 DEF VolSound, TablesSound, Covers
  <2>6. \A j \in DOMAIN P.dir : P.dir[j].sclust # old
    <3>1. entry.sclust = 0
      OBVIOUS
    <3>2. \A j \in DOMAIN S.dir : j # i => S.dir[j].sclust # old
      BY <1>6, <2>4 DEF VolSound, TablesSound
    <3>. QED
      BY <1>3, <1>4, <1>6, <3>1, <3>2
  <2>7. /\ VolSound(R) /\ R.dir = P.dir
        /\ \A r : Root(P.fat, r) /\ r # old => Root(R.fat, r) /\ Chain(R.fat, r) = Chain(P.fat, r)
    BY <1>4, <2>1, <2>5, <2>6, RemoveSound
  <2>8. VolSound(L) /\ L.fat = R.fat /\ L.dir = R.dir
    BY <2>2, <2>7, MoveSound DEF Look, SameTables
  <2>9. old - 1 \in Nat
    BY <2>5, ClusterFacts DEF Root
  <2>10. VolSound(T) /\ T.fat = R.fat /\ T.dir = R.dir
    BY <2>3, <2>8, <2>9, LastSound DEF SameTables
  <2>. QED
    BY <1>2, <1>4, <2>7, <2>10
<1>. QED
  BY <1>5, <1>6

\* What opening the file called name makes of S: names stay where they are, and
\* no chain goes but, when it is truncated, the one of that file.
Reopened(S, T, name, truncate) ==
    /\ VolSound(T) /\ Len(S.dir) <= Len(T.dir)
    /\ \A j \in DOMAIN S.dir : j \in DOMAIN T.dir /\ T.dir[j].name = S.dir[j].name
    /\ \A j \in DOMAIN T.dir : \/ T.dir[j].sclust = 0
                               \/ j \in DOMAIN S.dir /\ T.dir[j].sclust = S.dir[j].sclust
    /\ \A r : /\ Root(S.fat, r)
              /\ truncate => \A j \in DOMAIN S.dir : S.dir[j].name = name => S.dir[j].sclust # r
              => Root(T.fat, r) /\ Chain(T.fat, r) = Chain(S.fat, r)

\* F is an object of the file called name as the directory shows it.
IsOpened(S, F, name, truncate) ==
    /\ IsFile(F) /\ F.entry \in DOMAIN S.dir /\ S.dir[F.entry].name = name
    /\ F.sclust = S.dir[F.entry].sclust /\ F.fsize = S.dir[F.entry].size
    /\ truncate => F.sclust = 0

LEMMA ReopenedSame ==
    ASSUME NEW S, VolSound(S), NEW T, VolSound(T), SameTables(S, T), NEW name, NEW truncate
    PROVE  Reopened(S, T, name, truncate)
<1>1. Len(S.dir) \in Nat
  BY EntryFacts DEF VolSound
<1>. QED
  BY <1>1 DEF Reopened, SameTables

LEMMA ReopenedFrom ==
    ASSUME NEW S, NEW T, SameTables(S, T), NEW U, NEW name, NEW truncate,
           Reopened(T, U, name, truncate)
    PROVE  Reopened(S, U, name, truncate)
  BY DEF Reopened, SameTables

LEMMA OpenedFacts ==
    ASSUME NEW S, VolSound(S), NEW i \in DOMAIN S.dir, NEW reset,
           NEW r, r = Opened(S, i, reset), NEW truncate, truncate => S.dir[i].sclust = 0
    PROVE  r.ok /\ r.vol = S /\ IsOpened(S, r.fil, S.dir[i].name, truncate)
<1>1. S.dir[i].size \in Nat
  BY EntryFacts DEF VolSound
<1>2. PICK c, n : c = S.dir[i].sclust /\ n = S.dir[i].size
  OBVIOUS
<1>3. PICK F : F = [entry |-> i, sclust |-> c, fsize |-> n, fptr |-> 0, sect |-> 0,
                    buf |-> BlankSector, dirty |-> FALSE, modified |-> reset]
  OBVIOUS
<1>4. r = [ok |-> TRUE, vol |-> S, fil |-> F]
  BY <1>2, <1>3 DEF Opened
<1>5. r.ok /\ r.vol = S /\ r.fil = F
  BY <1>4
<1>6. IsFile(F) /\ F.entry = i /\ F.sclust = c /\ F.fsize = n
  BY <1>1, <1>2, <1>3 DEF IsFile
<1>. QED
  BY <1>2, <1>5, <1>6 DEF IsOpened

LEMMA OpenInFacts ==
    ASSUME NEW S, VolSound(S), NEW name \in Names, NEW create, NEW truncate, NEW exclusive,
           NEW r, r = OpenIn(S, name, create, truncate, exclusive)
    PROVE  /\ r.ok \in BOOLEAN /\ Reopened(S, r.vol, name, truncate)
           /\ r.ok => IsOpened(r.vol, r.fil, name, truncate)
<1>. DEFINE found == NameAt(S, name) # {}
            i == IF found THEN CHOOSE j \in NameAt(S, name) : TRUE ELSE Len(S.dir) + 1
            old == IF found THEN S.dir[i].sclust ELSE 0
<1>1. found \in BOOLEAN /\ (found <=> NameAt(S, name) # {})
  OBVIOUS
<1>2. i = IF found THEN CHOOSE j \in NameAt(S, name) : TRUE ELSE Len(S.dir) + 1
  OBVIOUS
<1>3. old = IF found THEN S.dir[i].sclust ELSE 0
  OBVIOUS
<1>7. r = IF (found /\ exclusive) \/ (~found /\ ~create /\ ~truncate) THEN [ok |-> FALSE, vol |-> S]
          ELSE IF found /\ ~truncate THEN Opened(S, i, FALSE)
          ELSE Opened(Emptied(S, i, name, old), i, TRUE)
  BY Zenon DEF OpenIn
<1>. HIDE DEF found, i, old
<1>4. TablesSound(S.fat, S.dir) /\ Len(S.dir) \in Nat /\ DOMAIN S.dir = 1 .. Len(S.dir)
  BY EntryFacts DEF VolSound
<1>5. IF found THEN i \in DOMAIN S.dir /\ S.dir[i].name = name
      ELSE i = Len(S.dir) + 1 /\ \A j \in DOMAIN S.dir : S.dir[j].name # name
  <2>1. CASE found
    <3>1. i \in NameAt(S, name)
      BY <1>1, <1>2, <2>1
    <3>. QED
      BY <2>1, <3>1 DEF NameAt
  <2>2. CASE ~found
    BY <1>1, <1>2, <2>2 DEF NameAt
  <2>. QED
    BY <2>1, <2>2
<1>6. NewEntry(S.dir, i, name, old)
  BY <1>3, <1>5 DEF NewEntry
<1>8. Reopened(S, S, name, truncate)
  BY ReopenedSame DEF SameTables
<1>9. CASE r = [ok |-> FALSE, vol |-> S]
  <2>1. r.ok = FALSE /\ r.vol = S
    BY <1>9
  <2>. QED
    BY <1>8, <2>1
<1>10. CASE r = Opened(S, i, FALSE) /\ found /\ ~truncate
  <2>1. i \in DOMAIN S.dir /\ S.dir[i].name = name
    BY <1>5, <1>10
  <2>2. r.ok /\ r.vol = S /\ IsOpened(S, r.fil, S.dir[i].name, truncate)
    BY <1>10, <2>1, OpenedFacts
  <2>3. r.ok \in BOOLEAN
    BY <1>10 DEF Opened
  <2>. QED
    BY <1>8, <2>1, <2>2, <2>3
<1>11. CASE r = Opened(Emptied(S, i, name, old), i, TRUE) /\ (~found \/ truncate)
  <2>1. PICK T : T = Emptied(S, i, name, old)
    OBVIOUS
  <2>2. /\ VolSound(T) /\ T.dir = EmptiedDir(S.dir, i, name)
        /\ \A x : Root(S.fat, x) /\ x # old => Root(T.fat, x) /\ Chain(T.fat, x) = Chain(S.fat, x)
    BY <1>6, <2>1, EmptiedFacts
  <2>3. /\ Len(S.dir) <= Len(T.dir) /\ i \in DOMAIN T.dir
        /\ T.dir[i] = [name |-> name, sclust |-> 0, size |-> 0]
        /\ \A j \in DOMAIN S.dir : j \in DOMAIN T.dir /\ (j # i => T.dir[j] = S.dir[j])
        /\ \A j \in DOMAIN T.dir : j # i => j \in DOMAIN S.dir
    BY <1>4, <1>6, <2>2, EmptiedDirFacts
  <2>4. T.dir[i].name = name /\ T.dir[i].sclust = 0
    BY <2>3
  <2>5. r = Opened(T, i, TRUE)
    BY <1>11, <2>1
  <2>6. r.ok /\ r.vol = T /\ IsOpened(T, r.fil, T.dir[i].name, truncate)
    <3>1. PICK reset : reset = TRUE
      OBVIOUS
    <3>2. r = Opened(T, i, reset) /\ VolSound(T) /\ i \in DOMAIN T.dir /\ T.dir[i].sclust = 0
      BY <2>2, <2>3, <2>4, <2>5, <3>1
    <3>. QED
      BY <3>2, OpenedFacts
  <2>7. r.ok \in BOOLEAN
    BY <2>5 DEF Opened
  <2>8. ASSUME NEW x, Root(S.fat, x),
               truncate => \A j \in DOMAIN S.dir : S.dir[j].name = name => S.dir[j].sclust # x
        PROVE  Root(T.fat, x) /\ Chain(T.fat, x) = Chain(S.fat, x)
    <3>1. x # old
      <4>1. CASE found
        BY <1>3, <1>5, <1>11, <2>8, <4>1
      <4>2. CASE ~found
        BY <1>3, <2>8, <4>2, ClusterFacts DEF Root
      <4>. QED
        BY <4>1, <4>2
    <3>. QED
      BY <2>2, <2>8, <3>1
  <2>9. \A j \in DOMAIN S.dir : j \in DOMAIN T.dir /\ T.dir[j].name = S.dir[j].name
    BY <1>5, <1>4, <2>3, <2>4
  <2>10. \A j \in DOMAIN T.dir : \/ T.dir[j].sclust = 0
                                 \/ j \in DOMAIN S.dir /\ T.dir[j].sclust = S.dir[j].sclust
    BY <2>3, <2>4
  <2>11. Reopened(S, T, name, truncate)
    BY <2>2, <2>3, <2>8, <2>9, <2>10 DEF Reopened
  <2>. QED
    BY <2>4, <2>6, <2>7, <2>11
<1>. QED
  BY <1>7, <1>9, <1>10, <1>11

LEMMA OpenFacts ==
    ASSUME NEW S, VolSound(S), NEW name \in Names, NEW create, NEW truncate, NEW exclusive,
           NEW r, r = f_open(S, name, create, truncate, exclusive)
    PROVE  /\ r.ok \in BOOLEAN /\ Reopened(S, r.vol, name, truncate)
           /\ r.ok => IsOpened(r.vol, r.fil, name, truncate)
<1>1. PICK L : L = Look(S)
  OBVIOUS
<1>2. VolSound(L) /\ SameTables(S, L)
  BY <1>1, MoveSound DEF Look
<1>3. r = OpenIn(L, name, create, truncate, exclusive)
  BY <1>1 DEF f_open
<1>4. /\ r.ok \in BOOLEAN /\ Reopened(L, r.vol, name, truncate)
      /\ r.ok => IsOpened(r.vol, r.fil, name, truncate)
  BY <1>2, <1>3, OpenInFacts
<1>. QED
  BY <1>2, <1>4, ReopenedFrom

\* A file just opened may be closed again at once.
LEMMA CloseOpened ==
    ASSUME NEW S, NEW T, NEW name, NEW truncate, Reopened(S, T, name, truncate),
           NEW F, IsOpened(T, F, name, truncate), NEW U, U = f_close(T, F)
    PROVE  Reopened(S, U, name, truncate)
<1>1. VolSound(T) /\ TablesSound(T.fat, T.dir)
  BY DEF Reopened, VolSound
<1>2. /\ IsFile(F) /\ F.entry \in DOMAIN T.dir
      /\ F.sclust = T.dir[F.entry].sclust /\ F.fsize = T.dir[F.entry].size
  BY DEF IsOpened
<1>3. Covers(T.fat, F.sclust, F.fsize)
  BY <1>1, <1>2 DEF TablesSound
<1>4. \A j \in DOMAIN T.dir : j # F.entry => F.sclust = 0 \/ T.dir[j].sclust # F.sclust
  BY <1>1, <1>2 DEF TablesSound
<1>5. /\ VolSound(U) /\ U.fat = T.fat
      /\ DOMAIN U.dir = DOMAIN T.dir /\ Len(U.dir) = Len(T.dir)
      /\ \A j \in DOMAIN T.dir : j # F.entry => U.dir[j] = T.dir[j]
      /\ U.dir[F.entry].name = T.dir[F.entry].name
      /\ U.dir[F.entry].sclust \in {T.dir[F.entry].sclust, F.sclust}
  BY <1>1, <1>2, <1>3, <1>4, CloseFacts, SMTT(20)
<1>6. \A j \in DOMAIN T.dir : U.dir[j].name = T.dir[j].name /\ U.dir[j].sclust = T.dir[j].sclust
  BY <1>2, <1>5
<1>. QED
  BY <1>5, <1>6 DEF Reopened
-------------------------------------------------------------------------------
(* Handles. Those that may write have a chain of their own; those of one file  *)
(* that only read share the chain of its entry.                                 *)

IsHandle(h) ==
    /\ h = [used |-> h.used, isDir |-> h.isDir, name |-> h.name, acc |-> h.acc,
            append |-> h.append, pos |-> h.pos, size |-> h.size, fil |-> h.fil, want |-> h.want,
            touched |-> h.touched, short |-> h.short, wrong |-> h.wrong, listed |-> h.listed]
    /\ h.used = TRUE /\ h.isDir = FALSE

\* h is a handle of a file, whose chain no entry but its own names; a settings
\* program truncates the file, and from then on even that one does not.
FileOK(S, h) ==
    /\ IsHandle(h) /\ h.pos \in Nat /\ h.size \in Nat
    /\ IsFile(h.fil) /\ h.fil.entry \in DOMAIN S.dir /\ S.dir[h.fil.entry].name = h.name
    /\ Covers(S.fat, h.fil.sclust, h.fil.fsize)
    /\ \A i \in DOMAIN S.dir : i # h.fil.entry \/ h.name = Settings =>
          h.fil.sclust = 0 \/ S.dir[i].sclust # h.fil.sclust

\* An open directory, at whatever position.
ListingShape(h) ==
    /\ h = [used |-> h.used, isDir |-> h.isDir, name |-> h.name, acc |-> h.acc,
            append |-> h.append, pos |-> h.pos, size |-> h.size, listed |-> h.listed]
    /\ h.used = TRUE /\ h.isDir = TRUE

\* h is a handle of the directory, and has listed the entries before its position.
ListingOK(S, h) ==
    /\ ListingShape(h)
    /\ h.listed \in Seq(Names) /\ Len(h.listed) <= Len(S.dir)
    /\ \A k \in 1 .. Len(h.listed) : h.listed[k] = S.dir[k].name
    /\ h.pos = Total(KernelLen, h.listed)

HandleOK(S, h) == IF h.isDir THEN ListingOK(S, h) ELSE FileOK(S, h)

\* Two handles with one chain are of one ordinary file, and then both only read.
Apart(h, g) ==
    /\ h.name = g.name /\ h.name # Settings => ~Writable(h) /\ ~Writable(g)
    /\ \/ h.fil.sclust = 0 \/ h.fil.sclust # g.fil.sclust
       \/ h.name = g.name /\ h.name # Settings

HandlesOK(S, sl, held) ==
    /\ \A s \in held : HandleOK(S, sl[s])
    /\ \A s, t \in held : s # t /\ ~sl[s].isDir /\ ~sl[t].isDir => Apart(sl[s], sl[t])

LEMMA ApartSym ==
    ASSUME NEW h, NEW g, Apart(h, g)
    PROVE  Apart(g, h)
  BY DEF Apart

LEMMA HandlesSame ==
    ASSUME NEW S, NEW T, SameTables(S, T), NEW sl, NEW held, HandlesOK(S, sl, held)
    PROVE  HandlesOK(T, sl, held)
<1>1. \A h : HandleOK(S, h) => HandleOK(T, h)
  BY DEF HandleOK, FileOK, ListingOK, SameTables
<1>. QED
  BY <1>1 DEF HandlesOK

LEMMA HandlesFewer ==
    ASSUME NEW S, NEW sl, NEW held, HandlesOK(S, sl, held), NEW held2, held2 \subseteq held
    PROVE  HandlesOK(S, sl, held2)
  BY DEF HandlesOK

\* Changing a slot that is not held changes nothing.
LEMMA HandlesOthers ==
    ASSUME NEW S, NEW sl, NEW held, HandlesOK(S, sl, held), NEW sl2,
           \A t \in held : sl2[t] = sl[t]
    PROVE  HandlesOK(S, sl2, held)
  BY DEF HandlesOK

\* A handle comes to the others, or takes the place of one of them.
LEMMA HandlesWith ==
    ASSUME NEW S, NEW sl, NEW held, NEW s, HandlesOK(S, sl, held \ {s}),
           NEW sl2, \A t \in held \ {s} : sl2[t] = sl[t], HandleOK(S, sl2[s]),
           \A t \in held \ {s} : ~sl[t].isDir /\ ~sl2[s].isDir => Apart(sl[t], sl2[s])
    PROVE  HandlesOK(S, sl2, held \cup {s})
<1>1. \A t \in held \cup {s} : HandleOK(S, sl2[t])
  BY DEF HandlesOK
<1>2. ASSUME NEW t \in held \cup {s}, NEW u \in held \cup {s}, t # u,
             ~sl2[t].isDir, ~sl2[u].isDir
      PROVE  Apart(sl2[t], sl2[u])
  <2>1. CASE t # s /\ u # s
    <3>1. t \in held \ {s} /\ u \in held \ {s} /\ sl2[t] = sl[t] /\ sl2[u] = sl[u]
      BY <2>1
    <3>. QED
      BY <1>2, <3>1 DEF HandlesOK
  <2>2. CASE u = s
    <3>1. t \in held \ {s} /\ sl2[t] = sl[t]
      BY <1>2, <2>2
    <3>. QED
      BY <1>2, <2>2, <3>1
  <2>3. CASE t = s
    <3>1. u \in held \ {s} /\ sl2[u] = sl[u]
      BY <1>2, <2>3
    <3>2. Apart(sl[u], sl2[s])
      BY <1>2, <2>3, <3>1
    <3>. QED
      BY <2>3, <3>1, <3>2, ApartSym
  <2>. QED
    BY <2>1, <2>2, <2>3
<1>. QED
  BY <1>1, <1>2 DEF HandlesOK

\* What of a directory a listing looks at.
LEMMA ListingKept ==
    ASSUME NEW S, NEW T, Len(S.dir) \in Nat, Len(T.dir) \in Nat, Len(S.dir) <= Len(T.dir),
           DOMAIN S.dir = 1 .. Len(S.dir),
           \A j \in DOMAIN S.dir : T.dir[j].name = S.dir[j].name,
           NEW h, ListingOK(S, h)
    PROVE  ListingOK(T, h)
<1>1. Len(h.listed) \in Nat
  BY DEF ListingOK
<1>2. \A k \in 1 .. Len(h.listed) : k \in DOMAIN S.dir
  BY <1>1 DEF ListingOK
<1>. QED
  BY <1>1, <1>2, SMTT(20) DEF ListingOK

LEMMA HandlesReopened ==
    ASSUME NEW S, VolSound(S), NEW sl, NEW held, HandlesOK(S, sl, held),
           NEW T, NEW name, NEW truncate, Reopened(S, T, name, truncate),
           \A s \in held : ~sl[s].isDir /\ sl[s].name = name => ~truncate \/ name = Settings
    PROVE  HandlesOK(T, sl, held)
<1>1. /\ TablesSound(S.fat, S.dir) /\ VolSound(T) /\ TablesSound(T.fat, T.dir)
      /\ Len(S.dir) \in Nat /\ Len(T.dir) \in Nat /\ DOMAIN S.dir = 1 .. Len(S.dir)
      /\ Len(S.dir) <= Len(T.dir)
      /\ \A j \in DOMAIN S.dir : j \in DOMAIN T.dir /\ T.dir[j].name = S.dir[j].name
  BY EntryFacts DEF VolSound, Reopened
<1>2. ASSUME NEW s \in held, sl[s].isDir
      PROVE  HandleOK(T, sl[s])
  <2>1. ListingOK(S, sl[s])
    BY <1>2 DEF HandlesOK, HandleOK
  <2>2. ListingOK(T, sl[s])
    BY <1>1, <2>1, ListingKept
  <2>. QED
    BY <1>2, <2>2 DEF HandleOK
<1>3. ASSUME NEW s \in held, ~sl[s].isDir
      PROVE  HandleOK(T, sl[s])
  <2>1. PICK h : h = sl[s]
    OBVIOUS
  <2>2. FileOK(S, h)
    BY <1>3, <2>1 DEF HandlesOK, HandleOK
  <2>3. PICK c : c = h.fil.sclust
    OBVIOUS
  <2>4. h.fil.entry \in DOMAIN T.dir /\ T.dir[h.fil.entry].name = h.name
    BY <1>1, <2>2 DEF FileOK
  <2>5. ASSUME c # 0
        PROVE  Root(T.fat, c) /\ Chain(T.fat, c) = Chain(S.fat, c)
    <3>1. Root(S.fat, c)
      BY <2>2, <2>3, <2>5 DEF FileOK, Covers
    <3>2. ASSUME truncate, NEW j \in DOMAIN S.dir, S.dir[j].name = name
          PROVE  S.dir[j].sclust # c
      <4>1. CASE h.name = name
        <5>1. h.name = Settings
          BY <1>3, <2>1, <3>2, <4>1
        <5>. QED
          BY <2>2, <2>3, <2>5, <5>1 DEF FileOK
      <4>2. CASE h.name # name
        <5>1. j # h.fil.entry
          BY <2>2, <3>2, <4>2 DEF FileOK
        <5>. QED
          BY <2>2, <2>3, <2>5, <5>1 DEF FileOK
      <4>. QED
        BY <4>1, <4>2
    <3>. QED
      BY <3>1, <3>2 DEF Reopened
  <2>6. Covers(T.fat, c, h.fil.fsize)
    <3>1. CASE c = 0
      <4>1. Len(Chain(S.fat, c)) = 0 /\ Len(Chain(T.fat, c)) = 0
        BY <1>1, <3>1, ChainLength DEF TablesSound
      <4>. QED
        BY <2>2, <2>3, <3>1, <4>1 DEF FileOK, Covers
    <3>2. CASE c # 0
      BY <2>2, <2>3, <2>5, <3>2 DEF FileOK, Covers
    <3>. QED
      BY <3>1, <3>2
  <2>7. \A i \in DOMAIN T.dir : i # h.fil.entry \/ h.name = Settings => c = 0 \/ T.dir[i].sclust # c
    <3>1. \A i \in DOMAIN S.dir : i # h.fil.entry \/ h.name = Settings => c = 0 \/ S.dir[i].sclust # c
      BY <2>2, <2>3 DEF FileOK
    <3>. QED
      BY <3>1 DEF Reopened
  <2>8. FileOK(T, h)
    BY <2>2, <2>3, <2>4, <2>6, <2>7 DEF FileOK
  <2>. QED
    BY <1>3, <2>1, <2>8 DEF HandleOK
<1>. QED
  BY <1>2, <1>3 DEF HandlesOK

\* The handle an open gives.
LEMMA OpenedHandle ==
    ASSUME NEW T, VolSound(T), NEW F, NEW name, NEW truncate, IsOpened(T, F, name, truncate),
           name = Settings => truncate, NEW flags, NEW want, NEW touched,
           NEW g, g = FileHandle(name, flags, F, want, touched)
    PROVE  FileOK(T, g) /\ g.name = name /\ g.acc = flags.acc /\ g.fil = F /\ ~g.isDir /\ g.used
<1>1. TablesSound(T.fat, T.dir)
  BY DEF VolSound
<1>2. /\ IsFile(F) /\ F.entry \in DOMAIN T.dir /\ T.dir[F.entry].name = name
      /\ F.sclust = T.dir[F.entry].sclust /\ F.fsize = T.dir[F.entry].size
      /\ truncate => F.sclust = 0
  BY DEF IsOpened
<1>3. Covers(T.fat, F.sclust, F.fsize)
  BY <1>1, <1>2 DEF TablesSound
<1>4. \A i \in DOMAIN T.dir : i # F.entry \/ name = Settings => F.sclust = 0 \/ T.dir[i].sclust # F.sclust
  BY <1>1, <1>2 DEF TablesSound
<1>5. PICK acc, append, size : acc = flags.acc /\ append = flags.append /\ size = F.fsize
  OBVIOUS
<1>6. g = [used |-> TRUE, isDir |-> FALSE, name |-> name, acc |-> acc, append |-> append,
           pos |-> 0, size |-> size, fil |-> F, want |-> want, touched |-> touched,
           short |-> FALSE, wrong |-> FALSE, listed |-> << >>]
  BY <1>5 DEF FileHandle
<1>7. /\ IsHandle(g) /\ g.name = name /\ g.acc = acc /\ g.fil = F /\ g.pos = 0 /\ g.size = size
      /\ g.isDir = FALSE /\ g.used = TRUE
  BY <1>6 DEF IsHandle
<1>8. size \in Nat
  BY <1>2, <1>5 DEF IsFile
<1>. QED
  BY <1>2, <1>3, <1>4, <1>5, <1>7, <1>8 DEF FileOK

LEMMA HandlesOpened ==
    ASSUME NEW T, VolSound(T), NEW sl, NEW held, HandlesOK(T, sl, held),
           NEW F, NEW name, NEW truncate, IsOpened(T, F, name, truncate),
           name = Settings => truncate, NEW flags, NEW want, NEW touched,
           NEW g, g = FileHandle(name, flags, F, want, touched),
           \A t \in held : ~sl[t].isDir /\ sl[t].name = name /\ name # Settings =>
                ~Writable(g) /\ ~Writable(sl[t]),
           NEW s, s \notin held, NEW sl2, sl2[s] = g, \A t \in held : sl2[t] = sl[t]
    PROVE  HandlesOK(T, sl2, held \cup {s})
<1>1. FileOK(T, g) /\ g.name = name /\ g.fil = F /\ ~g.isDir
  BY OpenedHandle
<1>2. /\ F.entry \in DOMAIN T.dir /\ T.dir[F.entry].name = name
      /\ F.sclust = T.dir[F.entry].sclust /\ (truncate => F.sclust = 0)
  BY DEF IsOpened
<1>3. ASSUME NEW t \in held, ~sl[t].isDir
      PROVE  Apart(sl[t], g)
  <2>1. PICK h : h = sl[t]
    OBVIOUS
  <2>2. FileOK(T, h)
    BY <1>3, <2>1 DEF HandlesOK, HandleOK
  <2>3. h.name = name /\ h.name # Settings => ~Writable(h) /\ ~Writable(g)
    BY <1>3, <2>1
  <2>4. h.fil.sclust = 0 \/ h.fil.sclust # F.sclust \/ (h.name = name /\ h.name # Settings)
    <3>1. CASE h.name # name
      <4>1. F.entry # h.fil.entry
        BY <1>2, <2>2, <3>1 DEF FileOK
      <4>. QED
        BY <1>2, <2>2, <4>1 DEF FileOK
    <3>2. CASE h.name = name
      BY <1>2, <3>2
    <3>. QED
      BY <3>1, <3>2
  <2>. QED
    BY <1>1, <2>1, <2>3, <2>4 DEF Apart
<1>4. HandleOK(T, sl2[s])
  BY <1>1 DEF HandleOK
<1>5. held \ {s} = held
  OBVIOUS
<1>6. HandlesOK(T, sl, held \ {s}) /\ \A t \in held \ {s} : sl2[t] = sl[t]
  BY <1>5
<1>7. \A t \in held \ {s} : ~sl[t].isDir /\ ~sl2[s].isDir => Apart(sl[t], sl2[s])
  BY <1>3
<1>. QED
  BY <1>4, <1>6, <1>7, HandlesWith

\* A write or a read through the handle of slot s.
LEMMA HandlesGrown ==
    ASSUME NEW S, VolSound(S), NEW sl, NEW held, HandlesOK(S, sl, held),
           NEW s \in held, ~sl[s].isDir, NEW T, NEW g, FileGrown(S, sl[s].fil, T, g.fil),
           IsHandle(g), g.pos \in Nat, g.size \in Nat, g.name = sl[s].name, g.acc = sl[s].acc,
           NEW sl2, sl2[s] = g, \A t \in held \ {s} : sl2[t] = sl[t]
    PROVE  HandlesOK(T, sl2, held)
<1>1. PICK F, G : F = sl[s].fil /\ G = g.fil
  OBVIOUS
<1>2. /\ VolSound(T) /\ T.dir = S.dir /\ Grown(S.fat, T.fat)
      /\ IsFile(G) /\ G.entry = F.entry
      /\ Covers(T.fat, G.sclust, G.fsize)
      /\ \/ G.sclust = F.sclust
         \/ F.sclust = 0 /\ G.sclust \in Clusters /\ S.fat[G.sclust] = Free
  BY <1>1 DEF FileGrown
<1>3. Linked(S.fat)
  BY DEF VolSound, TablesSound
<1>4. FileOK(S, sl[s])
  BY DEF HandlesOK, HandleOK
<1>5. \A c, n : Covers(S.fat, c, n) /\ c = G.sclust => c = 0 \/ c = F.sclust
  BY <1>2, ClusterFacts DEF Covers, Root
<1>6. \A i \in DOMAIN T.dir : i # G.entry \/ g.name = Settings => G.sclust = 0 \/ T.dir[i].sclust # G.sclust
  <2>1. \A i \in DOMAIN S.dir : Covers(S.fat, S.dir[i].sclust, S.dir[i].size)
    BY DEF VolSound, TablesSound
  <2>2. \A i \in DOMAIN S.dir : i # F.entry \/ g.name = Settings => F.sclust = 0 \/ S.dir[i].sclust # F.sclust
    BY <1>1, <1>4 DEF FileOK
  <2>. QED
    BY <1>2, <1>5, <2>1, <2>2
<1>7. FileOK(T, g)
  BY <1>1, <1>2, <1>4, <1>6 DEF FileOK
<1>8. g.isDir = FALSE
  BY DEF IsHandle
<1>9. HandlesOK(T, sl, held \ {s})
  <2>1. ASSUME NEW t \in held \ {s}
        PROVE  HandleOK(T, sl[t])
    <3>1. PICK h : h = sl[t]
      OBVIOUS
    <3>2. CASE h.isDir
      <4>1. ListingOK(S, h)
        BY <3>1, <3>2 DEF HandlesOK, HandleOK
      <4>. QED
        BY <1>2, <3>1, <3>2, <4>1 DEF HandleOK, ListingOK
    <3>3. CASE ~h.isDir
      <4>1. FileOK(S, h)
        BY <3>1, <3>3 DEF HandlesOK, HandleOK
      <4>2. Covers(T.fat, h.fil.sclust, h.fil.fsize)
        BY <1>2, <1>3, <4>1, CoversGrown DEF FileOK, IsFile
      <4>3. FileOK(T, h)
        BY <1>2, <4>1, <4>2 DEF FileOK
      <4>. QED
        BY <3>1, <3>3, <4>3 DEF HandleOK
    <3>. QED
      BY <3>2, <3>3
  <2>. QED
    BY <2>1 DEF HandlesOK
<1>10. ASSUME NEW t \in held \ {s}, ~sl[t].isDir
       PROVE  Apart(sl[t], g)
  <2>1. PICK h : h = sl[t]
    OBVIOUS
  <2>2. FileOK(S, h) /\ Apart(h, sl[s])
    BY <1>10, <2>1 DEF HandlesOK, HandleOK
  <2>3. h.fil.sclust = G.sclust => h.fil.sclust = 0 \/ h.fil.sclust = F.sclust
    BY <1>5, <2>2 DEF FileOK
  <2>4. Writable(g) <=> Writable(sl[s])
    BY DEF Writable
  <2>. QED
    BY <1>1, <2>1, <2>2, <2>3, <2>4 DEF Apart
<1>11. HandleOK(T, sl2[s])
  BY <1>7, <1>8 DEF HandleOK
<1>12. HandlesOK(T, sl2, held \cup {s})
  BY <1>9, <1>10, <1>11, HandlesWith
<1>13. held \cup {s} = held
  OBVIOUS
<1>. QED
  BY <1>12, <1>13

\* A close of the handle of slot s.
LEMMA HandlesClosed ==
    ASSUME NEW S, VolSound(S), NEW sl, NEW held, HandlesOK(S, sl, held),
           NEW s \in held, ~sl[s].isDir, NEW T, T = f_close(S, sl[s].fil)
    PROVE  VolSound(T) /\ HandlesOK(T, sl, held \ {s})
<1>1. PICK g, F : g = sl[s] /\ F = g.fil
  OBVIOUS
<1>2. FileOK(S, g)
  BY <1>1 DEF HandlesOK, HandleOK
<1>3. /\ IsFile(F) /\ F.entry \in DOMAIN S.dir /\ S.dir[F.entry].name = g.name
      /\ Covers(S.fat, F.sclust, F.fsize)
      /\ \A j \in DOMAIN S.dir : j # F.entry => F.sclust = 0 \/ S.dir[j].sclust # F.sclust
  BY <1>1, <1>2 DEF FileOK
<1>4. T = f_close(S, F)
  BY <1>1
<1>5. /\ VolSound(T) /\ T.fat = S.fat
      /\ DOMAIN T.dir = DOMAIN S.dir /\ Len(T.dir) = Len(S.dir)
      /\ \A j \in DOMAIN S.dir : j # F.entry => T.dir[j] = S.dir[j]
      /\ T.dir[F.entry].name = S.dir[F.entry].name
      /\ T.dir[F.entry].sclust \in {S.dir[F.entry].sclust, F.sclust}
  BY <1>3, <1>4, CloseFacts
<1>6. TablesSound(S.fat, S.dir) /\ Len(S.dir) \in Nat /\ DOMAIN S.dir = 1 .. Len(S.dir)
  BY EntryFacts DEF VolSound
<1>7. \A j \in DOMAIN S.dir : T.dir[j].name = S.dir[j].name
  BY <1>5
<1>8. ASSUME NEW t \in held \ {s}
      PROVE  HandleOK(T, sl[t])
  <2>1. PICK h : h = sl[t]
    OBVIOUS
  <2>2. CASE h.isDir
    <3>1. ListingOK(S, h)
      BY <2>1, <2>2 DEF HandlesOK, HandleOK
    <3>2. ListingOK(T, h)
      <4>1. Len(S.dir) <= Len(T.dir) /\ Len(T.dir) \in Nat
        BY <1>5, <1>6
      <4>. QED
        BY <1>6, <1>7, <3>1, <4>1, ListingKept
    <3>. QED
      BY <2>1, <2>2, <3>2 DEF HandleOK
  <2>3. CASE ~h.isDir
    <3>1. FileOK(S, h) /\ Apart(h, g)
      BY <1>1, <2>1, <2>3 DEF HandlesOK, HandleOK
    <3>2. ASSUME NEW i \in DOMAIN T.dir, i # h.fil.entry \/ h.name = Settings, h.fil.sclust # 0
          PROVE  T.dir[i].sclust # h.fil.sclust
      <4>1. S.dir[i].sclust # h.fil.sclust
        BY <1>5, <3>1, <3>2 DEF FileOK
      <4>2. CASE i # F.entry
        BY <1>5, <3>2, <4>1, <4>2
      <4>3. CASE i = F.entry
        <5>1. h.name # g.name \/ h.name = Settings
          <6>1. CASE i # h.fil.entry
            <7>1. S.dir[i].name # S.dir[h.fil.entry].name
              BY <1>5, <1>6, <3>1, <6>1 DEF FileOK, TablesSound
            <7>. QED
              BY <1>3, <3>1, <4>3, <7>1 DEF FileOK
          <6>2. CASE i = h.fil.entry
            BY <3>2, <6>2
          <6>. QED
            BY <6>1, <6>2
        <5>2. h.fil.sclust # F.sclust
          BY <1>1, <3>1, <3>2, <5>1 DEF Apart
        <5>. QED
          BY <1>5, <4>1, <4>3, <5>2
      <4>. QED
        BY <4>2, <4>3
    <3>3. FileOK(T, h)
      BY <1>5, <1>7, <3>1, <3>2 DEF FileOK
    <3>. QED
      BY <2>1, <2>3, <3>3 DEF HandleOK
  <2>. QED
    BY <2>2, <2>3
<1>. QED
  BY <1>5, <1>8 DEF HandlesOK
-------------------------------------------------------------------------------
(* Directory listings. *)

\* f sums up the lengths of the records of names.
IsSum(f, names) == IsLoop(f, "sum", <<KernelLen, names>>, 0, Len(names))

LEMMA SumStep ==
    ASSUME NEW names \in Seq(Names), NEW f, IsSum(f, names), NEW n \in 1 .. Len(names)
    PROVE  f[n] = f[n-1] + KernelLen[names[n]] /\ KernelLen[names[n]] \in Nat \ {0}
<1>1. f[n] = LoopStep("sum", <<KernelLen, names>>, f[n-1], n)
  BY DEF IsSum, IsLoop
<1>2. names[n] \in Names
  BY ElementOfSeq
<1>. QED
  BY <1>1, <1>2, StorageAssumption DEF LoopStep

LEMMA SumFacts ==
    ASSUME NEW names \in Seq(Names), NEW f, IsSum(f, names)
    PROVE  \A n \in 0 .. Len(names) : f[n] \in Nat /\ f[n] >= n
<1>. DEFINE B == {n \in Nat : n <= Len(names) /\ ~(f[n] \in Nat /\ f[n] >= n)}
<1>1. Len(names) \in Nat
  OBVIOUS
<1>2. B = {}
  <2>. SUFFICES ASSUME B # {} PROVE FALSE
    OBVIOUS
  <2>1. PICK n \in B : \A l \in B : n <= l
    <3>1. B \subseteq Nat
      OBVIOUS
    <3>. HIDE DEF B
    <3>. QED
      BY <3>1, LeastNat
  <2>2. n \in Nat /\ n <= Len(names) /\ ~(f[n] \in Nat /\ f[n] >= n)
    OBVIOUS
  <2>3. CASE n = 0
    BY <2>2, <2>3 DEF IsSum, IsLoop
  <2>4. CASE n # 0
    <3>1. n - 1 \in Nat /\ n - 1 <= Len(names) /\ n \in 1 .. Len(names) /\ n - 1 \notin B
      BY <1>1, <2>1, <2>2, <2>4
    <3>2. f[n-1] \in Nat /\ f[n-1] >= n - 1
      BY <3>1
    <3>3. f[n] = f[n-1] + KernelLen[names[n]] /\ KernelLen[names[n]] \in Nat \ {0}
      BY <3>1, SumStep
    <3>. QED
      BY <2>2, <3>2, <3>3
  <2>. QED
    BY <2>3, <2>4
<1>. QED
  BY <1>1, <1>2

LEMMA TotalFacts ==
    ASSUME NEW names \in Seq(Names)
    PROVE  /\ \E f : IsSum(f, names) /\ Total(KernelLen, names) = f[Len(names)]
           /\ Total(KernelLen, names) \in Nat /\ Total(KernelLen, names) >= Len(names)
<1>1. Len(names) \in Nat
  OBVIOUS
<1>2. PICK f : IsSum(f, names) /\ Total(KernelLen, names) = f[Len(names)]
  BY <1>1, TotalIsLoop DEF IsSum
<1>3. Len(names) \in 0 .. Len(names)
  BY <1>1
<1>. QED
  BY <1>2, <1>3, SumFacts

LEMMA TotalEmpty == Total(KernelLen, << >>) = 0
<1>1. << >> \in Seq(Names) /\ Len(<< >>) = 0
  OBVIOUS
<1>2. PICK f : IsSum(f, << >>) /\ Total(KernelLen, << >>) = f[Len(<< >>)]
  BY <1>1, TotalFacts
<1>. QED
  BY <1>1, <1>2 DEF IsSum, IsLoop

LEMMA TotalConcat ==
    ASSUME NEW a \in Seq(Names), NEW b \in Seq(Names)
    PROVE  Total(KernelLen, a \o b) = Total(KernelLen, a) + Total(KernelLen, b)
<1>. DEFINE m == Len(a)
<1>0. m \in Nat /\ Len(b) \in Nat
  OBVIOUS
<1>1. PICK c : c = a \o b
  OBVIOUS
<1>2. /\ c \in Seq(Names) /\ Len(c) = m + Len(b)
      /\ \A i \in 1 .. m : c[i] = a[i]
      /\ \A i \in 1 .. Len(b) : c[m + i] = b[i]
  <2>1. /\ c \in Seq(Names) /\ Len(c) = m + Len(b)
        /\ \A i \in 1 .. m + Len(b) : c[i] = IF i <= m THEN a[i] ELSE b[i - m]
    BY <1>1, ConcatProperties
  <2>2. \A i \in 1 .. m : c[i] = a[i]
    BY <1>0, <2>1
  <2>3. ASSUME NEW i \in 1 .. Len(b)
        PROVE  c[m + i] = b[i]
    <3>1. m + i \in 1 .. m + Len(b) /\ ~(m + i <= m) /\ (m + i) - m = i
      BY <1>0
    <3>. QED
      BY <2>1, <3>1
  <2>. QED
    BY <2>1, <2>2, <2>3
<1>3. PICK f : IsSum(f, c) /\ Total(KernelLen, c) = f[Len(c)]
  BY <1>2, TotalFacts
<1>4. PICK g : IsSum(g, a) /\ Total(KernelLen, a) = g[m]
  BY TotalFacts
<1>5. PICK h : IsSum(h, b) /\ Total(KernelLen, b) = h[Len(b)]
  BY TotalFacts
<1>. HIDE DEF m
<1>6. \A n \in 0 .. m : f[n] = g[n]
  <2>. DEFINE B == {n \in Nat : n <= m /\ f[n] # g[n]}
  <2>. SUFFICES ASSUME B # {} PROVE FALSE
    BY <1>0
  <2>1. PICK n \in B : \A l \in B : n <= l
    <3>1. B \subseteq Nat
      OBVIOUS
    <3>. HIDE DEF B
    <3>. QED
      BY <3>1, LeastNat
  <2>2. n \in Nat /\ n <= m /\ f[n] # g[n]
    OBVIOUS
  <2>3. CASE n = 0
    BY <1>3, <1>4, <2>2, <2>3 DEF IsSum, IsLoop
  <2>4. CASE n # 0
    <3>1. n - 1 \in Nat /\ n \in 1 .. m /\ n \in 1 .. Len(c) /\ n - 1 \notin B /\ n - 1 <= m
      BY <1>0, <1>2, <2>1, <2>2, <2>4
    <3>2. f[n-1] = g[n-1] /\ c[n] = a[n]
      BY <1>2, <3>1
    <3>3. f[n] = f[n-1] + KernelLen[c[n]]
      BY <1>2, <1>3, <3>1, SumStep
    <3>4. g[n] = g[n-1] + KernelLen[a[n]]
      BY <1>4, <3>1, SumStep DEF m
    <3>. QED
      BY <2>2, <3>2, <3>3, <3>4
  <2>. QED
    BY <2>3, <2>4
<1>7. g[m] \in Nat
  BY <1>0, <1>4, SumFacts DEF m
<1>8. \A n \in 0 .. Len(b) : f[m + n] = g[m] + h[n]
  <2>. DEFINE B == {n \in Nat : n <= Len(b) /\ f[m + n] # g[m] + h[n]}
  <2>. SUFFICES ASSUME B # {} PROVE FALSE
    BY <1>0
  <2>1. PICK n \in B : \A l \in B : n <= l
    <3>1. B \subseteq Nat
      OBVIOUS
    <3>. HIDE DEF B
    <3>. QED
      BY <3>1, LeastNat
  <2>2. n \in Nat /\ n <= Len(b) /\ f[m + n] # g[m] + h[n]
    OBVIOUS
  <2>3. CASE n = 0
    <3>1. h[0] = 0
      BY <1>5 DEF IsSum, IsLoop
    <3>2. m + 0 = m /\ m \in 0 .. m
      BY <1>0
    <3>. QED
      BY <1>6, <1>7, <2>2, <2>3, <3>1, <3>2
  <2>4. CASE n # 0
    <3>1. n - 1 \in Nat /\ n \in 1 .. Len(b) /\ n - 1 \notin B /\ n - 1 <= Len(b)
      BY <1>0, <2>1, <2>2, <2>4
    <3>2. m + n \in 1 .. Len(c) /\ (m + n) - 1 = m + (n - 1)
      BY <1>0, <1>2, <3>1
    <3>3. f[m + (n - 1)] = g[m] + h[n-1] /\ c[m + n] = b[n]
      BY <1>2, <3>1
    <3>4. f[m + n] = f[m + (n - 1)] + KernelLen[c[m + n]]
      BY <1>2, <1>3, <3>2, SumStep
    <3>5. h[n] = h[n-1] + KernelLen[b[n]] /\ KernelLen[b[n]] \in Nat
      BY <1>5, <3>1, SumStep
    <3>6. h[n-1] \in Nat
      <4>1. n - 1 \in 0 .. Len(b)
        BY <1>0, <3>1
      <4>. QED
        BY <1>5, <4>1, SumFacts
    <3>. QED
      BY <1>7, <2>2, <3>3, <3>4, <3>5, <3>6
  <2>. QED
    BY <2>3, <2>4
<1>9. Len(b) \in 0 .. Len(b)
  BY <1>0
<1>. QED
  BY <1>1, <1>2, <1>3, <1>4, <1>5, <1>8, <1>9 DEF m

\* A sequence of names in two parts.
LEMMA TwoParts ==
    ASSUME NEW q \in Seq(Names), NEW k \in 0 .. Len(q)
    PROVE  /\ SubSeq(q, 1, k) \in Seq(Names) /\ Len(SubSeq(q, 1, k)) = k
           /\ \A i \in 1 .. k : SubSeq(q, 1, k)[i] = q[i]
           /\ SubSeq(q, k + 1, Len(q)) \in Seq(Names)
           /\ Len(SubSeq(q, k + 1, Len(q))) = Len(q) - k
           /\ \A i \in 1 .. Len(q) - k : SubSeq(q, k + 1, Len(q))[i] = q[k + i]
           /\ Total(KernelLen, q) =
                Total(KernelLen, SubSeq(q, 1, k)) + Total(KernelLen, SubSeq(q, k + 1, Len(q)))
<1>0. Len(q) \in Nat /\ k \in Nat
  OBVIOUS
<1>1. /\ SubSeq(q, 1, k) \in Seq(Names) /\ Len(SubSeq(q, 1, k)) = k
      /\ \A i \in 1 .. k : SubSeq(q, 1, k)[i] = q[i]
  <2>1. \A i \in 1 .. k : q[i] \in Names
    BY <1>0, ElementOfSeq
  <2>2. /\ SubSeq(q, 1, k) \in Seq(Names)
        /\ Len(SubSeq(q, 1, k)) = IF 1 <= k THEN k - 1 + 1 ELSE 0
        /\ \A i \in 1 .. k - 1 + 1 : SubSeq(q, 1, k)[i] = q[1 + i - 1]
    BY <1>0, <2>1, SubSeqProperties
  <2>3. k - 1 + 1 = k /\ \A i \in 1 .. k : 1 + i - 1 = i
    BY <1>0
  <2>. QED
    BY <1>0, <2>2, <2>3
<1>2. /\ SubSeq(q, k + 1, Len(q)) \in Seq(Names)
      /\ Len(SubSeq(q, k + 1, Len(q))) = Len(q) - k
      /\ \A i \in 1 .. Len(q) - k : SubSeq(q, k + 1, Len(q))[i] = q[k + i]
  <2>1. \A i \in k + 1 .. Len(q) : q[i] \in Names
    BY <1>0, ElementOfSeq
  <2>2. k + 1 \in Int /\ Len(q) \in Int
    BY <1>0
  <2>3. /\ SubSeq(q, k + 1, Len(q)) \in Seq(Names)
        /\ Len(SubSeq(q, k + 1, Len(q))) = IF k + 1 <= Len(q) THEN Len(q) - (k + 1) + 1 ELSE 0
        /\ \A i \in 1 .. Len(q) - (k + 1) + 1 :
              SubSeq(q, k + 1, Len(q))[i] = q[(k + 1) + i - 1]
    BY <2>1, <2>2, SubSeqProperties
  <2>. DEFINE p == SubSeq(q, k + 1, Len(q))
  <2>4. PICK l \in Nat : l = Len(q)
    BY <1>0
  <2>5. /\ p \in Seq(Names) /\ Len(p) = IF k + 1 <= l THEN l - (k + 1) + 1 ELSE 0
        /\ \A i \in 1 .. l - (k + 1) + 1 : p[i] = q[(k + 1) + i - 1]
    BY <2>3, <2>4
  <2>. HIDE DEF p
  <2>6. Len(p) = l - k
    BY <1>0, <2>4, <2>5
  <2>7. ASSUME NEW i \in 1 .. l - k
        PROVE  p[i] = q[k + i]
    <3>1. i \in 1 .. l - (k + 1) + 1 /\ (k + 1) + i - 1 = k + i
      BY <1>0, <2>4
    <3>. QED
      BY <2>5, <3>1
  <2>. QED
    BY <2>4, <2>5, <2>6, <2>7 DEF p
<1>3. q = SubSeq(q, 1, k) \o SubSeq(q, k + 1, Len(q))
  <2>1. 1 \in 1 .. Len(q) + 1 /\ k \in 1 - 1 .. Len(q) /\ Len(q) \in k .. Len(q)
    BY <1>0
  <2>2. SubSeq(q, 1, k) \o SubSeq(q, k + 1, Len(q)) = SubSeq(q, 1, Len(q))
    BY <2>1, ConcatAdjacentSubSeq
  <2>. QED
    BY <2>2, SubSeqFull
<1>. QED
  BY <1>1, <1>2, <1>3, TotalConcat

\* The longest prefix is a prefix.
LEMMA FittingFacts ==
    ASSUME NEW len, NEW names \in Seq(Names), NEW room \in Nat
    PROVE  \E c \in 0 .. Len(names) : Fitting(len, names, room) = SubSeq(names, 1, c)
<1>. DEFINE fits == {k \in 0 .. Len(names) : Total(len, SubSeq(names, 1, k)) <= room}
<1>0. Len(names) \in Nat
  OBVIOUS
<1>1. 0 \in fits
  <2>1. SubSeq(names, 1, 0) = << >>
    BY SubSeqEmpty
  <2>2. PICK f : IsLoop(f, "sum", <<len, << >> >>, 0, Len(<< >>)) /\ Total(len, << >>) = f[Len(<< >>)]
    <3>1. Len(<< >>) \in Nat
      OBVIOUS
    <3>. QED
      BY <3>1, TotalIsLoop
  <2>3. Total(len, << >>) = 0
    BY <2>2 DEF IsLoop
  <2>4. Total(len, SubSeq(names, 1, 0)) = 0
    BY <2>1, <2>3, Zenon
  <2>5. PICK t : t = Total(len, SubSeq(names, 1, 0))
    OBVIOUS
  <2>6. t <= room
    BY <2>4, <2>5
  <2>7. 0 \in 0 .. Len(names)
    BY <1>0
  <2>. QED
    BY <2>5, <2>6, <2>7, Zenon
<1>2. fits \subseteq 0 .. Len(names)
  OBVIOUS
<1>3. \E k \in fits : \A j \in fits : j <= k
  <2>. HIDE DEF fits
  <2>. DEFINE far == {Len(names) - k : k \in fits}
  <2>1. far \subseteq Nat /\ far # {}
    BY <1>0, <1>1, <1>2
  <2>2. PICK x \in far : \A y \in far : x <= y
    <3>. HIDE DEF far
    <3>. QED
      BY <2>1, LeastNat
  <2>3. PICK k \in fits : x = Len(names) - k
    OBVIOUS
  <2>4. ASSUME NEW j \in fits
        PROVE  j <= k
    <3>1. Len(names) - j \in far
      OBVIOUS
    <3>2. Len(names) - k <= Len(names) - j
      BY <2>2, <2>3, <3>1
    <3>. QED
      BY <1>0, <1>2, <3>2
  <2>. QED
    BY <2>4
<1>4. PICK c : c = CHOOSE k \in fits : \A j \in fits : j <= k
  OBVIOUS
<1>5. Fitting(len, names, room) = SubSeq(names, 1, c)
  BY <1>4 DEF Fitting
<1>. HIDE DEF fits
<1>6. c \in fits
  BY <1>3, <1>4
<1>. QED
  BY <1>2, <1>5, <1>6

\* What sys_getdents() reads follows what was listed.
LEMMA StreamFacts ==
    ASSUME VolSound(vol), NEW h, ListingOK(vol, h), NEW room \in Nat,
           NEW p, p = DirStream(h, room)
    PROVE  /\ p \in Seq(Names) /\ Len(h.listed) + Len(p) <= Len(vol.dir)
           /\ \A i \in 1 .. Len(p) : p[i] = vol.dir[Len(h.listed) + i].name
<1>1. PICK q : q = [i \in DOMAIN vol.dir |-> vol.dir[i].name]
  OBVIOUS
<1>2. PICK l \in Nat : l = Len(vol.dir) /\ DOMAIN vol.dir = 1 .. l
  BY EntryFacts DEF VolSound
<1>3. /\ q \in Seq(Names) /\ Len(q) = l
      /\ \A i \in 1 .. l : q[i] = vol.dir[i].name
  <2>1. \A i \in 1 .. l : vol.dir[i].name \in Names
    BY <1>2, EntryFacts DEF VolSound
  <2>. QED
    BY <1>1, <1>2, <2>1
<1>4. PICK m \in Nat : m = Len(h.listed) /\ m <= l
  BY <1>2 DEF ListingOK
<1>5. SubSeq(q, 1, m) = h.listed
  <2>1. m \in 0 .. Len(q)
    BY <1>3, <1>4
  <2>2. /\ SubSeq(q, 1, m) \in Seq(Names) /\ Len(SubSeq(q, 1, m)) = m
        /\ \A i \in 1 .. m : SubSeq(q, 1, m)[i] = q[i]
    BY <1>3, <2>1, TwoParts
  <2>3. h.listed \in Seq(Names) /\ \A i \in 1 .. m : h.listed[i] = vol.dir[i].name
    BY <1>4 DEF ListingOK
  <2>4. \A i \in 1 .. m : i \in 1 .. l
    BY <1>4
  <2>5. PICK a : a = SubSeq(q, 1, m)
    OBVIOUS
  <2>6. /\ a \in Seq(Names) /\ Len(a) = Len(h.listed)
        /\ \A i \in 1 .. Len(a) : a[i] = h.listed[i]
    BY <1>3, <1>4, <2>2, <2>3, <2>4, <2>5
  <2>. QED
    BY <2>3, <2>5, <2>6, SeqEqual
<1>. DEFINE skips == {k \in 0 .. l : k = l \/ Total(KernelLen, SubSeq(q, 1, k)) >= h.pos}
<1>6. h.pos = Total(KernelLen, SubSeq(q, 1, m))
  BY <1>5 DEF ListingOK
<1>7. h.pos \in Nat
  BY TotalFacts DEF ListingOK
<1>8. m \in skips
  BY <1>4, <1>6, <1>7
<1>9. \A k \in skips : m <= k
  <2>. TAKE k \in skips
  <2>. SUFFICES ASSUME k < m PROVE FALSE
    BY <1>4
  <2>1. k \in 0 .. m /\ k # l /\ k \in 0 .. Len(q) /\ m \in 0 .. Len(q)
    BY <1>3, <1>4
  <2>2. PICK a : a = SubSeq(q, 1, m)
    OBVIOUS
  <2>3. a \in Seq(Names) /\ Len(a) = m /\ \A i \in 1 .. m : a[i] = q[i]
    BY <1>3, <2>1, <2>2, TwoParts
  <2>4. /\ SubSeq(a, 1, k) \in Seq(Names) /\ Len(SubSeq(a, 1, k)) = k
        /\ \A i \in 1 .. k : SubSeq(a, 1, k)[i] = a[i]
        /\ SubSeq(a, k + 1, Len(a)) \in Seq(Names)
        /\ Len(SubSeq(a, k + 1, Len(a))) = m - k
        /\ Total(KernelLen, a) =
               Total(KernelLen, SubSeq(a, 1, k)) + Total(KernelLen, SubSeq(a, k + 1, Len(a)))
    BY <2>1, <2>3, TwoParts
  <2>5. /\ SubSeq(q, 1, k) \in Seq(Names) /\ Len(SubSeq(q, 1, k)) = k
        /\ \A i \in 1 .. k : SubSeq(q, 1, k)[i] = q[i]
    BY <1>3, <2>1, TwoParts
  <2>6. SubSeq(a, 1, k) = SubSeq(q, 1, k)
    <3>1. PICK x, y : x = SubSeq(a, 1, k) /\ y = SubSeq(q, 1, k)
      OBVIOUS
    <3>2. \A i \in 1 .. k : i \in 1 .. m
      BY <2>1, <1>4
    <3>3. /\ x \in Seq(Names) /\ y \in Seq(Names) /\ Len(x) = Len(y)
          /\ \A i \in 1 .. Len(x) : x[i] = y[i]
      BY <2>3, <2>4, <2>5, <3>1, <3>2
    <3>. QED
      BY <3>1, <3>3, SeqEqual
  <2>7. Total(KernelLen, SubSeq(a, k + 1, Len(a))) >= m - k
    BY <2>4, TotalFacts
  <2>8. PICK t, u, v : /\ t = Total(KernelLen, a)
                       /\ u = Total(KernelLen, SubSeq(a, 1, k))
                       /\ v = Total(KernelLen, SubSeq(a, k + 1, Len(a)))
    OBVIOUS
  <2>10. u \in Nat /\ v \in Nat
    BY <2>4, <2>8, TotalFacts
  <2>9. t = u + v /\ v >= m - k /\ h.pos = t /\ u >= h.pos
    BY <1>6, <2>1, <2>2, <2>4, <2>6, <2>7, <2>8
  <2>. QED
    BY <1>4, <2>1, <2>9, <2>10
<1>10. Lowest(skips) = m
  <2>1. skips \subseteq Nat
    OBVIOUS
  <2>. HIDE DEF skips
  <2>2. PICK s : s = CHOOSE k \in skips : \A j \in skips : k <= j
    OBVIOUS
  <2>3. s \in skips /\ \A j \in skips : s <= j
    BY <1>8, <1>9, <2>2
  <2>4. s <= m /\ m <= s /\ s \in Nat
    BY <1>8, <1>9, <2>1, <2>3
  <2>5. s = m
    BY <1>4, <2>4
  <2>. QED
    BY <2>2, <2>5 DEF Lowest
<1>11. p = Fitting(KernelLen, SubSeq(q, m + 1, Len(q)), room)
  <2>1. p = Fitting(KernelLen, SubSeq(q, Lowest({k \in 0 .. Len(q) :
                k = Len(q) \/ Total(KernelLen, SubSeq(q, 1, k)) >= h.pos}) + 1, Len(q)), room)
    BY <1>1, Zenon DEF DirStream
  <2>. QED
    BY <1>3, <1>10, <2>1
<1>12. PICK rest : rest = SubSeq(q, m + 1, Len(q))
  OBVIOUS
<1>13. /\ rest \in Seq(Names) /\ Len(rest) = l - m
       /\ \A i \in 1 .. l - m : rest[i] = q[m + i]
  <2>1. m \in 0 .. Len(q)
    BY <1>3, <1>4
  <2>. QED
    BY <1>3, <1>12, <2>1, TwoParts
<1>14. PICK c \in 0 .. l - m : p = SubSeq(rest, 1, c)
  <2>2. \E c \in 0 .. Len(rest) : p = SubSeq(rest, 1, c)
    <3>1. p = Fitting(KernelLen, rest, room) /\ rest \in Seq(Names)
      BY <1>11, <1>12, <1>13
    <3>2. \E c \in 0 .. Len(rest) : Fitting(KernelLen, rest, room) = SubSeq(rest, 1, c)
      BY <3>1, FittingFacts
    <3>. QED
      BY <3>1, <3>2
  <2>. QED
    BY <1>13, <2>2
<1>15. p \in Seq(Names) /\ Len(p) = c /\ \A i \in 1 .. c : p[i] = rest[i]
  BY <1>13, <1>14, TwoParts
<1>16. m + Len(p) <= l
  <2>1. c \in Nat /\ c <= l - m
    BY <1>4, <1>14
  <2>. QED
    BY <1>4, <1>15, <2>1
<1>17. ASSUME NEW i \in 1 .. Len(p)
       PROVE  p[i] = vol.dir[m + i].name
  <2>1. i \in 1 .. c /\ i \in 1 .. l - m /\ m + i \in 1 .. l
    BY <1>4, <1>14, <1>15
  <2>. QED
    BY <1>3, <1>13, <1>15, <2>1
<1>. QED
  BY <1>2, <1>4, <1>15, <1>16, <1>17

LEMMA ListingFields ==
    ASSUME NEW u, NEW d, NEW n, NEW a, NEW e, NEW z, NEW pos, NEW q, NEW g,
           g = [used |-> u, isDir |-> d, name |-> n, acc |-> a, append |-> e, pos |-> pos,
                size |-> z, listed |-> q]
    PROVE  /\ g.used = u /\ g.isDir = d /\ g.name = n /\ g.acc = a /\ g.append = e
           /\ g.pos = pos /\ g.size = z /\ g.listed = q
  OBVIOUS

LEMMA ListingMovedTo ==
    ASSUME NEW u, NEW d, NEW n, NEW a, NEW e, NEW z, NEW p, NEW l, NEW pos, NEW q, 
           NEW h, NEW g,
           h = [used |-> u, isDir |-> d, name |-> n, acc |-> a, append |-> e, pos |-> p,
                size |-> z, listed |-> l],
           g = [h EXCEPT !.pos = pos, !.listed = q]
    PROVE  g = [used |-> u, isDir |-> d, name |-> n, acc |-> a, append |-> e, pos |-> pos,
                size |-> z, listed |-> q]
  OBVIOUS

\* A handle at another position, with more or less of the directory listed.
Moved(h, pos, q) == [h EXCEPT !.pos = pos, !.listed = q]

LEMMA ListingMoved ==
    ASSUME NEW h, ListingShape(h), NEW pos, NEW q, NEW g, g = Moved(h, pos, q)
    PROVE  ListingShape(g) /\ g.pos = pos /\ g.listed = q
<1>1. PICK u, d, n, a, e, z, p, l :
          h = [used |-> u, isDir |-> d, name |-> n, acc |-> a, append |-> e, pos |-> p,
               size |-> z, listed |-> l]
  BY DEF ListingShape
<1>2. h.used = u /\ h.isDir = d
  BY <1>1, ListingFields
<1>3. g = [used |-> u, isDir |-> d, name |-> n, acc |-> a, append |-> e, pos |-> pos,
           size |-> z, listed |-> q]
  BY <1>1, ListingMovedTo DEF Moved
<1>5. /\ g.used = u /\ g.isDir = d /\ g.name = n /\ g.acc = a /\ g.append = e
      /\ g.pos = pos /\ g.size = z /\ g.listed = q
  BY <1>3
<1>. QED
  BY <1>2, <1>3, <1>5 DEF ListingShape

LEMMA Joined ==
    ASSUME NEW s \in Seq(Names), NEW t \in Seq(Names), NEW q, q = s \o t
    PROVE  /\ q \in Seq(Names) /\ Len(q) = Len(s) + Len(t)
           /\ \A i \in 1 .. Len(s) + Len(t) :
                 q[i] = IF i <= Len(s) THEN s[i] ELSE t[i - Len(s)]
  BY ConcatProperties

\* A handle of a directory after k records of a batch were given.
Given(h, batch, k) ==
    [h EXCEPT !.pos = RolledBack(@, batch, k), !.listed = @ \o SubSeq(batch, 1, k)]

\* sys_getdents() and sys_read() of a directory: what the user does not get is read again.
LEMMA ListingStep ==
    ASSUME VolSound(vol), NEW h, ListingOK(vol, h), NEW room \in Nat,
           NEW batch, batch = DirStream(h, room), NEW k \in 0 .. Len(batch),
           NEW g, g = Given(h, batch, k)
    PROVE  ListingOK(vol, g)
<1>1. PICK m : m = Len(h.listed)
  OBVIOUS
<1>2. /\ batch \in Seq(Names) /\ m + Len(batch) <= Len(vol.dir)
      /\ \A i \in 1 .. Len(batch) : batch[i] = vol.dir[m + i].name
  BY <1>1, StreamFacts
<1>3. PICK n \in Nat, l \in Nat : n = Len(batch) /\ l = Len(vol.dir)
  <2>1. Len(batch) \in Nat /\ Len(vol.dir) \in Nat
    BY <1>2, EntryFacts DEF VolSound
  <2>. QED
    BY <2>1
<1>4. k \in 0 .. n
  BY <1>3
<1>5. PICK a, b : a = SubSeq(batch, 1, k) /\ b = SubSeq(batch, k + 1, Len(batch))
  OBVIOUS
<1>6. /\ a \in Seq(Names) /\ Len(a) = k /\ \A i \in 1 .. k : a[i] = batch[i]
      /\ b \in Seq(Names)
      /\ Total(KernelLen, batch) = Total(KernelLen, a) + Total(KernelLen, b)
  BY <1>2, <1>3, <1>4, <1>5, TwoParts
<1>7. h.listed \in Seq(Names) /\ m \in Nat /\ \A i \in 1 .. m : h.listed[i] = vol.dir[i].name
  BY <1>1 DEF ListingOK
<1>8. PICK given, q : given = h.listed /\ q = given \o a
  OBVIOUS
<1>9. /\ q \in Seq(Names) /\ Len(q) = m + k
      /\ \A i \in 1 .. m + k : q[i] = IF i <= m THEN h.listed[i] ELSE a[i - m]
  <2>1. /\ q \in Seq(Names) /\ Len(q) = Len(given) + Len(a)
        /\ \A i \in 1 .. Len(given) + Len(a) :
              q[i] = IF i <= Len(given) THEN given[i] ELSE a[i - Len(given)]
    <3>1. given \in Seq(Names) /\ a \in Seq(Names) /\ q = given \o a
      BY <1>6, <1>7, <1>8
    <3>. QED
      BY <3>1, Joined
  <2>. QED
    BY <1>1, <1>6, <1>8, <2>1
<1>10. ASSUME NEW i \in 1 .. Len(q)
       PROVE  q[i] = vol.dir[i].name
  <2>1. i \in 1 .. m + k
    BY <1>9
  <2>2. CASE i <= m
    <3>1. i \in 1 .. m
      BY <1>7, <2>1, <2>2
    <3>. QED
      BY <1>7, <1>9, <2>1, <2>2, <3>1
  <2>3. CASE ~(i <= m)
    <3>1. i - m \in 1 .. k /\ m + (i - m) = i /\ i - m \in 1 .. Len(batch)
      BY <1>3, <1>4, <1>7, <2>1, <2>3
    <3>2. q[i] = a[i - m]
      BY <1>9, <2>1, <2>3
    <3>3. batch[i - m] = vol.dir[m + (i - m)].name
      BY <1>2, <3>1
    <3>. QED
      BY <1>6, <3>1, <3>2, <3>3
  <2>. QED
    BY <2>2, <2>3
<1>11. Total(KernelLen, q) = Total(KernelLen, h.listed) + Total(KernelLen, a)
  BY <1>6, <1>7, <1>8, TotalConcat
<1>12. RolledBack(h.pos, batch, k) = Total(KernelLen, q)
  <2>1. RolledBack(h.pos, batch, k) = (h.pos + Total(KernelLen, batch)) - Total(KernelLen, b)
    BY <1>5 DEF RolledBack
  <2>2. h.pos = Total(KernelLen, h.listed)
    BY DEF ListingOK
  <2>3. PICK t \in Nat, u \in Nat, v \in Nat : /\ t = Total(KernelLen, h.listed)
                                               /\ u = Total(KernelLen, a) /\ v = Total(KernelLen, b)
    BY <1>6, <1>7, TotalFacts
  <2>. QED
    BY <1>6, <1>11, <2>1, <2>2, <2>3
<1>13. PICK pos : pos = RolledBack(h.pos, batch, k)
  OBVIOUS
<1>14. g = Moved(h, pos, q)
  BY <1>5, <1>8, <1>13, Zenon DEF Given, Moved
<1>15. ListingShape(h)
  BY DEF ListingOK
<1>17. ListingShape(g) /\ g.pos = pos /\ g.listed = q
  BY <1>14, <1>15, ListingMoved
<1>18. Len(q) <= Len(vol.dir)
  BY <1>2, <1>3, <1>4, <1>7, <1>9
<1>. QED
  BY <1>9, <1>10, <1>12, <1>13, <1>17, <1>18 DEF ListingOK

-------------------------------------------------------------------------------
(* File::Write(), File::Read() and FatFsWrapper::OpenWithFlags(). *)

LEMMA WriteHandleFacts ==
    ASSUME VolSound(vol), NEW h, FileOK(vol, h), NEW units, Len(units) \in Nat \ {0},
           NEW r, r = WriteHandle(h, units)
    PROVE  /\ FileGrown(vol, h.fil, r.vol, r.handle.fil)
           /\ IsHandle(r.handle) /\ r.handle.pos \in Nat /\ r.handle.size \in Nat
           /\ r.handle.name = h.name /\ r.handle.acc = h.acc
<1>1. PICK start : start = IF h.append THEN h.size ELSE h.pos
  OBVIOUS
<1>2. PICK target : target = IF h.append THEN h.fil.fsize ELSE h.pos
  OBVIOUS
<1>3. start \in Nat /\ target \in Nat
  BY <1>1, <1>2 DEF FileOK, IsFile
<1>4. PICK s : s = f_lseek(vol, h.fil, target, TRUE)
  OBVIOUS
<1>5. PICK w : w = f_write(s.vol, s.fil, units)
  OBVIOUS
<1>6. r = Written(h, start, s, w, units)
  BY <1>1, <1>2, <1>4, <1>5, Zenon DEF WriteHandle
<1>7. IsFile(h.fil) /\ Covers(vol.fat, h.fil.sclust, h.fil.fsize)
  BY DEF FileOK
<1>8. /\ FileGrown(vol, h.fil, s.vol, s.fil) /\ s.fil.fptr \in Nat
      /\ s.fil.fptr <= SectorUnits * Len(Chain(s.vol.fat, s.fil.sclust))
  <2>1. PICK write : write = TRUE
    OBVIOUS
  <2>2. s = f_lseek(vol, h.fil, target, write)
    BY <1>4, <2>1
  <2>. QED
    BY <1>3, <1>7, <2>2, SeekFacts
<1>9. VolSound(s.vol) /\ IsFile(s.fil) /\ Covers(s.vol.fat, s.fil.sclust, s.fil.fsize)
  BY <1>8 DEF FileGrown
<1>10. FileGrown(s.vol, s.fil, w.vol, w.fil) /\ w.done \in Nat
  BY <1>5, <1>8, <1>9, WriteFacts
<1>11. FileGrown(vol, h.fil, w.vol, w.fil)
  BY <1>8, <1>10, FileGrownTrans
<1>12. PICK want, gap : /\ gap = Overwrite(h.want, s.fil.fptr, << >>)
                        /\ want = IF w.done = 0 THEN gap
                                  ELSE Overwrite(gap, start, SubSeq(units, 1, w.done))
  OBVIOUS
<1>13. PICK F : F = w.fil
  OBVIOUS
<1>14. PICK g : g = [h EXCEPT !.fil = F, !.want = want, !.touched = TRUE]
  OBVIOUS
<1>15. IsHandle(h)
  BY DEF FileOK
<1>16. /\ IsHandle(g) /\ g.fil = F /\ g.name = h.name /\ g.acc = h.acc
       /\ g.pos = h.pos /\ g.size = h.size
  BY <1>14, <1>15 DEF IsHandle
<1>17. r.vol = w.vol /\ r.handle = IF w.done = 0 THEN [g EXCEPT !.short = TRUE]
                                   ELSE [g EXCEPT !.pos = start + w.done,
                                                  !.size = Larger(@, start + w.done)]
  <2>1. r = [vol |-> w.vol, done |-> w.done,
             handle |-> IF w.done = 0 THEN [g EXCEPT !.short = TRUE]
                        ELSE [g EXCEPT !.pos = start + w.done,
                                       !.size = Larger(@, start + w.done)]]
    BY <1>6, <1>12, <1>13, <1>14, Zenon DEF Written
  <2>. QED
    BY <2>1
<1>18. h.pos \in Nat /\ h.size \in Nat
  BY DEF FileOK
<1>19. CASE w.done = 0
  <2>1. PICK x : x = r.handle
    OBVIOUS
  <2>2. x = [g EXCEPT !.short = TRUE]
    BY <1>17, <1>19, <2>1
  <2>3. /\ IsHandle(x) /\ x.fil = F /\ x.name = g.name /\ x.acc = g.acc
        /\ x.pos = g.pos /\ x.size = g.size
    BY <1>16, <2>2 DEF IsHandle
  <2>. QED
    BY <1>11, <1>13, <1>16, <1>17, <1>18, <2>1, <2>3
<1>20. CASE w.done # 0
  <2>1. PICK x : x = r.handle
    OBVIOUS
  <2>2. PICK pos, size : pos = start + w.done /\ size = Larger(g.size, pos)
    OBVIOUS
  <2>3. pos \in Nat /\ size \in Nat
    BY <1>3, <1>10, <1>16, <1>18, <2>2 DEF Larger
  <2>4. x = [g EXCEPT !.pos = pos, !.size = size]
    BY <1>17, <1>20, <2>1, <2>2
  <2>5. /\ IsHandle(x) /\ x.fil = F /\ x.name = g.name /\ x.acc = g.acc
        /\ x.pos = pos /\ x.size = size
    BY <1>16, <2>4 DEF IsHandle
  <2>. QED
    BY <1>11, <1>13, <1>16, <1>17, <2>1, <2>3, <2>5
<1>. QED
  BY <1>19, <1>20

LEMMA ReadHandleFacts ==
    ASSUME VolSound(vol), NEW h, FileOK(vol, h), NEW n \in Nat, NEW r, r = ReadHandle(h, n)
    PROVE  /\ FileGrown(vol, h.fil, r.vol, r.handle.fil)
           /\ IsHandle(r.handle) /\ r.handle.pos \in Nat /\ r.handle.size \in Nat
           /\ r.handle.name = h.name /\ r.handle.acc = h.acc
<1>1. PICK len : len = IF h.pos >= h.size THEN 0 ELSE Smaller(n, h.size - h.pos)
  OBVIOUS
<1>2. h.pos \in Nat /\ h.size \in Nat /\ IsHandle(h)
  BY DEF FileOK
<1>3. len \in Nat
  BY <1>1, <1>2 DEF Smaller
<1>4. IsFile(h.fil) /\ Covers(vol.fat, h.fil.sclust, h.fil.fsize)
  BY DEF FileOK
<1>5. CASE len = 0
  <2>1. r = [vol |-> vol, handle |-> h]
    BY <1>1, <1>5, Zenon DEF ReadHandle
  <2>2. r.vol = vol /\ r.handle = h
    BY <2>1
  <2>3. FileGrown(vol, h.fil, vol, h.fil)
    <3>1. SameTables(vol, vol) /\ SameFile(h.fil, h.fil)
      BY <1>4 DEF SameTables, SameFile
    <3>. QED
      BY <1>4, <3>1, FileGrownRefl
  <2>. QED
    BY <1>2, <2>2, <2>3
<1>6. CASE len # 0
  <2>1. PICK s : s = f_lseek(vol, h.fil, h.pos, Writable(h))
    OBVIOUS
  <2>2. PICK u : u = f_read(s.vol, s.fil, len)
    OBVIOUS
  <2>3. PICK wrong : wrong = (h.wrong \/ \E j \in 1 .. len : h.want[h.pos + j] \notin {Hole, u.units[j]})
    OBVIOUS
  <2>4. r = [vol |-> u.vol, handle |-> [h EXCEPT !.fil = u.fil, !.pos = @ + len, !.wrong = wrong]]
    BY <1>1, <1>6, <2>1, <2>2, <2>3, Zenon DEF ReadHandle
  <2>5. FileGrown(vol, h.fil, s.vol, s.fil) /\ s.fil.fptr \in Nat
    <3>1. PICK write : write = Writable(h)
      OBVIOUS
    <3>2. s = f_lseek(vol, h.fil, h.pos, write)
      BY <2>1, <3>1
    <3>. QED
      BY <1>2, <1>4, <3>2, SeekFacts
  <2>6. VolSound(s.vol) /\ IsFile(s.fil) /\ Covers(s.vol.fat, s.fil.sclust, s.fil.fsize)
    BY <2>5 DEF FileGrown
  <2>7. VolSound(u.vol) /\ SameTables(s.vol, u.vol) /\ SameFile(s.fil, u.fil)
    BY <1>3, <1>6, <2>2, <2>5, <2>6, ReadFacts
  <2>8. FileGrown(s.vol, s.fil, u.vol, u.fil)
    BY <2>6, <2>7, FileGrownRefl
  <2>9. FileGrown(vol, h.fil, u.vol, u.fil)
    BY <2>5, <2>8, FileGrownTrans
  <2>10. PICK F, pos : F = u.fil /\ pos = h.pos + len
    OBVIOUS
  <2>11. PICK g : g = [h EXCEPT !.fil = F, !.pos = pos, !.wrong = wrong]
    OBVIOUS
  <2>12. /\ IsHandle(g) /\ g.fil = F /\ g.pos = pos /\ g.size = h.size
         /\ g.name = h.name /\ g.acc = h.acc
    BY <1>2, <2>11 DEF IsHandle
  <2>13. r = [vol |-> u.vol, handle |-> g]
    BY <2>4, <2>10, <2>11, Zenon
  <2>14. r.vol = u.vol /\ r.handle = g
    BY <2>13
  <2>15. pos \in Nat
    BY <1>2, <1>3, <2>10
  <2>. QED
    BY <1>2, <2>9, <2>10, <2>12, <2>14, <2>15
<1>. QED
  BY <1>5, <1>6

LEMMA LowestFacts ==
    ASSUME NEW T, T \subseteq Nat, T # {}
    PROVE  Lowest(T) \in T
<1>1. PICK x : x = CHOOSE s \in T : \A t \in T : s <= t
  OBVIOUS
<1>2. x \in T
  BY <1>1, LeastNat
<1>. QED
  BY <1>1, <1>2 DEF Lowest

LEMMA SlotFacts ==
    Slots \subseteq Nat /\ Fds \subseteq Nat /\ NoFile \notin Slots
  BY StorageAssumption DEF Slots, Fds, NoFile

\* What OpenWithFlags() gives: the volume, and a free slot with a handle.
LEMMA OpenWithFlagsFacts ==
    ASSUME VolSound(vol), NEW name \in Names, NEW flags, NEW r, r = OpenWithFlags(name, flags)
    PROVE  /\ Reopened(vol, r.vol, name, flags.trunc)
           /\ Refused(flags) => r.vol = vol /\ r.slot = NoFile
           /\ r.slot = NoFile \/ (r.slot \in Slots /\ ~slots[r.slot].used)
           /\ r.slot # NoFile =>
                 \E F, want, touched : /\ r.handle = FileHandle(name, flags, F, want, touched)
                                       /\ IsOpened(r.vol, F, name, flags.trunc)
<1>1. PICK create, truncate, exclusive :
          create = flags.creat /\ truncate = flags.trunc /\ exclusive = flags.excl
  OBVIOUS
<1>2. PICK L : L = Look(vol)
  OBVIOUS
<1>3. VolSound(L) /\ SameTables(vol, L)
  BY <1>2, MoveSound DEF Look
<1>4. ASSUME NEW S, r = [slot |-> NoFile, vol |-> S]
      PROVE  r.slot = NoFile /\ r.vol = S
  BY <1>4
<1>5. CASE Refused(flags)
  <2>1. r = [slot |-> NoFile, vol |-> vol]
    BY <1>5 DEF OpenWithFlags
  <2>2. r.slot = NoFile /\ r.vol = vol
    BY <1>4, <2>1
  <2>3. Reopened(vol, vol, name, flags.trunc)
    BY ReopenedSame DEF SameTables
  <2>. QED
    BY <2>2, <2>3
<1>6. CASE ~Refused(flags)
  <2>1. r = OpenStated(L, name, flags)
    BY <1>2, <1>6 DEF OpenWithFlags
  <2>2. CASE r = [slot |-> NoFile, vol |-> L]
    <3>1. r.slot = NoFile /\ r.vol = L
      BY <1>4, <2>2
    <3>2. Reopened(vol, L, name, flags.trunc)
      BY <1>3, ReopenedSame
    <3>. QED
      BY <1>6, <3>1, <3>2
  <2>3. CASE r = GiveSlot(name, flags, f_open(L, name, create, truncate, exclusive))
    <3>1. PICK o : o = f_open(L, name, create, truncate, exclusive)
      OBVIOUS
    <3>2. /\ o.ok \in BOOLEAN /\ Reopened(L, o.vol, name, truncate)
          /\ o.ok => IsOpened(o.vol, o.fil, name, truncate)
      BY <1>3, <3>1, OpenFacts
    <3>3. Reopened(vol, o.vol, name, truncate)
      BY <1>3, <3>2, ReopenedFrom
    <3>4. PICK want : want = IF o.fil.modified THEN << >> ELSE ContentOf(View(o.vol), o.fil.entry)
      OBVIOUS
    <3>5. r = IF ~o.ok THEN [slot |-> NoFile, vol |-> o.vol]
              ELSE IF FreeSlot = {} THEN [slot |-> NoFile, vol |-> f_close(o.vol, o.fil)]
              ELSE [slot |-> Lowest(FreeSlot), vol |-> o.vol,
                    handle |-> FileHandle(name, flags, o.fil, want, o.fil.modified)]
      BY <2>3, <3>1, <3>4, Zenon DEF GiveSlot
    <3>6. CASE r = [slot |-> NoFile, vol |-> o.vol]
      <4>1. r.slot = NoFile /\ r.vol = o.vol
        BY <1>4, <3>6
      <4>. QED
        BY <1>1, <1>6, <3>3, <4>1
    <3>7. CASE o.ok /\ r = [slot |-> NoFile, vol |-> f_close(o.vol, o.fil)]
      <4>1. PICK F, U : F = o.fil /\ U = f_close(o.vol, F)
        OBVIOUS
      <4>2. r.slot = NoFile /\ r.vol = U
        BY <1>4, <3>7, <4>1
      <4>3. IsOpened(o.vol, F, name, truncate)
        BY <3>2, <3>7, <4>1
      <4>4. Reopened(vol, U, name, truncate)
        BY <3>3, <4>1, <4>3, CloseOpened
      <4>. QED
        BY <1>1, <1>6, <4>2, <4>4
    <3>8. CASE /\ o.ok /\ FreeSlot # {}
               /\ r = [slot |-> Lowest(FreeSlot), vol |-> o.vol,
                       handle |-> FileHandle(name, flags, o.fil, want, o.fil.modified)]
      <4>1. PICK F, touched, g, s : /\ F = o.fil /\ touched = o.fil.modified
                                    /\ g = FileHandle(name, flags, F, want, touched)
                                    /\ s = Lowest(FreeSlot)
        OBVIOUS
      <4>2. r = [slot |-> s, vol |-> o.vol, handle |-> g]
        BY <3>8, <4>1
      <4>3. r.slot = s /\ r.vol = o.vol /\ r.handle = g
        BY <4>2
      <4>4. s \in Slots /\ ~slots[s].used
        <5>1. FreeSlot \subseteq Nat
          BY SlotFacts DEF FreeSlot
        <5>2. s \in FreeSlot
          BY <3>8, <4>1, <5>1, LowestFacts
        <5>. QED
          BY <5>2 DEF FreeSlot
      <4>5. IsOpened(o.vol, F, name, truncate)
        BY <3>2, <3>8, <4>1
      <4>6. \E G, w, c : /\ r.handle = FileHandle(name, flags, G, w, c)
                         /\ IsOpened(r.vol, G, name, flags.trunc)
        BY <1>1, <4>1, <4>3, <4>5
      <4>. QED
        BY <1>1, <1>6, <3>3, <4>3, <4>4, <4>6
    <3>. QED
      BY <3>2, <3>5, <3>6, <3>7, <3>8
  <2>. QED
    BY <1>1, <2>1, <2>2, <2>3 DEF OpenStated
<1>. QED
  BY <1>5, <1>6

-------------------------------------------------------------------------------
(* Slots and their owners. *)

HeldIn(sl, orph) == {s \in Slots : sl[s].used} \ orph

\* Every held slot is one descriptor's, or one settings program's and a file.
Owned(sl, fds, ap, orph) ==
    /\ orph \subseteq Slots /\ \A s \in orph : sl[s].used
    /\ \A f \in Fds : fds[f] = NoFile \/ fds[f] \in HeldIn(sl, orph)
    /\ \A a \in Apps : ap[a].slot = NoFile
                       \/ (ap[a].slot \in HeldIn(sl, orph) /\ ~sl[ap[a].slot].isDir)
    /\ \A f, g \in Fds : f # g /\ fds[f] # NoFile => fds[f] # fds[g]
    /\ \A a, b \in Apps : a # b /\ ap[a].slot # NoFile => ap[a].slot # ap[b].slot
    /\ \A f \in Fds, a \in Apps : fds[f] # NoFile => fds[f] # ap[a].slot
    /\ \A s \in HeldIn(sl, orph) : (\E f \in Fds : fds[f] = s) \/ (\E a \in Apps : ap[a].slot = s)

\* A settings program has a slot while it is at work.
IsApp(app) ==
    /\ app = [pc |-> app.pc, slot |-> app.slot, mode |-> app.mode, ok |-> app.ok]
    /\ \/ app.pc = "idle" /\ app.slot = NoFile
       \/ app.pc \in {"write", "close"} /\ app.slot # NoFile

Shaped(sl, fds, ap) ==
    /\ sl = [s \in Slots |-> sl[s]] /\ \A s \in Slots : sl[s].used \in BOOLEAN
    /\ fds = [f \in Fds |-> fds[f]]
    /\ ap = [a \in Apps |-> ap[a]] /\ \A a \in Apps : IsApp(ap[a])

\* f with v at s.
Put(f, s, v) == [f EXCEPT ![s] = v]

LEMMA PutAt ==
    ASSUME NEW D, NEW f, f = [x \in D |-> f[x]], NEW s \in D, NEW v,
           NEW g, g = Put(f, s, v)
    PROVE  g = [x \in D |-> g[x]] /\ g[s] = v /\ \A t \in D : t # s => g[t] = f[t]
  BY DEF Put

\* The slots, and what else is a function, with a new value in one place.
LEMMA ShapedSlot ==
    ASSUME NEW sl, NEW fds, NEW ap, Shaped(sl, fds, ap), NEW s \in Slots, NEW v,
           v.used \in BOOLEAN, NEW sl2, sl2 = Put(sl, s, v)
    PROVE  /\ Shaped(sl2, fds, ap)
           /\ sl2[s] = v /\ \A t \in Slots : t # s => sl2[t] = sl[t]
<1>1. sl = [x \in Slots |-> sl[x]]
  BY DEF Shaped
<1>2. sl2 = [x \in Slots |-> sl2[x]] /\ sl2[s] = v /\ \A t \in Slots : t # s => sl2[t] = sl[t]
  BY <1>1, PutAt
<1>3. \A t \in Slots : sl2[t].used \in BOOLEAN
  BY <1>2 DEF Shaped
<1>. QED
  BY <1>2, <1>3 DEF Shaped

LEMMA ShapedFd ==
    ASSUME NEW sl, NEW fds, NEW ap, Shaped(sl, fds, ap), NEW f \in Fds, NEW v,
           NEW fds2, fds2 = Put(fds, f, v)
    PROVE  /\ Shaped(sl, fds2, ap)
           /\ fds2[f] = v /\ \A g \in Fds : g # f => fds2[g] = fds[g]
<1>1. fds = [x \in Fds |-> fds[x]]
  BY DEF Shaped
<1>2. fds2 = [x \in Fds |-> fds2[x]] /\ fds2[f] = v /\ \A t \in Fds : t # f => fds2[t] = fds[t]
  BY <1>1, PutAt
<1>. QED
  BY <1>2 DEF Shaped

LEMMA ShapedApp ==
    ASSUME NEW sl, NEW fds, NEW ap, Shaped(sl, fds, ap), NEW a \in Apps, NEW v, IsApp(v),
           NEW ap2, ap2 = Put(ap, a, v)
    PROVE  /\ Shaped(sl, fds, ap2)
           /\ ap2[a] = v /\ \A b \in Apps : b # a => ap2[b] = ap[b]
<1>1. ap = [x \in Apps |-> ap[x]]
  BY DEF Shaped
<1>2. ap2 = [x \in Apps |-> ap2[x]] /\ ap2[a] = v /\ \A b \in Apps : b # a => ap2[b] = ap[b]
  BY <1>1, PutAt
<1>3. \A b \in Apps : IsApp(ap2[b])
  BY <1>2 DEF Shaped
<1>. QED
  BY <1>2, <1>3 DEF Shaped

\* A free slot is given to a descriptor.
LEMMA FdTakes ==
    ASSUME NEW sl, NEW fds, NEW ap, NEW orph, Owned(sl, fds, ap, orph), Shaped(sl, fds, ap),
           NEW s \in Slots, ~sl[s].used, NEW sl2, sl2[s].used,
           \A t \in Slots : t # s => sl2[t] = sl[t],
           NEW f \in Fds, fds[f] = NoFile, NEW fds2, fds2[f] = s,
           \A g \in Fds : g # f => fds2[g] = fds[g]
    PROVE  /\ Owned(sl2, fds2, ap, orph)
           /\ HeldIn(sl2, orph) = HeldIn(sl, orph) \cup {s} /\ s \notin HeldIn(sl, orph)
<1>1. s \notin orph /\ s \notin HeldIn(sl, orph) /\ s # NoFile
  BY SlotFacts DEF Owned, HeldIn
<1>2. HeldIn(sl2, orph) = HeldIn(sl, orph) \cup {s}
  BY <1>1 DEF HeldIn
<1>3. HeldIn(sl, orph) \subseteq Slots
  BY DEF HeldIn
<1>4. \A a \in Apps : ap[a].slot = NoFile
                      \/ (ap[a].slot \in HeldIn(sl2, orph) /\ ~sl2[ap[a].slot].isDir)
  BY <1>1, <1>2, <1>3 DEF Owned
<1>5. \A g \in Fds : fds2[g] = NoFile \/ fds2[g] \in HeldIn(sl2, orph)
  BY <1>2 DEF Owned
<1>6. \A g, h \in Fds : g # h /\ fds2[g] # NoFile => fds2[g] # fds2[h]
  BY <1>1 DEF Owned
<1>7. \A g \in Fds, a \in Apps : fds2[g] # NoFile => fds2[g] # ap[a].slot
  BY <1>1 DEF Owned
<1>8. \A t \in HeldIn(sl2, orph) : (\E g \in Fds : fds2[g] = t) \/ (\E a \in Apps : ap[a].slot = t)
  <2>1. ASSUME NEW t \in HeldIn(sl, orph)
        PROVE  (\E g \in Fds : fds2[g] = t) \/ (\E a \in Apps : ap[a].slot = t)
    <3>1. CASE \E a \in Apps : ap[a].slot = t
      BY <3>1
    <3>2. CASE \E g \in Fds : fds[g] = t
      <4>1. PICK g \in Fds : fds[g] = t
        BY <3>2
      <4>2. t # NoFile
        BY <1>3, <2>1, SlotFacts
      <4>. QED
        BY <4>1, <4>2
    <3>. QED
      BY <3>1, <3>2 DEF Owned
  <2>. QED
    BY <1>2, <2>1
<1>9. \A t \in orph : sl2[t].used
  BY <1>1 DEF Owned
<1>10. orph \subseteq Slots /\ \A a, b \in Apps : a # b /\ ap[a].slot # NoFile => ap[a].slot # ap[b].slot
  BY DEF Owned
<1>. QED
  BY <1>1, <1>2, <1>4, <1>5, <1>6, <1>7, <1>8, <1>9, <1>10 DEF Owned

\* A free slot is given to a settings program.
LEMMA AppTakes ==
    ASSUME NEW sl, NEW fds, NEW ap, NEW orph, Owned(sl, fds, ap, orph), Shaped(sl, fds, ap),
           NEW s \in Slots, ~sl[s].used, NEW sl2, sl2[s].used, ~sl2[s].isDir,
           \A t \in Slots : t # s => sl2[t] = sl[t],
           NEW a \in Apps, ap[a].slot = NoFile, NEW ap2, ap2[a].slot = s,
           \A b \in Apps : b # a => ap2[b] = ap[b]
    PROVE  /\ Owned(sl2, fds, ap2, orph)
           /\ HeldIn(sl2, orph) = HeldIn(sl, orph) \cup {s} /\ s \notin HeldIn(sl, orph)
<1>1. s \notin orph /\ s \notin HeldIn(sl, orph) /\ s # NoFile
  BY SlotFacts DEF Owned, HeldIn
<1>2. HeldIn(sl2, orph) = HeldIn(sl, orph) \cup {s}
  BY <1>1 DEF HeldIn
<1>3. HeldIn(sl, orph) \subseteq Slots
  BY DEF HeldIn
<1>4. \A b \in Apps : ap2[b].slot = NoFile
                      \/ (ap2[b].slot \in HeldIn(sl2, orph) /\ ~sl2[ap2[b].slot].isDir)
  <2>1. ASSUME NEW b \in Apps, b # a
        PROVE  ap2[b].slot = NoFile \/ (ap2[b].slot \in HeldIn(sl2, orph) /\ ~sl2[ap2[b].slot].isDir)
    BY <1>1, <1>2, <1>3, <2>1 DEF Owned
  <2>2. ap2[a].slot \in HeldIn(sl2, orph) /\ ~sl2[ap2[a].slot].isDir
    BY <1>2
  <2>. QED
    BY <2>1, <2>2
<1>5. \A g \in Fds : fds[g] = NoFile \/ fds[g] \in HeldIn(sl2, orph)
  BY <1>2 DEF Owned
<1>6. \A b, c \in Apps : b # c /\ ap2[b].slot # NoFile => ap2[b].slot # ap2[c].slot
  <2>1. \A b \in Apps : ap[b].slot # s
    BY <1>1 DEF Owned
  <2>. QED
    BY <2>1 DEF Owned
<1>7. \A g \in Fds, b \in Apps : fds[g] # NoFile => fds[g] # ap2[b].slot
  BY <1>1 DEF Owned
<1>8. \A t \in HeldIn(sl2, orph) : (\E g \in Fds : fds[g] = t) \/ (\E b \in Apps : ap2[b].slot = t)
  <2>1. ASSUME NEW t \in HeldIn(sl, orph)
        PROVE  (\E g \in Fds : fds[g] = t) \/ (\E b \in Apps : ap2[b].slot = t)
    <3>1. CASE \E g \in Fds : fds[g] = t
      BY <3>1
    <3>2. CASE \E b \in Apps : ap[b].slot = t
      <4>1. PICK b \in Apps : ap[b].slot = t
        BY <3>2
      <4>2. t # NoFile
        BY <1>3, <2>1, SlotFacts
      <4>. QED
        BY <4>1, <4>2
    <3>. QED
      BY <3>1, <3>2 DEF Owned
  <2>. QED
    BY <1>2, <2>1
<1>9. \A t \in orph : sl2[t].used
  BY <1>1 DEF Owned
<1>10. orph \subseteq Slots /\ \A f, g \in Fds : f # g /\ fds[f] # NoFile => fds[f] # fds[g]
  BY DEF Owned
<1>. QED
  BY <1>1, <1>2, <1>4, <1>5, <1>6, <1>7, <1>8, <1>9, <1>10 DEF Owned

\* A held slot gets another handle of the same kind.
LEMMA OwnersKeep ==
    ASSUME NEW sl, NEW fds, NEW ap, NEW orph, Owned(sl, fds, ap, orph), Shaped(sl, fds, ap),
           NEW s \in HeldIn(sl, orph), NEW sl2, sl2[s].used, sl[s].isDir \/ ~sl2[s].isDir,
           \A t \in Slots : t # s => sl2[t] = sl[t],
           NEW ap2, \A a \in Apps : ap2[a].slot = ap[a].slot
    PROVE  Owned(sl2, fds, ap2, orph) /\ HeldIn(sl2, orph) = HeldIn(sl, orph)
<1>1. s \in Slots /\ sl[s].used /\ s \notin orph
  BY DEF HeldIn
<1>2. HeldIn(sl2, orph) = HeldIn(sl, orph)
  BY <1>1 DEF HeldIn
<1>3. HeldIn(sl, orph) \subseteq Slots
  BY DEF HeldIn
<1>4. \A a \in Apps : ap2[a].slot = NoFile
                      \/ (ap2[a].slot \in HeldIn(sl2, orph) /\ ~sl2[ap2[a].slot].isDir)
  BY <1>1, <1>2, <1>3 DEF Owned
<1>5. \A t \in orph : sl2[t].used
  BY <1>1 DEF Owned
<1>. QED
  BY <1>2, <1>4, <1>5 DEF Owned

\* A descriptor gives its slot up.
LEMMA FdDrops ==
    ASSUME NEW sl, NEW fds, NEW ap, NEW orph, Owned(sl, fds, ap, orph), Shaped(sl, fds, ap),
           NEW f \in Fds, NEW s \in Slots, fds[f] = s, NEW sl2, ~sl2[s].used,
           \A t \in Slots : t # s => sl2[t] = sl[t],
           NEW fds2, fds2[f] = NoFile, \A g \in Fds : g # f => fds2[g] = fds[g]
    PROVE  Owned(sl2, fds2, ap, orph) /\ HeldIn(sl2, orph) = HeldIn(sl, orph) \ {s}
<1>1. s \in HeldIn(sl, orph) /\ s # NoFile /\ s \notin orph
  BY SlotFacts DEF Owned, HeldIn
<1>2. HeldIn(sl2, orph) = HeldIn(sl, orph) \ {s}
  BY <1>1 DEF HeldIn
<1>3. HeldIn(sl, orph) \subseteq Slots
  BY DEF HeldIn
<1>4. \A a \in Apps : ap[a].slot = NoFile
                      \/ (ap[a].slot \in HeldIn(sl2, orph) /\ ~sl2[ap[a].slot].isDir)
  BY <1>2, <1>3 DEF Owned
<1>5. \A g \in Fds : fds2[g] = NoFile \/ fds2[g] \in HeldIn(sl2, orph)
  BY <1>2 DEF Owned
<1>6. \A g, h \in Fds : g # h /\ fds2[g] # NoFile => fds2[g] # fds2[h]
  BY DEF Owned
<1>7. \A g \in Fds, a \in Apps : fds2[g] # NoFile => fds2[g] # ap[a].slot
  BY DEF Owned
<1>8. \A t \in HeldIn(sl2, orph) : (\E g \in Fds : fds2[g] = t) \/ (\E a \in Apps : ap[a].slot = t)
  BY <1>2 DEF Owned
<1>9. \A t \in orph : sl2[t].used
  BY <1>1 DEF Owned
<1>10. orph \subseteq Slots /\ \A a, b \in Apps : a # b /\ ap[a].slot # NoFile => ap[a].slot # ap[b].slot
  BY DEF Owned
<1>. QED
  BY <1>2, <1>4, <1>5, <1>6, <1>7, <1>8, <1>9, <1>10 DEF Owned

\* A settings program gives its slot up.
LEMMA AppDrops ==
    ASSUME NEW sl, NEW fds, NEW ap, NEW orph, Owned(sl, fds, ap, orph), Shaped(sl, fds, ap),
           NEW a \in Apps, NEW s \in Slots, ap[a].slot = s, NEW sl2, ~sl2[s].used,
           \A t \in Slots : t # s => sl2[t] = sl[t],
           NEW ap2, ap2[a].slot = NoFile, \A b \in Apps : b # a => ap2[b] = ap[b]
    PROVE  Owned(sl2, fds, ap2, orph) /\ HeldIn(sl2, orph) = HeldIn(sl, orph) \ {s}
<1>1. s \in HeldIn(sl, orph) /\ s # NoFile /\ s \notin orph
  BY SlotFacts DEF Owned, HeldIn
<1>2. HeldIn(sl2, orph) = HeldIn(sl, orph) \ {s}
  BY <1>1 DEF HeldIn
<1>3. HeldIn(sl, orph) \subseteq Slots
  BY DEF HeldIn
<1>4. \A b \in Apps : ap2[b].slot = NoFile
                      \/ (ap2[b].slot \in HeldIn(sl2, orph) /\ ~sl2[ap2[b].slot].isDir)
  BY <1>2, <1>3 DEF Owned
<1>5. \A g \in Fds : fds[g] = NoFile \/ fds[g] \in HeldIn(sl2, orph)
  BY <1>2 DEF Owned
<1>6. \A b, c \in Apps : b # c /\ ap2[b].slot # NoFile => ap2[b].slot # ap2[c].slot
  BY DEF Owned
<1>7. \A g \in Fds, b \in Apps : fds[g] # NoFile => fds[g] # ap2[b].slot
  BY DEF Owned
<1>8. \A t \in HeldIn(sl2, orph) : (\E g \in Fds : fds[g] = t) \/ (\E b \in Apps : ap2[b].slot = t)
  BY <1>2 DEF Owned
<1>9. \A t \in orph : sl2[t].used
  BY <1>1 DEF Owned
<1>10. orph \subseteq Slots /\ \A f, g \in Fds : f # g /\ fds[f] # NoFile => fds[f] # fds[g]
  BY DEF Owned
<1>. QED
  BY <1>2, <1>4, <1>5, <1>6, <1>7, <1>8, <1>9, <1>10 DEF Owned

\* A program ends and leaves its slots behind.
LEMMA OwnerEnds ==
    ASSUME NEW sl, NEW fds, NEW ap, NEW orph, Owned(sl, fds, ap, orph), Shaped(sl, fds, ap),
           NEW fds2, \A f \in Fds : fds2[f] = NoFile,
           NEW orph2, orph2 = orph \cup ({fds[f] : f \in Fds} \ {NoFile})
    PROVE  Owned(sl, fds2, ap, orph2) /\ HeldIn(sl, orph2) \subseteq HeldIn(sl, orph)
<1>1. HeldIn(sl, orph) \subseteq Slots /\ \A s \in HeldIn(sl, orph) : sl[s].used
  BY DEF HeldIn
<1>2. orph2 \subseteq Slots /\ \A s \in orph2 : sl[s].used
  BY <1>1 DEF Owned
<1>3. HeldIn(sl, orph2) = HeldIn(sl, orph) \ {fds[f] : f \in Fds}
  BY <1>1, SlotFacts DEF HeldIn
<1>4. \A a \in Apps : ap[a].slot = NoFile
                      \/ (ap[a].slot \in HeldIn(sl, orph2) /\ ~sl[ap[a].slot].isDir)
  BY <1>3 DEF Owned
<1>5. \A s \in HeldIn(sl, orph2) : \E a \in Apps : ap[a].slot = s
  BY <1>3 DEF Owned
<1>6. \A a, b \in Apps : a # b /\ ap[a].slot # NoFile => ap[a].slot # ap[b].slot
  BY DEF Owned
<1>7. \A f \in Fds : fds2[f] = NoFile
  OBVIOUS
<1>. QED
  BY <1>2, <1>3, <1>4, <1>5, <1>6, <1>7 DEF Owned

-------------------------------------------------------------------------------
(* The inductive invariant. *)

Sound(S, sl, fds, ap, orph) ==
    /\ VolSound(S) /\ S.log = << >>
    /\ Shaped(sl, fds, ap)
    /\ Owned(sl, fds, ap, orph)
    /\ HandlesOK(S, sl, HeldIn(sl, orph))

IInv == Sound(vol, slots, fdTable, apps, orphans)

LEMMA EmptyLog ==
    LogSound(<< >>)
<1>1. << >> \in Seq({}) /\ \A image \in {} : ImageSound(image)
  OBVIOUS
<1>2. PICK T : T = {}
  OBVIOUS
<1>3. << >> \in Seq(T) /\ \A image \in T : ImageSound(image)
  BY <1>1, <1>2
<1>. QED
  BY <1>3 DEF LogSound

\* The volume as a call leaves it, with what it wrote to the disk forgotten.
Settled(S) == [S EXCEPT !.log = << >>]

LEMMA SettledFacts ==
    ASSUME NEW S, VolSound(S), NEW T, T = Settled(S)
    PROVE  VolSound(T) /\ SameTables(S, T) /\ T.log = << >>
<1>1. S = [dir |-> S.dir, fat |-> S.fat, win |-> S.win, last |-> S.last,
           disk |-> S.disk, log |-> S.log]
  BY DEF VolSound
<1>2. PICK d, f, w, l, i : d = S.dir /\ f = S.fat /\ w = S.win /\ l = S.last /\ i = S.disk
  OBVIOUS
<1>3. T = [dir |-> d, fat |-> f, win |-> w, last |-> l, disk |-> i, log |-> << >>]
  BY <1>1, <1>2 DEF Settled
<1>4. /\ T.dir = d /\ T.fat = f /\ T.win = w /\ T.last = l /\ T.disk = i /\ T.log = << >>
  BY <1>3
<1>5. T = [dir |-> T.dir, fat |-> T.fat, win |-> T.win, last |-> T.last,
           disk |-> T.disk, log |-> T.log]
  BY <1>3, <1>4
<1>6. LogSound(T.log)
  BY <1>4, EmptyLog
<1>. QED
  BY <1>2, <1>4, <1>5, <1>6 DEF VolSound, SameTables

LEMMA MountSound ==
    ASSUME NEW image, ImageSound(image), NEW T, T = f_mount(image)
    PROVE  VolSound(T) /\ T.log = << >>
<1>1. PICK d, f : d = image.dir /\ f = image.fat
  OBVIOUS
<1>2. T = [dir |-> d, fat |-> f, win |-> "clean", last |-> 0, disk |-> image, log |-> << >>]
  BY <1>1 DEF f_mount
<1>3. /\ T.dir = d /\ T.fat = f /\ T.win = "clean" /\ T.last = 0 /\ T.disk = image /\ T.log = << >>
  BY <1>2
<1>4. T = [dir |-> T.dir, fat |-> T.fat, win |-> T.win, last |-> T.last,
           disk |-> T.disk, log |-> T.log]
  BY <1>2, <1>3
<1>5. LogSound(T.log) /\ TablesSound(T.fat, T.dir)
  BY <1>1, <1>3, EmptyLog DEF ImageSound
<1>. QED
  BY <1>1, <1>3, <1>4, <1>5 DEF VolSound

\* A machine that has just been started is sound.
LEMMA StartSound ==
    ASSUME NEW image, ImageSound(image), NEW S, S = f_mount(image),
           NEW sl, sl = [s \in Slots |-> NoSlot], NEW fds, fds = [f \in Fds |-> NoFile],
           NEW ap, ap = [a \in Apps |-> IdleApp]
    PROVE  Sound(S, sl, fds, ap, {})
<1>1. VolSound(S) /\ S.log = << >>
  BY MountSound
<1>2. NoSlot.used = FALSE
  BY DEF NoSlot
<1>3. IsApp(IdleApp) /\ IdleApp.slot = NoFile
  BY DEF IsApp, IdleApp
<1>4. Shaped(sl, fds, ap)
  BY <1>2, <1>3 DEF Shaped
<1>5. HeldIn(sl, {}) = {}
  BY <1>2 DEF HeldIn
<1>6. Owned(sl, fds, ap, {})
  BY <1>3, <1>5 DEF Owned
<1>7. HandlesOK(S, sl, HeldIn(sl, {}))
  BY <1>5 DEF HandlesOK
<1>. QED
  BY <1>1, <1>4, <1>6, <1>7 DEF Sound

LEMMA RebootKeeps ==
    ASSUME NEW image, ImageSound(image), NEW touched, Reboot(image, touched)
    PROVE  IInv'
<1>1. /\ vol' = f_mount(image) /\ slots' = [s \in Slots |-> NoSlot]
      /\ fdTable' = [fd \in Fds |-> NoFile] /\ apps' = [a \in Apps |-> IdleApp]
      /\ orphans' = {}
  BY DEF Reboot
<1>2. Sound(vol', slots', fdTable', apps', {})
  BY <1>1, StartSound
<1>. QED
  BY <1>1, <1>2 DEF IInv

\* A call is cut after one of its sector writes: each left a sound disk.
LEMMA CutKeeps ==
    ASSUME NEW S, VolSound(S), NEW touched, CutDuring(S, touched)
    PROVE  IInv'
<1>1. PICK k \in DOMAIN S.log : Reboot(S.log[k], touched)
  BY DEF CutDuring
<1>2. PICK T : S.log \in Seq(T) /\ \A image \in T : ImageSound(image)
  BY DEF VolSound, LogSound
<1>3. S.log[k] \in T
  BY <1>2
<1>4. PICK image : image = S.log[k]
  OBVIOUS
<1>5. ImageSound(image) /\ Reboot(image, touched)
  BY <1>1, <1>2, <1>3, <1>4
<1>. QED
  BY <1>5, RebootKeeps

LEMMA InvFacts ==
    ASSUME IInv
    PROVE  /\ VolSound(vol) /\ Shaped(slots, fdTable, apps)
           /\ Owned(slots, fdTable, apps, orphans)
           /\ HandlesOK(vol, slots, Held) /\ Held = HeldIn(slots, orphans) /\ Held \subseteq Slots
  BY DEF IInv, Sound, Held, HeldIn

\* A call that changes the volume alone, or not even that.
LEMMA SettleKeeps ==
    ASSUME IInv, NEW S, VolSound(S), Settle(S), HandlesOK(S, slots', HeldIn(slots', orphans')),
           Shaped(slots', fdTable', apps'), Owned(slots', fdTable', apps', orphans')
    PROVE  IInv'
<1>1. vol' = Settled(S)
  BY DEF Settle, Settled
<1>2. VolSound(vol') /\ SameTables(S, vol') /\ vol'.log = << >>
  BY <1>1, SettledFacts
<1>3. HandlesOK(vol', slots', HeldIn(slots', orphans'))
  BY <1>2, HandlesSame
<1>. QED
  BY <1>2, <1>3 DEF IInv, Sound

LEMMA PowerCutKeeps ==
    ASSUME IInv, PowerCut
    PROVE  IInv'
<1>1. PICK image, touched : image = vol.disk /\ touched = {}
  OBVIOUS
<1>2. ImageSound(image) /\ Reboot(image, touched)
  BY <1>1, InvFacts DEF PowerCut, VolSound
<1>. QED
  BY <1>2, RebootKeeps

\* A slot that is held takes another handle, and the volume changes with it.
LEMMA HandleKeeps ==
    ASSUME IInv, NEW s \in Held, NEW S, VolSound(S), Settle(S), NEW g, g.used = TRUE,
           slots[s].isDir \/ ~g.isDir, slots'[s] = g, \A t \in Slots : t # s => slots'[t] = slots[t],
           HandlesOK(S, slots', Held), fdTable' = fdTable, orphans' = orphans,
           \A a \in Apps : apps'[a].slot = apps[a].slot, Shaped(slots', fdTable', apps')
    PROVE  IInv'
<1>1. PICK sl, fds, ap, orph : sl = slots /\ fds = fdTable /\ ap = apps /\ orph = orphans
  OBVIOUS
<1>2. PICK sl2, ap2 : sl2 = slots' /\ ap2 = apps'
  OBVIOUS
<1>3. /\ Shaped(sl, fds, ap) /\ Owned(sl, fds, ap, orph) /\ Held = HeldIn(sl, orph)
      /\ s \in HeldIn(sl, orph) /\ s \in Slots
  BY <1>1, InvFacts
<1>4. sl2[s] = g /\ \A t \in Slots : t # s => sl2[t] = sl[t]
  BY <1>1, <1>2
<1>5. Owned(sl2, fds, ap2, orph) /\ HeldIn(sl2, orph) = HeldIn(sl, orph)
  <2>1. sl2[s].used /\ (sl[s].isDir \/ ~sl2[s].isDir) /\ \A a \in Apps : ap2[a].slot = ap[a].slot
    BY <1>1, <1>2, <1>4
  <2>. QED
    BY <1>3, <1>4, <2>1, OwnersKeep
<1>6. HandlesOK(S, slots', HeldIn(slots', orphans'))
  BY <1>1, <1>2, <1>3, <1>5
<1>7. Owned(slots', fdTable', apps', orphans')
  BY <1>1, <1>2, <1>5
<1>. QED
  BY <1>6, <1>7, SettleKeeps

-------------------------------------------------------------------------------
(* The actions. *)

\* A handle of slot s follows what was done to the volume through it.
LEMMA GrowKeeps ==
    ASSUME IInv, NEW s \in Held, ~slots[s].isDir, NEW S, NEW g,
           FileGrown(vol, slots[s].fil, S, g.fil), IsHandle(g), g.pos \in Nat, g.size \in Nat,
           g.name = slots[s].name, g.acc = slots[s].acc, Settle(S), slots' = Put(slots, s, g),
           fdTable' = fdTable, orphans' = orphans, Shaped(slots, fdTable, apps'),
           \A a \in Apps : apps'[a].slot = apps[a].slot
    PROVE  IInv'
<1>1. PICK sl, fds, ap, sl2, S0 : /\ sl = slots /\ fds = fdTable /\ ap = apps' /\ sl2 = slots'
                                  /\ S0 = vol
  OBVIOUS
<1>2. PICK held : held = Held
  OBVIOUS
<1>3. s \in Slots /\ held \subseteq Slots /\ VolSound(S0) /\ HandlesOK(S0, sl, held) /\ s \in held
  BY <1>1, <1>2, InvFacts
<1>4. g.used = TRUE /\ g.isDir = FALSE /\ g.used \in BOOLEAN
  BY DEF IsHandle
<1>5. Shaped(sl2, fds, ap) /\ sl2[s] = g /\ \A t \in Slots : t # s => sl2[t] = sl[t]
  BY <1>1, <1>3, <1>4, ShapedSlot
<1>6. VolSound(S)
  BY DEF FileGrown
<1>7. HandlesOK(S, sl2, held)
  <2>1. \A t \in held \ {s} : sl2[t] = sl[t]
    BY <1>3, <1>5
  <2>2. /\ FileGrown(S0, sl[s].fil, S, g.fil) /\ g.name = sl[s].name /\ g.acc = sl[s].acc
        /\ ~sl[s].isDir
    BY <1>1
  <2>. QED
    BY <1>3, <1>5, <2>1, <2>2, HandlesGrown
<1>8. /\ Shaped(slots', fdTable', apps') /\ slots'[s] = g
      /\ \A t \in Slots : t # s => slots'[t] = slots[t]
      /\ HandlesOK(S, slots', Held)
  BY <1>1, <1>2, <1>5, <1>7
<1>. QED
  BY <1>4, <1>6, <1>8, HandleKeeps

LEMMA HeldFile ==
    ASSUME IInv, NEW s \in Held, ~slots[s].isDir
    PROVE  FileOK(vol, slots[s])
  BY InvFacts DEF HandlesOK, HandleOK

LEMMA HeldListing ==
    ASSUME IInv, NEW s \in Held, slots[s].isDir
    PROVE  ListingOK(vol, slots[s])
  BY InvFacts DEF HandlesOK, HandleOK

LEMMA FdHolds ==
    ASSUME IInv, NEW fd \in Fds, fdTable[fd] # NoFile
    PROVE  fdTable[fd] \in Held
  BY InvFacts DEF Owned

LEMMA WriteKeeps ==
    ASSUME IInv, NEW fd \in Fds, NEW n \in 1 .. SectorUnits, NEW v,
           Write(fd, [j \in 1 .. n |-> v])
    PROVE  IInv'
<1>1. PICK units, s : units = [j \in 1 .. n |-> v] /\ s = fdTable[fd]
  OBVIOUS
<1>2. s # NoFile /\ ~slots[s].isDir
  BY <1>1 DEF Write
<1>3. PICK r : /\ r = WriteHandle(slots[s], units)
               /\ \/ /\ Settle(r.vol) /\ slots' = [slots EXCEPT ![s] = r.handle]
                     /\ UNCHANGED <<fdTable, apps, orphans>>
                  \/ CutDuring(r.vol, {slots[s].name})
  BY <1>1, Zenon DEF Write
<1>4. s \in Held
  BY <1>1, <1>2, FdHolds
<1>5. FileOK(vol, slots[s]) /\ VolSound(vol)
  BY <1>2, <1>4, HeldFile, InvFacts
<1>6. Len(units) \in Nat \ {0}
  <2>1. n \in Nat \ {0}
    BY VolumeAssumption
  <2>. QED
    BY <1>1, <2>1
<1>7. PICK h, S, g : h = slots[s] /\ S = r.vol /\ g = r.handle
  OBVIOUS
<1>8. /\ FileGrown(vol, h.fil, S, g.fil) /\ IsHandle(g) /\ g.pos \in Nat /\ g.size \in Nat
      /\ g.name = h.name /\ g.acc = h.acc
  BY <1>3, <1>5, <1>6, <1>7, WriteHandleFacts
<1>9. CASE Settle(r.vol) /\ slots' = [slots EXCEPT ![s] = r.handle] /\ UNCHANGED <<fdTable, apps, orphans>>
  <2>1. Settle(S) /\ slots' = Put(slots, s, g) /\ fdTable' = fdTable /\ apps' = apps /\ orphans' = orphans
    BY <1>7, <1>9, Zenon DEF Put
  <2>2. Shaped(slots, fdTable, apps')
    BY <2>1, InvFacts
  <2>. QED
    BY <1>2, <1>4, <1>7, <1>8, <2>1, <2>2, GrowKeeps
<1>10. CASE CutDuring(r.vol, {slots[s].name})
  <2>1. VolSound(S)
    BY <1>8 DEF FileGrown
  <2>2. PICK touched : touched = {slots[s].name}
    OBVIOUS
  <2>. QED
    BY <1>7, <1>10, <2>1, <2>2, CutKeeps
<1>. QED
  BY <1>3, <1>9, <1>10

LEMMA ReadKeeps ==
    ASSUME IInv, NEW fd \in Fds, NEW n \in 1 .. SectorUnits, Read(fd, n)
    PROVE  IInv'
<1>1. PICK s : s = fdTable[fd]
  OBVIOUS
<1>2. s # NoFile /\ ~slots[s].isDir
  BY <1>1 DEF Read
<1>3. PICK r : /\ r = ReadHandle(slots[s], n)
               /\ \/ /\ Settle(r.vol) /\ slots' = [slots EXCEPT ![s] = r.handle]
                     /\ UNCHANGED <<fdTable, apps, orphans>>
                  \/ CutDuring(r.vol, {})
  BY <1>1, Zenon DEF Read
<1>4. s \in Held
  BY <1>1, <1>2, FdHolds
<1>5. FileOK(vol, slots[s]) /\ VolSound(vol)
  BY <1>2, <1>4, HeldFile, InvFacts
<1>6. n \in Nat
  BY VolumeAssumption
<1>7. PICK h, S, g : h = slots[s] /\ S = r.vol /\ g = r.handle
  OBVIOUS
<1>8. /\ FileGrown(vol, h.fil, S, g.fil) /\ IsHandle(g) /\ g.pos \in Nat /\ g.size \in Nat
      /\ g.name = h.name /\ g.acc = h.acc
  BY <1>3, <1>5, <1>6, <1>7, ReadHandleFacts
<1>9. CASE Settle(r.vol) /\ slots' = [slots EXCEPT ![s] = r.handle] /\ UNCHANGED <<fdTable, apps, orphans>>
  <2>1. Settle(S) /\ slots' = Put(slots, s, g) /\ fdTable' = fdTable /\ apps' = apps /\ orphans' = orphans
    BY <1>7, <1>9, Zenon DEF Put
  <2>2. Shaped(slots, fdTable, apps')
    BY <2>1, InvFacts
  <2>. QED
    BY <1>2, <1>4, <1>7, <1>8, <2>1, <2>2, GrowKeeps
<1>10. CASE CutDuring(r.vol, {})
  <2>1. VolSound(S)
    BY <1>8 DEF FileGrown
  <2>2. PICK touched : touched = {}
    OBVIOUS
  <2>. QED
    BY <1>7, <1>10, <2>1, <2>2, CutKeeps
<1>. QED
  BY <1>3, <1>9, <1>10

LEMMA AppMoved ==
    ASSUME NEW p, NEW s, NEW m, NEW o, NEW ok, NEW app,
           app = [pc |-> p, slot |-> s, mode |-> m, ok |-> o], NEW done,
           NEW v, v = [app EXCEPT !.pc = done, !.ok = ok]
    PROVE  v = [pc |-> done, slot |-> s, mode |-> m, ok |-> ok]
  OBVIOUS

LEMMA SaveWriteKeeps ==
    ASSUME IInv, NEW a \in Apps, SaveWrite(a)
    PROVE  IInv'
<1>1. PICK app, s : app = apps[a] /\ s = app.slot
  OBVIOUS
<1>2. IsApp(app) /\ app.pc = "write"
  BY <1>1, InvFacts DEF SaveWrite, Shaped
<1>3. PICK units : units = Document(app.mode)
  OBVIOUS
<1>4. PICK r : /\ r = WriteHandle(slots[s], units)
               /\ \/ /\ Settle(r.vol) /\ slots' = [slots EXCEPT ![s] = r.handle]
                     /\ apps' = [apps EXCEPT ![a].pc = "close", ![a].ok = r.done = Len(units)]
                     /\ UNCHANGED <<fdTable, orphans>>
                  \/ CutDuring(r.vol, {})
  BY <1>1, <1>3, Zenon DEF SaveWrite
<1>5. s # NoFile
  BY <1>1, <1>2 DEF IsApp
<1>6. s \in Held /\ ~slots[s].isDir
  BY <1>1, <1>5, InvFacts DEF Owned
<1>7. FileOK(vol, slots[s]) /\ VolSound(vol)
  BY <1>6, HeldFile, InvFacts
<1>8. Len(units) \in Nat \ {0}
  BY <1>3 DEF Document
<1>9. PICK h, S, g : h = slots[s] /\ S = r.vol /\ g = r.handle
  OBVIOUS
<1>10. /\ FileGrown(vol, h.fil, S, g.fil) /\ IsHandle(g) /\ g.pos \in Nat /\ g.size \in Nat
       /\ g.name = h.name /\ g.acc = h.acc
  BY <1>4, <1>7, <1>8, <1>9, WriteHandleFacts
<1>11. CASE /\ Settle(r.vol) /\ slots' = [slots EXCEPT ![s] = r.handle]
            /\ apps' = [apps EXCEPT ![a].pc = "close", ![a].ok = r.done = Len(units)]
            /\ UNCHANGED <<fdTable, orphans>>
  <2>1. Settle(S) /\ slots' = Put(slots, s, g) /\ fdTable' = fdTable /\ orphans' = orphans
    BY <1>9, <1>11, Zenon DEF Put
  <2>2. PICK ok : ok = (r.done = Len(units))
    OBVIOUS
  <2>3. PICK v : v = [pc |-> "close", slot |-> s, mode |-> app.mode, ok |-> ok]
    OBVIOUS
  <2>4. PICK ap, sl, fds : ap = apps /\ sl = slots /\ fds = fdTable
    OBVIOUS
  <2>5. Shaped(sl, fds, ap)
    BY <2>4, InvFacts
  <2>6. apps' = Put(ap, a, v)
    <3>1. ap = [b \in Apps |-> ap[b]] /\ ap[a] = app
      BY <1>1, <2>4, <2>5 DEF Shaped
    <3>2. apps' = [ap EXCEPT ![a].pc = "close", ![a].ok = ok]
      BY <1>11, <2>2, <2>4, Zenon
    <3>3. app = [pc |-> app.pc, slot |-> s, mode |-> app.mode, ok |-> app.ok]
      BY <1>1, <1>2 DEF IsApp
    <3>4. PICK w : w = [app EXCEPT !.pc = "close", !.ok = ok]
      OBVIOUS
    <3>6. w = v
      <4>1. PICK p, m, o, done : p = app.pc /\ m = app.mode /\ o = app.ok /\ done = "close"
        OBVIOUS
      <4>2. app = [pc |-> p, slot |-> s, mode |-> m, ok |-> o]
        BY <3>3, <4>1
      <4>3. w = [app EXCEPT !.pc = done, !.ok = ok]
        BY <3>4, <4>1
      <4>4. w = [pc |-> done, slot |-> s, mode |-> m, ok |-> ok]
        BY <4>2, <4>3, AppMoved
      <4>. QED
        BY <2>3, <4>1, <4>4
    <3>5. apps' = [ap EXCEPT ![a] = [app EXCEPT !.pc = "close", !.ok = ok]]
      BY <3>1, <3>2
    <3>. QED
      BY <3>4, <3>5, <3>6 DEF Put
  <2>7. IsApp(v) /\ v.slot = s
    BY <1>5, <2>3 DEF IsApp
  <2>8. PICK ap2 : ap2 = apps'
    OBVIOUS
  <2>9. Shaped(sl, fds, ap2) /\ ap2[a] = v /\ \A b \in Apps : b # a => ap2[b] = ap[b]
    BY <2>5, <2>6, <2>7, <2>8, ShapedApp
  <2>10. Shaped(slots, fdTable, apps') /\ \A b \in Apps : apps'[b].slot = apps[b].slot
    BY <1>1, <2>4, <2>7, <2>8, <2>9
  <2>. QED
    BY <1>6, <1>9, <1>10, <2>1, <2>10, GrowKeeps
<1>12. CASE CutDuring(r.vol, {})
  <2>1. VolSound(S)
    BY <1>10 DEF FileGrown
  <2>2. PICK touched : touched = {}
    OBVIOUS
  <2>. QED
    BY <1>9, <1>12, <2>1, <2>2, CutKeeps
<1>. QED
  BY <1>4, <1>11, <1>12

\* A handle that only moves.
LEMMA HandlesMoved ==
    ASSUME NEW S, NEW sl, NEW held, HandlesOK(S, sl, held), NEW s \in held,
           NEW sl2, \A t \in held \ {s} : sl2[t] = sl[t], HandleOK(S, sl2[s]),
           sl[s].isDir => sl2[s].isDir,
           ~sl[s].isDir => /\ sl2[s].fil = sl[s].fil /\ sl2[s].name = sl[s].name
                           /\ sl2[s].acc = sl[s].acc
    PROVE  HandlesOK(S, sl2, held)
<1>1. HandlesOK(S, sl, held \ {s})
  BY HandlesFewer
<1>2. ASSUME NEW t \in held \ {s}, ~sl[t].isDir, ~sl2[s].isDir
      PROVE  Apart(sl[t], sl2[s])
  <2>1. Apart(sl[t], sl[s])
    BY <1>2 DEF HandlesOK
  <2>2. /\ sl2[s].fil = sl[s].fil /\ sl2[s].name = sl[s].name /\ sl2[s].acc = sl[s].acc
    BY <1>2
  <2>. QED
    BY <2>1, <2>2 DEF Apart, Writable
<1>3. HandlesOK(S, sl2, held \cup {s})
  BY <1>1, <1>2, HandlesWith
<1>4. held \cup {s} = held
  OBVIOUS
<1>. QED
  BY <1>3, <1>4

LEMMA StillSettled ==
    ASSUME IInv, vol' = vol
    PROVE  Settle(vol)
<1>1. PICK S, T : S = vol /\ T = Settled(S)
  OBVIOUS
<1>2. VolSound(S) /\ S.log = << >>
  BY <1>1 DEF IInv, Sound
<1>3. S = [dir |-> S.dir, fat |-> S.fat, win |-> S.win, last |-> S.last,
           disk |-> S.disk, log |-> S.log]
  BY <1>2 DEF VolSound
<1>4. PICK d, f, w, l, i : d = S.dir /\ f = S.fat /\ w = S.win /\ l = S.last /\ i = S.disk
  OBVIOUS
<1>5. T = [dir |-> d, fat |-> f, win |-> w, last |-> l, disk |-> i, log |-> << >>]
  BY <1>1, <1>3, <1>4 DEF Settled
<1>6. T = S
  BY <1>2, <1>3, <1>4, <1>5
<1>. QED
  BY <1>1, <1>6, Zenon DEF Settle, Settled

\* A handle that moves, over a volume with the same tables.
LEMMA MoveKeeps ==
    ASSUME IInv, NEW s \in Held, NEW S, VolSound(S), SameTables(vol, S), Settle(S), NEW g,
           HandleOK(vol, g), g.used = TRUE, slots' = Put(slots, s, g),
           slots[s].isDir => g.isDir,
           ~slots[s].isDir => /\ ~g.isDir /\ g.fil = slots[s].fil
                              /\ g.name = slots[s].name /\ g.acc = slots[s].acc,
           UNCHANGED <<fdTable, apps, orphans>>
    PROVE  IInv'
<1>1. PICK sl, fds, ap, sl2, S0, held : /\ sl = slots /\ fds = fdTable /\ ap = apps
                                        /\ sl2 = slots' /\ S0 = vol /\ held = Held
  OBVIOUS
<1>2. /\ s \in Slots /\ held \subseteq Slots /\ HandlesOK(S0, sl, held) /\ s \in held
      /\ Shaped(sl, fds, ap) /\ g.used \in BOOLEAN
  BY <1>1, InvFacts
<1>3. Shaped(sl2, fds, ap) /\ sl2[s] = g /\ \A t \in Slots : t # s => sl2[t] = sl[t]
  BY <1>1, <1>2, ShapedSlot
<1>4. HandlesOK(S0, sl2, held)
  <2>1. /\ \A t \in held \ {s} : sl2[t] = sl[t]
        /\ HandleOK(S0, sl2[s])
        /\ sl[s].isDir => sl2[s].isDir
        /\ ~sl[s].isDir => /\ sl2[s].fil = sl[s].fil /\ sl2[s].name = sl[s].name
                           /\ sl2[s].acc = sl[s].acc
    BY <1>1, <1>2, <1>3
  <2>. QED
    BY <1>2, <2>1, HandlesMoved
<1>5. HandlesOK(S, sl2, held)
  BY <1>1, <1>4, HandlesSame
<1>6. /\ Shaped(slots', fdTable', apps') /\ slots'[s] = g
      /\ \A t \in Slots : t # s => slots'[t] = slots[t]
      /\ HandlesOK(S, slots', Held) /\ (slots[s].isDir \/ ~g.isDir)
      /\ fdTable' = fdTable /\ orphans' = orphans
      /\ \A a \in Apps : apps'[a].slot = apps[a].slot
  BY <1>1, <1>3, <1>5
<1>. QED
  BY <1>6, HandleKeeps

LEMMA LseekKeeps ==
    ASSUME IInv, NEW fd \in Fds, NEW p \in SeekTargets, Lseek(fd, p)
    PROVE  IInv'
<1>1. PICK s, h : s = fdTable[fd] /\ h = slots[s]
  OBVIOUS
<1>2. PICK pos : pos = IF Writable(h) THEN p ELSE Smaller(p, h.size)
  OBVIOUS
<1>3. PICK none : none = << >>
  OBVIOUS
<1>4. PICK start : start = 0
  OBVIOUS
<1>5. PICK g : g = IF h.isDir THEN Moved(h, start, none) ELSE [h EXCEPT !.pos = pos]
  OBVIOUS
<1>6. s # NoFile
  BY <1>1 DEF Lseek
<1>7. slots' = Put(slots, s, g) /\ vol' = vol /\ UNCHANGED <<fdTable, apps, orphans>>
  BY <1>1, <1>2, <1>3, <1>4, <1>5, Zenon DEF Lseek, Put, Moved
<1>8. s \in Held
  BY <1>1, <1>6, FdHolds
<1>9. VolSound(vol) /\ SameTables(vol, vol) /\ Settle(vol)
  BY <1>7, InvFacts, StillSettled DEF SameTables
<1>10. CASE h.isDir
  <2>1. ListingOK(vol, h)
    BY <1>1, <1>8, <1>10, HeldListing
  <2>2. ListingShape(h)
    BY <2>1 DEF ListingOK
  <2>3. ListingShape(g) /\ g.pos = start /\ g.listed = none
    BY <1>5, <1>10, <2>2, ListingMoved
  <2>4. ListingOK(vol, g)
    <3>1. /\ none \in Seq(Names) /\ Len(none) = 0 /\ Total(KernelLen, none) = 0
      BY <1>3, TotalEmpty
    <3>2. Len(vol.dir) \in Nat
      BY <1>9, EntryFacts DEF VolSound
    <3>. QED
      BY <1>4, <2>3, <3>1, <3>2 DEF ListingOK
  <2>5. HandleOK(vol, g) /\ g.used = TRUE /\ g.isDir
    BY <2>3, <2>4 DEF HandleOK, ListingShape
  <2>6. PICK S : S = vol
    OBVIOUS
  <2>. QED
    BY <1>1, <1>7, <1>8, <1>9, <1>10, <2>5, <2>6, MoveKeeps
<1>11. CASE ~h.isDir
  <2>1. FileOK(vol, h)
    BY <1>1, <1>8, <1>11, HeldFile
  <2>2. pos \in Nat
    BY <1>2, <2>1, StorageAssumption DEF FileOK, Smaller
  <2>3. g = [h EXCEPT !.pos = pos]
    BY <1>5, <1>11
  <2>4. /\ IsHandle(g) /\ g.pos = pos /\ g.size = h.size /\ g.fil = h.fil
        /\ g.name = h.name /\ g.acc = h.acc
    <3>1. IsHandle(h)
      BY <2>1 DEF FileOK
    <3>. QED
      BY <2>3, <3>1 DEF IsHandle
  <2>5. g.used = TRUE /\ g.isDir = FALSE
    BY <2>4 DEF IsHandle
  <2>6. FileOK(vol, g)
    BY <2>1, <2>2, <2>4 DEF FileOK
  <2>7. HandleOK(vol, g)
    BY <2>5, <2>6 DEF HandleOK
  <2>8. PICK S : S = vol
    OBVIOUS
  <2>. QED
    BY <1>1, <1>7, <1>8, <1>9, <1>11, <2>4, <2>5, <2>7, <2>8, MoveKeeps
<1>. QED
  BY <1>10, <1>11

LEMMA ReadDirectoryKeeps ==
    ASSUME IInv, NEW fd \in Fds, NEW n \in UserCounts, ReadDirectory(fd, n)
    PROVE  IInv'
<1>1. PICK s, h : s = fdTable[fd] /\ h = slots[s]
  OBVIOUS
<1>2. s # NoFile /\ h.isDir
  BY <1>1 DEF ReadDirectory
<1>3. PICK batch : batch = DirStream(h, n)
  OBVIOUS
<1>4. PICK g : g = [h EXCEPT !.pos = @ + Total(KernelLen, batch), !.listed = @ \o batch]
  OBVIOUS
<1>5. /\ Settle(Look(vol)) /\ UNCHANGED <<fdTable, apps, orphans>>
      /\ slots' = Put(slots, s, g)
  BY <1>1, <1>3, <1>4, Zenon DEF ReadDirectory, Put
<1>6. s \in Held
  BY <1>1, <1>2, FdHolds
<1>7. ListingOK(vol, h) /\ VolSound(vol)
  BY <1>1, <1>2, <1>6, HeldListing, InvFacts
<1>8. batch \in Seq(Names) /\ n \in Nat
  <2>1. PICK room \in Nat : room = n
    BY StorageAssumption
  <2>2. batch = DirStream(h, room)
    BY <1>3, <2>1
  <2>. QED
    BY <1>7, <2>1, <2>2, StreamFacts
<1>9. g = Given(h, batch, Len(batch))
  <2>1. PICK k \in Nat : k = Len(batch)
    BY <1>8
  <2>2. SubSeq(batch, 1, k) = batch
    BY <1>8, <2>1
  <2>3. RolledBack(h.pos, batch, k) = h.pos + Total(KernelLen, batch)
    <3>1. PICK rest : rest = SubSeq(batch, k + 1, Len(batch))
      OBVIOUS
    <3>2. Total(KernelLen, rest) = 0 /\ Total(KernelLen, batch) \in Nat
      <4>1. k \in 0 .. Len(batch)
        BY <1>8, <2>1
      <4>2. rest \in Seq(Names)
        BY <1>8, <3>1, <4>1, TwoParts
      <4>3. Total(KernelLen, batch) = Total(KernelLen, batch) + Total(KernelLen, rest)
        BY <1>8, <2>2, <3>1, <4>1, TwoParts
      <4>4. Total(KernelLen, batch) \in Nat /\ Total(KernelLen, rest) \in Nat
        BY <1>8, <4>2, TotalFacts
      <4>. QED
        BY <4>3, <4>4
    <3>3. h.pos \in Nat
      <4>1. h.pos = Total(KernelLen, h.listed) /\ h.listed \in Seq(Names)
        BY <1>7 DEF ListingOK
      <4>. QED
        BY <4>1, TotalFacts
    <3>4. RolledBack(h.pos, batch, k) = (h.pos + Total(KernelLen, batch)) - 0
      BY <3>1, <3>2 DEF RolledBack
    <3>. QED
      BY <3>2, <3>3, <3>4
  <2>4. g = [h EXCEPT !.pos = RolledBack(h.pos, batch, k), !.listed = @ \o SubSeq(batch, 1, k)]
    BY <1>4, <2>2, <2>3
  <2>. QED
    BY <2>1, <2>4, Zenon DEF Given
<1>10. ListingOK(vol, g)
  <2>1. Len(batch) \in 0 .. Len(batch)
    BY <1>8
  <2>. QED
    BY <1>3, <1>7, <1>8, <1>9, <2>1, ListingStep
<1>11. g.used = TRUE /\ g.isDir = TRUE
  BY <1>10 DEF ListingOK, ListingShape
<1>12. HandleOK(vol, g)
  BY <1>10, <1>11 DEF HandleOK
<1>13. PICK S, S0 : S = Look(vol) /\ S0 = vol
  OBVIOUS
<1>14. VolSound(S) /\ SameTables(S0, S)
  BY <1>7, <1>13, MoveSound DEF Look
<1>15. Settle(S) /\ slots' = Put(slots, s, g) /\ SameTables(vol, S)
  BY <1>5, <1>13, <1>14
<1>. QED
  BY <1>1, <1>2, <1>5, <1>6, <1>11, <1>12, <1>14, <1>15, MoveKeeps

LEMMA GetdentsKeeps ==
    ASSUME IInv, NEW fd \in Fds, NEW count \in UserCounts, Getdents(fd, count)
    PROVE  IInv'
<1>1. PICK s, h : s = fdTable[fd] /\ h = slots[s]
  OBVIOUS
<1>2. s # NoFile /\ h.isDir
  BY <1>1 DEF Getdents
<1>3. PICK batch : batch = DirStream(h, DirentBuffer)
  OBVIOUS
<1>4. /\ Settle(Look(vol)) /\ UNCHANGED <<fdTable, apps, orphans>>
      /\ \E k \in 0 .. Len(Fitting(UserLen, batch, count)) : slots' = Put(slots, s, Given(h, batch, k))
  BY <1>1, <1>3, Zenon DEF Getdents, Put, Given
<1>5. PICK k \in 0 .. Len(Fitting(UserLen, batch, count)) :
          slots' = Put(slots, s, Given(h, batch, k))
  BY <1>4
<1>6. PICK g : g = Given(h, batch, k)
  OBVIOUS
<1>7. s \in Held
  BY <1>1, <1>2, FdHolds
<1>8. ListingOK(vol, h) /\ VolSound(vol)
  BY <1>1, <1>2, <1>7, HeldListing, InvFacts
<1>9. k \in 0 .. Len(batch)
  <2>1. PICK room \in Nat, limit \in Nat : room = DirentBuffer /\ limit = count
    BY StorageAssumption
  <2>2. batch \in Seq(Names)
    <3>1. batch = DirStream(h, room)
      BY <1>3, <2>1
    <3>. QED
      BY <1>8, <3>1, StreamFacts
  <2>3. PICK c \in 0 .. Len(batch) : Fitting(UserLen, batch, limit) = SubSeq(batch, 1, c)
    BY <2>2, StorageAssumption, FittingFacts
  <2>4. Len(SubSeq(batch, 1, c)) = c /\ Len(batch) \in Nat
    BY <2>2, TwoParts
  <2>. QED
    BY <2>1, <2>3, <2>4
<1>10. ListingOK(vol, g)
  <2>1. PICK room \in Nat : room = DirentBuffer
    BY StorageAssumption
  <2>2. batch = DirStream(h, room)
    BY <1>3, <2>1
  <2>. QED
    BY <1>6, <1>8, <1>9, <2>2, ListingStep
<1>11. g.used = TRUE /\ g.isDir = TRUE
  BY <1>10 DEF ListingOK, ListingShape
<1>12. HandleOK(vol, g)
  BY <1>10, <1>11 DEF HandleOK
<1>13. PICK S, S0 : S = Look(vol) /\ S0 = vol
  OBVIOUS
<1>14. VolSound(S) /\ SameTables(S0, S)
  BY <1>8, <1>13, MoveSound DEF Look
<1>15. Settle(S) /\ slots' = Put(slots, s, g) /\ SameTables(vol, S)
  BY <1>4, <1>5, <1>6, <1>13, <1>14
<1>. QED
  BY <1>1, <1>2, <1>4, <1>7, <1>11, <1>12, <1>14, <1>15, MoveKeeps

\* File::Close() of a held slot.
LEMMA CloseVolFacts ==
    ASSUME IInv, NEW s \in Held, NEW S, S = CloseVol(slots[s])
    PROVE  VolSound(S) /\ HandlesOK(S, slots, Held \ {s})
<1>1. PICK sl, S0, held : sl = slots /\ S0 = vol /\ held = Held
  OBVIOUS
<1>2. VolSound(S0) /\ HandlesOK(S0, sl, held) /\ s \in held
  BY <1>1, InvFacts
<1>3. CASE sl[s].isDir
  <2>1. S = S0
    BY <1>1, <1>3 DEF CloseVol
  <2>2. HandlesOK(S0, sl, held \ {s})
    BY <1>2, HandlesFewer
  <2>. QED
    BY <1>1, <1>2, <2>1, <2>2
<1>4. CASE ~sl[s].isDir
  <2>1. S = f_close(S0, sl[s].fil)
    BY <1>1, <1>4 DEF CloseVol
  <2>2. VolSound(S) /\ HandlesOK(S, sl, held \ {s})
    BY <1>2, <1>4, <2>1, HandlesClosed
  <2>. QED
    BY <1>1, <2>2
<1>. QED
  BY <1>3, <1>4

LEMMA FreedSlot ==
    NoSlot.used = FALSE /\ NoSlot.used \in BOOLEAN
  BY DEF NoSlot

LEMMA CloseKeeps ==
    ASSUME IInv, NEW fd \in Fds, Close(fd)
    PROVE  IInv'
<1>1. PICK s : s = fdTable[fd]
  OBVIOUS
<1>2. s # NoFile
  BY <1>1 DEF Close
<1>3. PICK S : /\ S = CloseVol(slots[s])
               /\ \/ /\ Settle(S) /\ slots' = Put(slots, s, NoSlot)
                     /\ fdTable' = Put(fdTable, fd, NoFile)
                     /\ UNCHANGED <<apps, orphans>>
                  \/ CutDuring(S, {})
  BY <1>1, Zenon DEF Close, Put
<1>4. s \in Held
  BY <1>1, <1>2, FdHolds
<1>5. VolSound(S) /\ HandlesOK(S, slots, Held \ {s})
  BY <1>3, <1>4, CloseVolFacts
<1>6. CASE /\ Settle(S) /\ slots' = Put(slots, s, NoSlot)
           /\ fdTable' = Put(fdTable, fd, NoFile)
           /\ UNCHANGED <<apps, orphans>>
  <2>1. PICK sl, fds, ap, orph, sl2, fds2, held :
            /\ sl = slots /\ fds = fdTable /\ ap = apps /\ orph = orphans
            /\ sl2 = slots' /\ fds2 = fdTable' /\ held = Held
    OBVIOUS
  <2>2. PICK none, free : none = NoSlot /\ free = NoFile
    OBVIOUS
  <2>3. /\ Shaped(sl, fds, ap) /\ Owned(sl, fds, ap, orph) /\ held = HeldIn(sl, orph)
        /\ held \subseteq Slots /\ s \in Slots
    BY <1>4, <2>1, InvFacts
  <2>4. none.used = FALSE /\ none.used \in BOOLEAN
    BY <2>2, FreedSlot
  <2>5. Shaped(sl2, fds, ap) /\ sl2[s] = none /\ \A t \in Slots : t # s => sl2[t] = sl[t]
    <3>1. sl2 = Put(sl, s, none)
      BY <1>6, <2>1, <2>2
    <3>. QED
      BY <2>3, <2>4, <3>1, ShapedSlot
  <2>6. Shaped(sl2, fds2, ap) /\ fds2[fd] = free /\ \A g \in Fds : g # fd => fds2[g] = fds[g]
    <3>1. fds2 = Put(fds, fd, free)
      BY <1>6, <2>1, <2>2
    <3>. QED
      BY <2>5, <3>1, ShapedFd
  <2>7. Owned(sl2, fds2, ap, orph) /\ HeldIn(sl2, orph) = held \ {s}
    <3>1. s = fds[fd] /\ sl2[s].used = FALSE /\ fds2[fd] = NoFile
      BY <1>1, <2>1, <2>2, <2>4, <2>5, <2>6
    <3>. QED
      <4>1. /\ Owned(sl, fds, ap, orph) /\ Shaped(sl, fds, ap)
            /\ s \in Slots /\ fds[fd] = s /\ ~sl2[s].used
            /\ \A t \in Slots : t # s => sl2[t] = sl[t]
            /\ fds2[fd] = NoFile /\ \A g \in Fds : g # fd => fds2[g] = fds[g]
        BY <1>2, <2>3, <2>5, <2>6, <3>1
      <4>2. Owned(sl2, fds2, ap, orph) /\ HeldIn(sl2, orph) = HeldIn(sl, orph) \ {s}
        BY <4>1, FdDrops
      <4>. QED
        BY <2>3, <4>2
  <2>8. HandlesOK(S, sl2, held \ {s})
    <3>1. HandlesOK(S, sl, held \ {s}) /\ \A t \in held \ {s} : sl2[t] = sl[t]
      BY <1>5, <2>1, <2>3, <2>5
    <3>. QED
      BY <3>1, HandlesOthers
  <2>9. /\ HandlesOK(S, slots', HeldIn(slots', orphans')) /\ Shaped(slots', fdTable', apps')
        /\ Owned(slots', fdTable', apps', orphans')
    BY <1>6, <2>1, <2>6, <2>7, <2>8
  <2>. QED
    BY <1>5, <1>6, <2>9, SettleKeeps
<1>7. CASE CutDuring(S, {})
  <2>1. PICK touched : touched = {}
    OBVIOUS
  <2>. QED
    BY <1>5, <1>7, <2>1, CutKeeps
<1>. QED
  BY <1>3, <1>6, <1>7

LEMMA SaveCloseKeeps ==
    ASSUME IInv, NEW a \in Apps, SaveClose(a)
    PROVE  IInv'
<1>1. PICK s : s = apps[a].slot
  OBVIOUS
<1>2. IsApp(apps[a]) /\ apps[a].pc = "close"
  BY InvFacts DEF SaveClose, Shaped
<1>3. PICK S : /\ S = CloseVol(slots[s])
               /\ \/ /\ Settle(S) /\ slots' = Put(slots, s, NoSlot)
                     /\ apps' = Put(apps, a, IdleApp)
                     /\ UNCHANGED <<fdTable, orphans>>
                  \/ CutDuring(S, {Settings})
  BY <1>1, Zenon DEF SaveClose, Put
<1>4. s # NoFile /\ s \in Held
  BY <1>1, <1>2, InvFacts DEF IsApp, Owned
<1>5. VolSound(S) /\ HandlesOK(S, slots, Held \ {s})
  BY <1>3, <1>4, CloseVolFacts
<1>6. CASE /\ Settle(S) /\ slots' = Put(slots, s, NoSlot)
           /\ apps' = Put(apps, a, IdleApp)
           /\ UNCHANGED <<fdTable, orphans>>
  <2>1. PICK sl, fds, ap, orph, sl2, ap2, held :
            /\ sl = slots /\ fds = fdTable /\ ap = apps /\ orph = orphans
            /\ sl2 = slots' /\ ap2 = apps' /\ held = Held
    OBVIOUS
  <2>2. PICK none, idle : none = NoSlot /\ idle = IdleApp
    OBVIOUS
  <2>3. /\ Shaped(sl, fds, ap) /\ Owned(sl, fds, ap, orph) /\ held = HeldIn(sl, orph)
        /\ held \subseteq Slots /\ s \in Slots
    BY <1>4, <2>1, InvFacts
  <2>4. none.used = FALSE /\ none.used \in BOOLEAN
    BY <2>2, FreedSlot
  <2>5. IsApp(idle) /\ idle.slot = NoFile
    BY <2>2 DEF IsApp, IdleApp
  <2>6. Shaped(sl2, fds, ap) /\ sl2[s] = none /\ \A t \in Slots : t # s => sl2[t] = sl[t]
    <3>1. sl2 = Put(sl, s, none)
      BY <1>6, <2>1, <2>2
    <3>. QED
      BY <2>3, <2>4, <3>1, ShapedSlot
  <2>7. Shaped(sl2, fds, ap2) /\ ap2[a] = idle /\ \A b \in Apps : b # a => ap2[b] = ap[b]
    <3>1. ap2 = Put(ap, a, idle)
      BY <1>6, <2>1, <2>2
    <3>. QED
      BY <2>5, <2>6, <3>1, ShapedApp
  <2>8. Owned(sl2, fds, ap2, orph) /\ HeldIn(sl2, orph) = held \ {s}
    <3>1. s = ap[a].slot /\ sl2[s].used = FALSE /\ ap2[a].slot = NoFile
      BY <1>1, <2>1, <2>4, <2>5, <2>6, <2>7
    <3>. QED
      <4>1. /\ Owned(sl, fds, ap, orph) /\ Shaped(sl, fds, ap)
            /\ s \in Slots /\ ap[a].slot = s /\ ~sl2[s].used
            /\ \A t \in Slots : t # s => sl2[t] = sl[t]
            /\ ap2[a].slot = NoFile /\ \A b \in Apps : b # a => ap2[b] = ap[b]
        BY <1>4, <2>3, <2>6, <2>7, <3>1
      <4>2. Owned(sl2, fds, ap2, orph) /\ HeldIn(sl2, orph) = HeldIn(sl, orph) \ {s}
        BY <4>1, AppDrops
      <4>. QED
        BY <2>3, <4>2
  <2>9. HandlesOK(S, sl2, held \ {s})
    <3>1. HandlesOK(S, sl, held \ {s}) /\ \A t \in held \ {s} : sl2[t] = sl[t]
      BY <1>5, <2>1, <2>3, <2>6
    <3>. QED
      BY <3>1, HandlesOthers
  <2>10. /\ HandlesOK(S, slots', HeldIn(slots', orphans')) /\ Shaped(slots', fdTable', apps')
         /\ Owned(slots', fdTable', apps', orphans')
    BY <1>6, <2>1, <2>7, <2>8, <2>9
  <2>. QED
    BY <1>5, <1>6, <2>10, SettleKeeps
<1>7. CASE CutDuring(S, {Settings})
  <2>1. PICK touched : touched = {Settings}
    OBVIOUS
  <2>. QED
    BY <1>5, <1>7, <2>1, CutKeeps
<1>. QED
  BY <1>3, <1>6, <1>7

LEMMA ExitKeeps ==
    ASSUME IInv, Exit
    PROVE  IInv'
<1>1. PICK sl, fds, ap, orph, fds2, orph2, S, held :
          /\ sl = slots /\ fds = fdTable /\ ap = apps /\ orph = orphans
          /\ fds2 = fdTable' /\ orph2 = orphans' /\ S = vol /\ held = Held
  OBVIOUS
<1>2. /\ orph2 = orph \cup ({fds[f] : f \in Fds} \ {NoFile})
      /\ fds2 = [f \in Fds |-> NoFile]
      /\ UNCHANGED <<vol, slots, apps>>
  BY <1>1 DEF Exit
<1>3. /\ Shaped(sl, fds, ap) /\ Owned(sl, fds, ap, orph) /\ held = HeldIn(sl, orph)
      /\ VolSound(S) /\ HandlesOK(S, sl, held) /\ S.log = << >>
  BY <1>1, InvFacts DEF IInv, Sound
<1>4. Owned(sl, fds2, ap, orph2) /\ HeldIn(sl, orph2) \subseteq HeldIn(sl, orph)
  BY <1>2, <1>3, OwnerEnds
<1>5. HandlesOK(S, sl, HeldIn(sl, orph2))
  BY <1>3, <1>4, HandlesFewer
<1>6. Shaped(sl, fds2, ap)
  BY <1>2, <1>3 DEF Shaped
<1>. QED
  BY <1>1, <1>2, <1>3, <1>4, <1>5, <1>6 DEF IInv, Sound

\* Opening goes on with what is held already.
LEMMA OpenedVol ==
    ASSUME IInv, NEW name \in Names, NEW flags, NEW S, Reopened(vol, S, name, flags.trunc),
           \/ S = vol
           \/ \A s \in Held : ~slots[s].isDir /\ slots[s].name = name => ~flags.trunc \/ name = Settings
    PROVE  VolSound(S) /\ HandlesOK(S, slots, Held)
<1>1. PICK sl, S0, held, truncate : sl = slots /\ S0 = vol /\ held = Held /\ truncate = flags.trunc
  OBVIOUS
<1>2. VolSound(S0) /\ HandlesOK(S0, sl, held) /\ Reopened(S0, S, name, truncate)
  BY <1>1, InvFacts
<1>3. VolSound(S)
  BY <1>2 DEF Reopened
<1>4. CASE S = S0
  BY <1>1, <1>2, <1>4
<1>5. CASE \A s \in held : ~sl[s].isDir /\ sl[s].name = name => ~truncate \/ name = Settings
  <2>1. HandlesOK(S, sl, held)
    BY <1>2, <1>5, HandlesReopened
  <2>. QED
    BY <1>1, <1>3, <2>1
<1>. QED
  BY <1>1, <1>4, <1>5

\* A descriptor, and the slot that is free for it.
LEMMA FdInstalls ==
    ASSUME IInv, NEW s \in Slots, ~slots[s].used, NEW f \in Fds, fdTable[f] = NoFile, NEW g,
           g.used = TRUE, slots' = Put(slots, s, g), fdTable' = Put(fdTable, f, s),
           apps' = apps, orphans' = orphans, NEW S, VolSound(S), Settle(S),
           s \notin Held => HandlesOK(S, slots', Held \cup {s})
    PROVE  IInv'
<1>1. PICK sl, fds, ap, orph, sl2, fds2, held :
          /\ sl = slots /\ fds = fdTable /\ ap = apps /\ orph = orphans
          /\ sl2 = slots' /\ fds2 = fdTable' /\ held = Held
  OBVIOUS
<1>2. Shaped(sl, fds, ap) /\ Owned(sl, fds, ap, orph) /\ held = HeldIn(sl, orph)
  BY <1>1, InvFacts
<1>3. Shaped(sl2, fds, ap) /\ sl2[s] = g /\ \A t \in Slots : t # s => sl2[t] = sl[t]
  <2>1. sl2 = Put(sl, s, g) /\ g.used \in BOOLEAN
    BY <1>1
  <2>. QED
    BY <1>2, <2>1, ShapedSlot
<1>4. Shaped(sl2, fds2, ap) /\ fds2[f] = s /\ \A h \in Fds : h # f => fds2[h] = fds[h]
  <2>1. fds2 = Put(fds, f, s)
    BY <1>1
  <2>. QED
    BY <1>3, <2>1, ShapedFd
<1>5. /\ Owned(sl2, fds2, ap, orph)
      /\ HeldIn(sl2, orph) = HeldIn(sl, orph) \cup {s} /\ s \notin HeldIn(sl, orph)
  <2>1. ~sl[s].used /\ fds[f] = NoFile /\ sl2[s].used
    BY <1>1, <1>3
  <2>. QED
    BY <1>2, <1>3, <1>4, <2>1, FdTakes
<1>6. /\ HandlesOK(S, slots', HeldIn(slots', orphans')) /\ Shaped(slots', fdTable', apps')
      /\ Owned(slots', fdTable', apps', orphans')
  BY <1>1, <1>2, <1>4, <1>5
<1>. QED
  BY <1>6, SettleKeeps

LEMMA SlotOthers ==
    ASSUME IInv, NEW s \in Slots, NEW g, slots' = Put(slots, s, g), g.used \in BOOLEAN, s \notin Held
    PROVE  slots'[s] = g /\ \A t \in Held : slots'[t] = slots[t]
<1>1. PICK sl, fds, ap, sl2 : sl = slots /\ fds = fdTable /\ ap = apps /\ sl2 = slots'
  OBVIOUS
<1>2. Shaped(sl, fds, ap) /\ sl2 = Put(sl, s, g)
  BY <1>1, InvFacts
<1>3. sl2[s] = g /\ \A t \in Slots : t # s => sl2[t] = sl[t]
  BY <1>2, ShapedSlot
<1>. QED
  BY <1>1, <1>3, InvFacts

LEMMA NothingOpened ==
    ASSUME IInv, NEW S, VolSound(S), HandlesOK(S, slots, Held), Settle(S),
           slots' = slots, fdTable' = fdTable, apps' = apps, orphans' = orphans
    PROVE  IInv'
<1>1. /\ HandlesOK(S, slots', HeldIn(slots', orphans')) /\ Shaped(slots', fdTable', apps')
      /\ Owned(slots', fdTable', apps', orphans')
  BY InvFacts
<1>. QED
  BY <1>1, SettleKeeps

LEMMA OpenKeeps ==
    ASSUME IInv, NEW name \in DataFiles, NEW flags \in OpenFlags, Open(name, flags)
    PROVE  IInv'
<1>1. PICK free, reset : free = {f \in Fds : fdTable[f] = NoFile} /\ reset = Resets(name, flags)
  OBVIOUS
<1>2. PICK r, kept, T :
          /\ r = OpenWithFlags(name, flags)
          /\ kept = (r.slot # NoFile /\ free # {})
          /\ T = IF kept \/ r.slot = NoFile THEN r.vol ELSE f_close(r.vol, r.handle.fil)
          /\ \/ /\ Settle(T)
                /\ slots' = IF kept THEN Put(slots, r.slot, r.handle) ELSE slots
                /\ fdTable' = IF kept THEN Put(fdTable, Lowest(free), r.slot) ELSE fdTable
                /\ UNCHANGED <<apps, orphans>>
             \/ CutDuring(T, IF reset THEN {name} ELSE {})
  BY <1>1, ZenonT(40) DEF Open, Put
<1>3. name \in Names /\ name # Settings /\ VolSound(vol)
  BY StorageAssumption, InvFacts
<1>4. /\ Reopened(vol, r.vol, name, flags.trunc)
      /\ Refused(flags) => r.vol = vol /\ r.slot = NoFile
      /\ r.slot = NoFile \/ (r.slot \in Slots /\ ~slots[r.slot].used)
      /\ r.slot # NoFile =>
            \E F, want, touched : /\ r.handle = FileHandle(name, flags, F, want, touched)
                                  /\ IsOpened(r.vol, F, name, flags.trunc)
  BY <1>2, <1>3, OpenWithFlagsFacts
<1>5. \A s \in Held : ~slots[s].isDir /\ slots[s].name = name =>
          flags.acc = "r" /\ ~Writable(slots[s])
  BY DEF Open, MayOpen
<1>6. \A S : Reopened(vol, S, name, flags.trunc) /\ (Refused(flags) => S = vol) =>
          VolSound(S) /\ HandlesOK(S, slots, Held)
  <2>1. SUFFICES ASSUME NEW S, Reopened(vol, S, name, flags.trunc), Refused(flags) => S = vol
                 PROVE  VolSound(S) /\ HandlesOK(S, slots, Held)
    OBVIOUS
  <2>2. S = vol \/ \A s \in Held : ~slots[s].isDir /\ slots[s].name = name =>
                                      ~flags.trunc \/ name = Settings
    BY <1>5, <2>1 DEF Refused
  <2>. QED
    BY <1>3, <2>1, <2>2, OpenedVol
<1>7. Reopened(vol, T, name, flags.trunc) /\ (Refused(flags) => T = vol)
  <2>1. CASE kept \/ r.slot = NoFile
    BY <1>2, <1>4, <2>1
  <2>2. CASE ~(kept \/ r.slot = NoFile)
    <3>1. PICK F, want, touched : /\ r.handle = FileHandle(name, flags, F, want, touched)
                                  /\ IsOpened(r.vol, F, name, flags.trunc)
      BY <1>4, <2>2
    <3>2. r.handle.fil = F
      BY <3>1 DEF FileHandle
    <3>3. T = f_close(r.vol, F)
      BY <1>2, <2>2, <3>2
    <3>4. PICK S0, S1, truncate : S0 = vol /\ S1 = r.vol /\ truncate = flags.trunc
      OBVIOUS
    <3>5. Reopened(S0, T, name, truncate)
      BY <1>4, <3>1, <3>3, <3>4, CloseOpened
    <3>. QED
      BY <1>4, <2>2, <3>4, <3>5
  <2>. QED
    BY <2>1, <2>2
<1>8. VolSound(T) /\ HandlesOK(T, slots, Held)
  BY <1>6, <1>7
<1>9. CASE CutDuring(T, IF reset THEN {name} ELSE {})
  <2>1. PICK touched : touched = IF reset THEN {name} ELSE {}
    OBVIOUS
  <2>. QED
    BY <1>8, <1>9, <2>1, CutKeeps
<1>10. CASE /\ ~kept /\ Settle(T) /\ slots' = slots /\ fdTable' = fdTable
            /\ apps' = apps /\ orphans' = orphans
  BY <1>8, <1>10, NothingOpened
<1>11. CASE /\ kept /\ Settle(T) /\ slots' = Put(slots, r.slot, r.handle)
            /\ fdTable' = Put(fdTable, Lowest(free), r.slot)
            /\ apps' = apps /\ orphans' = orphans
  <2>1. r.slot # NoFile /\ free # {} /\ T = r.vol
    BY <1>2, <1>11
  <2>2. PICK s, g, f : s = r.slot /\ g = r.handle /\ f = Lowest(free)
    OBVIOUS
  <2>3. s \in Slots /\ ~slots[s].used
    BY <1>4, <2>1, <2>2
  <2>4. f \in Fds /\ fdTable[f] = NoFile
    <3>1. free \subseteq Nat
      BY <1>1, SlotFacts
    <3>2. f \in free
      BY <2>1, <2>2, <3>1, LowestFacts
    <3>. QED
      BY <1>1, <3>2
  <2>5. PICK F, want, touched : /\ g = FileHandle(name, flags, F, want, touched)
                                /\ IsOpened(T, F, name, flags.trunc)
    BY <1>4, <2>1, <2>2
  <2>6. PICK truncate, sl, sl2, held : /\ truncate = flags.trunc /\ sl = slots
                                       /\ sl2 = slots' /\ held = Held
    OBVIOUS
  <2>7. VolSound(T) /\ HandlesOK(T, sl, held) /\ IsOpened(T, F, name, truncate)
    BY <1>8, <2>5, <2>6
  <2>8. FileOK(T, g) /\ g.name = name /\ g.acc = flags.acc
    BY <1>3, <2>5, <2>7, OpenedHandle
  <2>9. g.used = TRUE /\ g.used \in BOOLEAN
    BY <2>8 DEF FileOK, IsHandle
  <2>10. \A t \in held : ~sl[t].isDir /\ sl[t].name = name /\ name # Settings =>
            ~Writable(g) /\ ~Writable(sl[t])
    BY <1>5, <2>6, <2>8 DEF Writable
  <2>11. ASSUME s \notin Held
         PROVE  HandlesOK(T, slots', Held \cup {s})
    <3>1. sl2[s] = g /\ \A t \in held : sl2[t] = sl[t]
      BY <1>11, <2>2, <2>3, <2>6, <2>9, <2>11, SlotOthers
    <3>2. HandlesOK(T, sl2, held \cup {s})
      BY <1>3, <2>5, <2>6, <2>7, <2>10, <2>11, <3>1, HandlesOpened
    <3>. QED
      BY <2>6, <3>2
  <2>. QED
    BY <1>8, <1>11, <2>2, <2>3, <2>4, <2>9, <2>11, FdInstalls
<1>12. kept \in BOOLEAN
  BY <1>2
<1>. QED
  BY <1>2, <1>9, <1>10, <1>11, <1>12

LEMMA OpenDirectoryKeeps ==
    ASSUME IInv, OpenDirectory
    PROVE  IInv'
<1>1. PICK free, kept, s, f, S, S0 :
          /\ free = {d \in Fds : fdTable[d] = NoFile} /\ kept = (FreeSlot # {} /\ free # {})
          /\ s = Lowest(FreeSlot) /\ f = Lowest(free) /\ S = Look(vol) /\ S0 = vol
  OBVIOUS
<1>2. /\ Settle(S)
      /\ slots' = IF kept THEN Put(slots, s, DirHandle) ELSE slots
      /\ fdTable' = IF kept THEN Put(fdTable, f, s) ELSE fdTable
      /\ apps' = apps /\ orphans' = orphans
  BY <1>1, Zenon DEF OpenDirectory, Put
<1>3. PICK sl, held : sl = slots /\ held = Held
  OBVIOUS
<1>4. VolSound(S0) /\ HandlesOK(S0, sl, held)
  BY <1>1, <1>3, InvFacts
<1>5. VolSound(S) /\ SameTables(S0, S)
  BY <1>1, <1>4, MoveSound DEF Look
<1>6. HandlesOK(S, sl, held)
  BY <1>4, <1>5, HandlesSame
<1>7. CASE ~kept
  <2>1. slots' = slots /\ fdTable' = fdTable
    BY <1>2, <1>7
  <2>. QED
    BY <1>2, <1>3, <1>5, <1>6, <2>1, NothingOpened
<1>8. CASE kept
  <2>1. s \in Slots /\ ~slots[s].used
    <3>1. FreeSlot \subseteq Nat /\ FreeSlot # {}
      BY <1>1, <1>8, SlotFacts DEF FreeSlot
    <3>2. s \in FreeSlot
      BY <1>1, <3>1, LowestFacts
    <3>. QED
      BY <3>2 DEF FreeSlot
  <2>2. f \in Fds /\ fdTable[f] = NoFile
    <3>1. free \subseteq Nat /\ free # {}
      BY <1>1, <1>8, SlotFacts
    <3>2. f \in free
      BY <1>1, <3>1, LowestFacts
    <3>. QED
      BY <1>1, <3>2
  <2>3. PICK g : g = DirHandle
    OBVIOUS
  <2>4. ListingShape(g) /\ g.pos = 0 /\ g.listed = << >>
    BY <2>3 DEF DirHandle, ListingShape
  <2>5. ListingOK(S, g)
    <3>1. Len(S.dir) \in Nat
      BY <1>5, EntryFacts DEF VolSound
    <3>2. PICK none : none = << >>
      OBVIOUS
    <3>3. g.listed = none /\ none \in Seq(Names) /\ Len(none) = 0 /\ Total(KernelLen, none) = 0
      BY <2>4, <3>2, TotalEmpty
    <3>. QED
      BY <2>4, <3>1, <3>3 DEF ListingOK
  <2>6. HandleOK(S, g) /\ g.used = TRUE /\ g.isDir = TRUE /\ g.used \in BOOLEAN
    BY <2>4, <2>5 DEF HandleOK, ListingShape
  <2>7. slots' = Put(slots, s, g) /\ fdTable' = Put(fdTable, f, s)
    BY <1>2, <1>8, <2>3
  <2>8. ASSUME s \notin Held
        PROVE  HandlesOK(S, slots', Held \cup {s})
    <3>1. PICK sl2 : sl2 = slots'
      OBVIOUS
    <3>2. sl2[s] = g /\ \A t \in held : sl2[t] = sl[t]
      BY <1>3, <2>1, <2>6, <2>7, <2>8, <3>1, SlotOthers
    <3>3. held \ {s} = held
      BY <1>3, <2>8
    <3>4. /\ HandlesOK(S, sl, held \ {s}) /\ HandleOK(S, sl2[s])
          /\ \A t \in held \ {s} : sl2[t] = sl[t]
          /\ sl2[s].isDir
      BY <1>6, <2>6, <3>2, <3>3
    <3>5. HandlesOK(S, sl2, held \cup {s})
      BY <3>4, HandlesWith
    <3>. QED
      BY <1>3, <3>1, <3>5
  <2>. QED
    BY <1>2, <1>5, <2>1, <2>2, <2>6, <2>7, <2>8, FdInstalls
<1>. QED
  BY <1>7, <1>8

LEMMA SaveOpenKeeps ==
    ASSUME IInv, NEW a \in Apps, NEW mode, SaveOpen(a, mode)
    PROVE  IInv'
<1>1. PICK name, flags : name = Settings /\ flags = SaveFlags
  OBVIOUS
<1>2. PICK r :
          /\ r = OpenWithFlags(name, flags)
          /\ \/ /\ Settle(r.vol) /\ fdTable' = fdTable /\ orphans' = orphans
                /\ slots' = IF r.slot = NoFile THEN slots ELSE Put(slots, r.slot, r.handle)
                /\ apps' = IF r.slot = NoFile THEN apps
                           ELSE Put(apps, a, [pc |-> "write", slot |-> r.slot,
                                              mode |-> mode, ok |-> FALSE])
             \/ CutDuring(r.vol, {Settings})
  BY <1>1, Zenon DEF SaveOpen, Put
<1>3. apps[a].slot = NoFile /\ IsApp(apps[a])
  BY InvFacts DEF SaveOpen, Shaped, IsApp
<1>4. name \in Names /\ VolSound(vol)
  BY <1>1, StorageAssumption, InvFacts
<1>5. flags.trunc = TRUE
  BY <1>1 DEF SaveFlags
<1>6. /\ Reopened(vol, r.vol, name, flags.trunc)
      /\ r.slot = NoFile \/ (r.slot \in Slots /\ ~slots[r.slot].used)
      /\ r.slot # NoFile =>
            \E F, want, touched : /\ r.handle = FileHandle(name, flags, F, want, touched)
                                  /\ IsOpened(r.vol, F, name, flags.trunc)
  BY <1>2, <1>4, OpenWithFlagsFacts
<1>7. PICK S : S = r.vol
  OBVIOUS
<1>8. VolSound(S) /\ HandlesOK(S, slots, Held)
  BY <1>1, <1>4, <1>6, <1>7, OpenedVol
<1>9. CASE CutDuring(r.vol, {Settings})
  <2>1. PICK touched : touched = {Settings}
    OBVIOUS
  <2>. QED
    BY <1>7, <1>8, <1>9, <2>1, CutKeeps
<1>10. CASE /\ r.slot = NoFile /\ Settle(r.vol) /\ slots' = slots /\ apps' = apps
            /\ fdTable' = fdTable /\ orphans' = orphans
  BY <1>7, <1>8, <1>10, NothingOpened
<1>11. CASE /\ r.slot # NoFile /\ Settle(r.vol) /\ fdTable' = fdTable /\ orphans' = orphans
            /\ slots' = Put(slots, r.slot, r.handle)
            /\ apps' = Put(apps, a, [pc |-> "write", slot |-> r.slot, mode |-> mode, ok |-> FALSE])
  <2>1. PICK s, g, v : /\ s = r.slot /\ g = r.handle
                       /\ v = [pc |-> "write", slot |-> s, mode |-> mode, ok |-> FALSE]
    OBVIOUS
  <2>2. PICK sl, fds, ap, orph, sl2, ap2, held, truncate :
            /\ sl = slots /\ fds = fdTable /\ ap = apps /\ orph = orphans
            /\ sl2 = slots' /\ ap2 = apps' /\ held = Held /\ truncate = flags.trunc
    OBVIOUS
  <2>3. s \in Slots /\ ~sl[s].used /\ s # NoFile
    BY <1>6, <1>11, <2>1, <2>2
  <2>4. PICK F, want, touched : /\ g = FileHandle(name, flags, F, want, touched)
                                /\ IsOpened(S, F, name, truncate)
    BY <1>6, <1>7, <1>11, <2>1, <2>2
  <2>5. VolSound(S) /\ HandlesOK(S, sl, held)
    BY <1>8, <2>2
  <2>6. FileOK(S, g) /\ g.name = name
    BY <1>5, <2>2, <2>4, <2>5, OpenedHandle
  <2>7. g.used = TRUE /\ g.isDir = FALSE /\ g.used \in BOOLEAN
    BY <2>6 DEF FileOK, IsHandle
  <2>8. IsApp(v) /\ v.slot = s
    BY <2>1, <2>3 DEF IsApp
  <2>9. Shaped(sl, fds, ap) /\ Owned(sl, fds, ap, orph) /\ held = HeldIn(sl, orph)
    BY <2>2, InvFacts
  <2>10. Shaped(sl2, fds, ap) /\ sl2[s] = g /\ \A t \in Slots : t # s => sl2[t] = sl[t]
    <3>1. sl2 = Put(sl, s, g)
      BY <1>11, <2>1, <2>2
    <3>. QED
      BY <2>3, <2>7, <2>9, <3>1, ShapedSlot
  <2>11. Shaped(sl2, fds, ap2) /\ ap2[a] = v /\ \A b \in Apps : b # a => ap2[b] = ap[b]
    <3>1. ap2 = Put(ap, a, v)
      BY <1>11, <2>1, <2>2
    <3>. QED
      BY <2>8, <2>10, <3>1, ShapedApp
  <2>12. /\ Owned(sl2, fds, ap2, orph)
         /\ HeldIn(sl2, orph) = HeldIn(sl, orph) \cup {s} /\ s \notin HeldIn(sl, orph)
    <3>1. /\ sl2[s].used /\ ~sl2[s].isDir /\ ap[a].slot = NoFile /\ ap2[a].slot = s
          /\ ~sl[s].used
      BY <1>3, <2>2, <2>3, <2>7, <2>8, <2>10, <2>11
    <3>. QED
      BY <2>3, <2>9, <2>10, <2>11, <3>1, AppTakes
  <2>13. HandlesOK(S, sl2, held \cup {s})
    <3>1. /\ s \notin held /\ sl2[s] = g /\ \A t \in held : sl2[t] = sl[t]
      BY <2>2, <2>9, <2>10, <2>12, InvFacts
    <3>2. /\ name = Settings => truncate
          /\ \A t \in held : ~sl[t].isDir /\ sl[t].name = name /\ name # Settings =>
                 ~Writable(g) /\ ~Writable(sl[t])
      BY <1>1, <1>5, <2>2
    <3>. QED
      BY <2>4, <2>5, <3>1, <3>2, HandlesOpened
  <2>14. /\ HandlesOK(S, slots', HeldIn(slots', orphans')) /\ Shaped(slots', fdTable', apps')
         /\ Owned(slots', fdTable', apps', orphans')
    BY <1>11, <2>2, <2>9, <2>11, <2>12, <2>13
  <2>15. Settle(S)
    BY <1>7, <1>11
  <2>. QED
    BY <1>8, <2>14, <2>15, SettleKeeps
<1>. QED
  BY <1>2, <1>9, <1>10, <1>11

-------------------------------------------------------------------------------
(* What the invariant says of the disk and of the handles. *)

LEMMA InitSound ==
    ASSUME Init
    PROVE  IInv
<1>1. PICK image \in InitialDisk : vol = f_mount(image)
  BY DEF Init
<1>2. ImageSound(image)
  BY StorageAssumption
<1>3. Sound(vol, slots, fdTable, apps, {})
  BY <1>1, <1>2, StartSound DEF Init
<1>. QED
  BY <1>3 DEF Init, IInv

LEMMA NextKeeps ==
    ASSUME IInv, [Next]_vars
    PROVE  IInv'
<1>1. CASE PowerCut
  BY <1>1, PowerCutKeeps
<1>2. CASE \E name \in DataFiles, flags \in OpenFlags : Open(name, flags)
  BY <1>2, OpenKeeps
<1>3. CASE OpenDirectory
  BY <1>3, OpenDirectoryKeeps
<1>4. CASE \E fd \in Fds, n \in 1 .. SectorUnits, v \in Values : Write(fd, [j \in 1 .. n |-> v])
  BY <1>4, WriteKeeps
<1>5. CASE \E fd \in Fds, n \in 1 .. SectorUnits : Read(fd, n)
  BY <1>5, ReadKeeps
<1>6. CASE \E fd \in Fds, p \in SeekTargets : Lseek(fd, p)
  BY <1>6, LseekKeeps
<1>7. CASE \E fd \in Fds : Close(fd)
  BY <1>7, CloseKeeps
<1>8. CASE \E fd \in Fds, count \in UserCounts : Getdents(fd, count)
  BY <1>8, GetdentsKeeps
<1>9. CASE Exit
  BY <1>9, ExitKeeps
<1>10. CASE \E a \in Apps, mode \in Modes : SaveOpen(a, mode)
  BY <1>10, SaveOpenKeeps
<1>11. CASE \E a \in Apps : SaveWrite(a) \/ SaveClose(a)
  BY <1>11, SaveWriteKeeps, SaveCloseKeeps
<1>12. CASE UNCHANGED vars
  BY <1>12 DEF vars, IInv
<1>13. CASE \E fd \in Fds, n \in UserCounts : ReadDirectory(fd, n)
  BY <1>13, ReadDirectoryKeeps
<1>. QED
  BY <1>1, <1>2, <1>3, <1>4, <1>5, <1>6, <1>7, <1>8, <1>9, <1>10, <1>11, <1>12, <1>13 DEF Next

\* The chain of an entry covers its size and ends.
LEMMA EntryChain ==
    ASSUME NEW fat, NEW dir, TablesSound(fat, dir), NEW i \in DOMAIN dir,
           NEW q, q = Chain(fat, dir[i].sclust)
    PROVE  /\ SectorUnits * Len(q) >= dir[i].size
           /\ q # << >> => fat[Last(q)] = EOC
<1>1. Linked(fat) /\ Covers(fat, dir[i].sclust, dir[i].size) /\ dir[i].size \in Nat
  BY EntryFacts DEF TablesSound
<1>2. PICK c : c = dir[i].sclust
  OBVIOUS
<1>3. SectorUnits * Len(q) >= dir[i].size
  <2>1. SectorUnits * Len(q) \in Nat
    BY <1>1, LengthTimes
  <2>2. dir[i].size <= SectorUnits * Len(q)
    BY <1>1 DEF Covers
  <2>. QED
    BY <1>1, <2>1, <2>2
<1>4. CASE c = 0
  BY <1>2, <1>3, <1>4, NoChain
<1>5. CASE c # 0
  <2>1. Root(fat, c)
    BY <1>1, <1>2, <1>5 DEF Covers
  <2>2. IsChain(fat, c, q)
    BY <1>1, <1>2, <2>1, ChainFacts
  <2>3. /\ q \in Seq(Clusters) /\ Len(q) >= 1 /\ fat[q[Len(q)]] # Free /\ fat[q[Len(q)]] \notin Clusters
    <3>1. q \in Seq(Clusters) /\ Len(q) >= 1 /\ Len(q) \in Nat
      BY <2>2 DEF IsChain, Walked
    <3>. QED
      BY <2>2, <3>1 DEF IsChain, Walked
  <2>4. fat[q[Len(q)]] \in Free .. EOC
    <3>1. q[Len(q)] \in Clusters
      BY <2>3
    <3>. QED
      BY <1>1, <3>1 DEF Linked
  <2>5. fat[q[Len(q)]] = EOC
    BY <2>3, <2>4, VolumeAssumption DEF Clusters, Free, EOC
  <2>. QED
    BY <1>3, <2>5 DEF Last
<1>. QED
  BY <1>4, <1>5

\* The chains of two entries have no cluster in common.
LEMMA EntriesApart ==
    ASSUME NEW fat, NEW dir, TablesSound(fat, dir), NEW i \in DOMAIN dir, NEW j \in DOMAIN dir,
           i # j, NEW q, q = Chain(fat, dir[i].sclust), NEW p, p = Chain(fat, dir[j].sclust),
           NEW k \in DOMAIN q, NEW l \in DOMAIN p
    PROVE  q[k] # p[l]
<1>1. /\ Linked(fat) /\ Covers(fat, dir[i].sclust, dir[i].size)
      /\ Covers(fat, dir[j].sclust, dir[j].size)
      /\ dir[i].sclust = 0 \/ dir[j].sclust # dir[i].sclust
  BY DEF TablesSound
<1>2. PICK c, d : c = dir[i].sclust /\ d = dir[j].sclust
  OBVIOUS
<1>3. c # 0 /\ d # 0
  BY <1>2, NoChain
<1>4. Root(fat, c) /\ Root(fat, d) /\ c # d
  BY <1>1, <1>2, <1>3 DEF Covers
<1>5. Walked(fat, c, q) /\ Walked(fat, d, p)
  BY <1>1, <1>2, <1>4, ChainFacts DEF IsChain
<1>6. k \in 1 .. Len(q) /\ l \in 1 .. Len(p)
  BY <1>5 DEF Walked
<1>. QED
  BY <1>1, <1>4, <1>5, <1>6, WalksMeet

LEMMA InvDisk ==
    ASSUME IInv
    PROVE  VolumeSound
<1>1. PICK d : d = vol.disk
  OBVIOUS
<1>2. TablesSound(d.fat, d.dir)
  BY <1>1, InvFacts DEF VolSound, ImageSound
<1>3. ASSUME NEW i \in DOMAIN d.dir
      PROVE  /\ SectorUnits * Len(Chain(d.fat, d.dir[i].sclust)) >= d.dir[i].size
             /\ Chain(d.fat, d.dir[i].sclust) # << >> =>
                    d.fat[Last(Chain(d.fat, d.dir[i].sclust))] = EOC
  BY <1>2, EntryChain
<1>4. ASSUME NEW i \in DOMAIN d.dir, NEW j \in DOMAIN d.dir, i # j
      PROVE  {Chain(d.fat, d.dir[i].sclust)[k] : k \in DOMAIN Chain(d.fat, d.dir[i].sclust)}
                \cap {Chain(d.fat, d.dir[j].sclust)[k] : k \in DOMAIN Chain(d.fat, d.dir[j].sclust)}
             = {}
  <2>1. PICK q, p : q = Chain(d.fat, d.dir[i].sclust) /\ p = Chain(d.fat, d.dir[j].sclust)
    OBVIOUS
  <2>2. \A k \in DOMAIN q, l \in DOMAIN p : q[k] # p[l]
    BY <1>2, <1>4, <2>1, EntriesApart
  <2>3. {q[k] : k \in DOMAIN q} \cap {p[k] : k \in DOMAIN p} = {}
    BY <2>2
  <2>. QED
    BY <2>1, <2>3
<1>5. \A i \in DOMAIN vol.disk.dir :
          /\ SectorUnits * Len(Chain(vol.disk.fat, vol.disk.dir[i].sclust)) >= vol.disk.dir[i].size
          /\ Chain(vol.disk.fat, vol.disk.dir[i].sclust) # << >> =>
                vol.disk.fat[Last(Chain(vol.disk.fat, vol.disk.dir[i].sclust))] = EOC
  BY <1>1, <1>3
<1>6. \A i, j \in DOMAIN vol.disk.dir : i # j =>
          {Chain(vol.disk.fat, vol.disk.dir[i].sclust)[k] :
                k \in DOMAIN Chain(vol.disk.fat, vol.disk.dir[i].sclust)}
             \cap {Chain(vol.disk.fat, vol.disk.dir[j].sclust)[k] :
                      k \in DOMAIN Chain(vol.disk.fat, vol.disk.dir[j].sclust)}
          = {}
  BY <1>1, <1>4
<1>. QED
  BY <1>5, <1>6, Zenon DEF VolumeSound

LEMMA InvTypes ==
    ASSUME IInv
    PROVE  TypeOK
<1>1. /\ vol.win \in {"clean", "fat", "dir"}
      /\ vol.log = << >>
      /\ (vol.win # "fat" => vol.fat = vol.disk.fat) /\ (vol.win # "dir" => vol.dir = vol.disk.dir)
  BY DEF IInv, Sound, VolSound
<1>2. \A s \in Slots : slots[s].used \in BOOLEAN
  BY InvFacts DEF Shaped
<1>3. \A fd \in Fds : fdTable[fd] \in Slots \union {NoFile}
  BY InvFacts DEF Owned
<1>4. orphans \subseteq Slots
  BY InvFacts DEF Owned
<1>5. \A a \in Apps : apps[a].pc \in {"idle", "write", "close"}
  BY InvFacts DEF Shaped, IsApp
<1>. QED
  BY <1>1, <1>2, <1>3, <1>4, <1>5 DEF TypeOK

\* Who has slot s.
Users(s) == {<<"fd", fd>> : fd \in {f \in Fds : fdTable[f] = s}}
            \union {<<"app", a>> : a \in {b \in Apps : apps[b].slot = s}}
            \union (IF s \in orphans THEN {<<"orphan">>} ELSE {})

LEMMA InvOwners ==
    ASSUME IInv
    PROVE  SlotsOwned
<1>1. PICK D, A : /\ D = [s \in Slots |-> {f \in Fds : fdTable[f] = s}]
                  /\ A = [s \in Slots |-> {b \in Apps : apps[b].slot = s}]
  OBVIOUS
<1>2. ASSUME NEW s \in Slots
      PROVE  IF slots[s].used THEN \E u \in Users(s) : Users(s) = {u} ELSE Users(s) = {}
  <2>1. s # NoFile
    BY SlotFacts
  <2>2. Users(s) = {<<"fd", fd>> : fd \in D[s]} \union {<<"app", a>> : a \in A[s]}
                   \union (IF s \in orphans THEN {<<"orphan">>} ELSE {})
    BY <1>1 DEF Users
  <2>3. CASE s \notin Held
    <3>1. D[s] = {} /\ A[s] = {}
      BY <1>1, <2>1, <2>3, InvFacts DEF Owned
    <3>2. slots[s].used <=> s \in orphans
      BY <2>3, InvFacts DEF Owned, HeldIn
    <3>. QED
      BY <2>2, <3>1, <3>2
  <2>4. CASE s \in Held
    <3>1. slots[s].used /\ s \notin orphans
      BY <2>4 DEF Held
    <3>2. CASE \E f \in Fds : fdTable[f] = s
      <4>1. PICK f \in Fds : fdTable[f] = s
        BY <3>2
      <4>2. D[s] = {f} /\ A[s] = {}
        BY <1>1, <2>1, <4>1, InvFacts DEF Owned
      <4>3. Users(s) = {<<"fd", f>>}
        BY <2>2, <3>1, <4>2
      <4>. QED
        BY <3>1, <4>3
    <3>3. CASE \E a \in Apps : apps[a].slot = s
      <4>1. PICK a \in Apps : apps[a].slot = s
        BY <3>3
      <4>2. D[s] = {} /\ A[s] = {a}
        BY <1>1, <2>1, <4>1, InvFacts DEF Owned
      <4>3. Users(s) = {<<"app", a>>}
        BY <2>2, <3>1, <4>2
      <4>. QED
        BY <3>1, <4>3
    <3>. QED
      BY <2>4, <3>2, <3>3, InvFacts DEF Owned
  <2>. QED
    BY <2>3, <2>4
<1>. QED
  BY <1>2, Zenon DEF SlotsOwned, Users

LEMMA InvListings ==
    ASSUME IInv
    PROVE  ListingExact
<1>1. ASSUME NEW s \in Held, slots[s].isDir
      PROVE  /\ Len(slots[s].listed) <= Len(vol.dir)
             /\ \A k \in DOMAIN slots[s].listed : slots[s].listed[k] = vol.dir[k].name
             /\ slots[s].pos = Total(KernelLen, slots[s].listed)
  <2>1. PICK h : h = slots[s]
    OBVIOUS
  <2>2. ListingOK(vol, h)
    BY <1>1, <2>1, HeldListing
  <2>3. DOMAIN h.listed = 1 .. Len(h.listed)
    BY <2>2 DEF ListingOK
  <2>. QED
    BY <2>1, <2>2, <2>3 DEF ListingOK
<1>. QED
  BY <1>1 DEF ListingExact

\* The disk is a sound volume at every moment, whatever calls were made and
\* wherever the power was cut: the chain of each entry ends, covers the size of
\* the entry and shares no cluster with another (the order in which f_open(),
\* f_write(), create_chain() and f_sync() write the sectors).
THEOREM VolumeIsSound == Spec => []VolumeSound
<1>1. Init => IInv
  BY InitSound
<1>2. IInv /\ [Next]_vars => IInv'
  BY NextKeeps
<1>3. IInv => VolumeSound
  BY InvDisk
<1>. QED
  BY <1>1, <1>2, <1>3, PTL DEF Spec

\* A slot has one owner exactly while it is used, and a directory is listed
\* without gap or repetition: no failure path of OpenWithFlags() or sys_open()
\* leaks a slot, and sys_getdents() goes back over what it did not give.
THEOREM HandlesAreSound == Spec => []HandlesSound
<1>1. Init => IInv
  BY InitSound
<1>2. IInv /\ [Next]_vars => IInv'
  BY NextKeeps
<1>3. IInv => HandlesSound
  BY InvTypes, InvOwners, InvListings DEF HandlesSound
<1>. QED
  BY <1>1, <1>2, <1>3, PTL DEF Spec
=============================================================================

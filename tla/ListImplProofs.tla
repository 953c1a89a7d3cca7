---------------------------- MODULE ListImplProofs ----------------------------
(***************************************************************************)
(* With the interrupt guard held, the pointer code of LinkedList<T> keeps  *)
(* its chain sound and implements the sequence operators of LinkedList,    *)
(* for a heap of any size and items of any kind.                           *)
(***************************************************************************)
EXTENDS ListImpl, LinkedListProofs, FiniteSetTheorems

\* Position i of the n nodes s, and the null pointer before the first and after the last.
At(n, s, i) == IF i \in 1..n THEN s[i] ELSE Null

On(n, s) == {s[i] : i \in 1..n}

\* The pointers lead from the head through the n different nodes of s to null, and the heap
\* holds them and the node in flight.
Walk(n, s) ==
    /\ \A i, j \in 1..n : s[i] = s[j] => i = j
    /\ head = At(n, s, 1)
    /\ \A i \in 1..n : next[s[i]] = At(n, s, i + 1)
    /\ alloc = On(n, s) \cup InFlight

\* What the tail and the size are at each statement: behind the chain, until the operation has
\* come to their assignment.
Ends(n, s) ==
    /\ pc \in {"idle", "add_next", "add_head", "push_link", "pop_head", "remove_scan"} =>
          size = n /\ tail = At(n, s, n)
    /\ pc \in {"add_tail", "push_tail", "grow"} => n > 0 /\ size = n - 1
    /\ pc \in {"pop_tail", "remove_tail", "delete", "shrink"} => size = n + 1
    /\ pc \in {"grow", "delete", "shrink"} => tail = At(n, s, n)
    /\ pc = "add_tail" => tail = At(n, s, IF n = 1 THEN 0 ELSE n)
    /\ pc = "push_tail" => cur = At(n, s, n)
    /\ pc = "pop_tail" /\ n > 0 => tail = At(n, s, n)
    /\ pc = "remove_tail" => At(n, s, n) = IF cur = tail THEN prev ELSE tail

\* What the thread's locals point to: a node in flight is off the chain; the scan of Remove()
\* has found no match before cur, and prev is one node behind.
Locals(n, s) ==
    /\ InFlight \subseteq Nodes \ On(n, s)
    /\ pc = "add_head" => next[cur] = head
    /\ pc = "push_link" => next[cur] = Null
    /\ pc = "pop_head" => cur = head /\ n > 0
    /\ pc = "remove_scan" =>
          \E k \in 1..(n + 1) : /\ cur = At(n, s, k) /\ prev = At(n, s, k - 1)
                                /\ \A j \in 1..(k - 1) : data[s[j]] # item

Shape(n, s) == Walk(n, s) /\ Ends(n, s) /\ Locals(n, s)

\* The inductive invariant: the state is that of a list of some nodes s.
IInv == TypeOK /\ \E n \in 0..Cardinality(Nodes) : \E s \in [1..n -> Nodes] : Shape(n, s)

\* The values along s.
Vals(n, s) == [i \in 1..n |-> data[s[i]]]

\* What one step may do to the list of values.
Effect(u, v) ==
    \/ v = u
    \/ \E x \in Items : v = Add(u, x) \/ v = PushBack(u, x) \/ v = RemoveFirsts(u, {x})
    \/ u # <<>> /\ v = Tail(u)

-------------------------------------------------------------------------------
\* The chain is empty exactly when the head is null.
LEMMA HeadNull ==
    ASSUME NEW n \in Nat, NEW s \in [1..n -> Nodes], Walk(n, s)
    PROVE  head = Null <=> n = 0
<1>1. CASE n = 0
  BY <1>1 DEF Walk, At
<1>2. CASE n # 0
  <2>1. 1 \in 1..n
    BY <1>2
  <2>. QED
    BY <1>2, <2>1, ListAssumption DEF Walk, At
<1>. QED
  BY <1>1, <1>2

\* A step that leaves the nodes of the chain, their data and their links alone.
Same(n, s) == Shape(n, s)' /\ TypeOK' /\ Vals(n, s)' = Vals(n, s)

\* new Node(x) takes a node that is not on the chain.
LEMMA AddNewStep ==
    ASSUME NEW n \in Nat, NEW s \in [1..n -> Nodes], TypeOK, Shape(n, s),
           NEW x \in Items, AddNew(x)
    PROVE  Same(n, s)
<1>1. pc = "idle" /\ pc' = "add_next"
  BY DEF AddNew, Goto
<1>2. PICK c \in Nodes \ alloc : /\ alloc' = alloc \cup {c} /\ data' = [data EXCEPT ![c] = x]
                                /\ next' = [next EXCEPT ![c] = Null] /\ cur' = c
  BY DEF AddNew, NewNode
<1>3. UNCHANGED <<head, tail, size, prev, item>>
  BY DEF AddNew, listVars
<1>4. alloc = On(n, s) /\ c \notin On(n, s)
  BY <1>1, <1>2 DEF Shape, Walk, InFlight
<1>5. \A i \in 1..n : s[i] \in Nodes /\ s[i] # c
  BY <1>4 DEF On
<1>6. \A i \in 1..n : next'[s[i]] = next[s[i]] /\ data'[s[i]] = data[s[i]]
  BY <1>2, <1>5 DEF TypeOK
<1>7. TypeOK'
  BY <1>1, <1>2, <1>3 DEF TypeOK, Labels, Pointers
<1>8. Walk(n, s)'
  BY <1>1, <1>2, <1>3, <1>4, <1>6 DEF Shape, Walk, InFlight
<1>9. Ends(n, s)'
  BY <1>1, <1>3 DEF Shape, Ends
<1>10. Locals(n, s)'
  BY <1>1, <1>2, <1>4 DEF TypeOK, Locals, InFlight
<1>11. Vals(n, s)' = Vals(n, s)
  BY <1>6 DEF Vals
<1>. QED
  BY <1>7, <1>8, <1>9, <1>10, <1>11 DEF Same, Shape

LEMMA PushNewStep ==
    ASSUME NEW n \in Nat, NEW s \in [1..n -> Nodes], TypeOK, Shape(n, s),
           NEW x \in Items, PushNew(x)
    PROVE  Same(n, s)
<1>1. pc = "idle" /\ pc' = "push_link"
  BY DEF PushNew, Goto
<1>2. PICK c \in Nodes \ alloc : /\ alloc' = alloc \cup {c} /\ data' = [data EXCEPT ![c] = x]
                                /\ next' = [next EXCEPT ![c] = Null] /\ cur' = c
  BY DEF PushNew, NewNode
<1>3. UNCHANGED <<head, tail, size, prev, item>>
  BY DEF PushNew, listVars
<1>4. alloc = On(n, s) /\ c \notin On(n, s)
  BY <1>1, <1>2 DEF Shape, Walk, InFlight
<1>5. \A i \in 1..n : s[i] \in Nodes /\ s[i] # c
  BY <1>4 DEF On
<1>6. \A i \in 1..n : next'[s[i]] = next[s[i]] /\ data'[s[i]] = data[s[i]]
  BY <1>2, <1>5 DEF TypeOK
<1>7. TypeOK'
  BY <1>1, <1>2, <1>3 DEF TypeOK, Labels, Pointers
<1>8. Walk(n, s)'
  BY <1>1, <1>2, <1>3, <1>4, <1>6 DEF Shape, Walk, InFlight
<1>9. Ends(n, s)'
  BY <1>1, <1>3 DEF Shape, Ends
<1>10. Locals(n, s)'
  BY <1>1, <1>2, <1>4 DEF TypeOK, Locals, InFlight
<1>11. Vals(n, s)' = Vals(n, s)
  BY <1>6 DEF Vals
<1>. QED
  BY <1>7, <1>8, <1>9, <1>10, <1>11 DEF Same, Shape

\* The other steps that leave the chain alone move the thread's locals, the tail or the size, or
\* set the link of the node in flight.
LEMMA AddNextStep ==
    ASSUME NEW n \in Nat, NEW s \in [1..n -> Nodes], TypeOK, Shape(n, s), AddNext
    PROVE  Same(n, s)
<1>1. /\ pc = "add_next" /\ pc' = "add_head"
      /\ next' = [next EXCEPT ![cur] = head]
      /\ UNCHANGED <<alloc, data, head, tail, size, cur, prev, item>>
  BY DEF AddNext, Goto, listVars
<1>2. cur \in Nodes /\ cur \notin On(n, s)
  BY <1>1 DEF Shape, Locals, InFlight
<1>3. \A i \in 1..n : s[i] \in Nodes /\ next'[s[i]] = next[s[i]]
  BY <1>1, <1>2 DEF On, TypeOK
<1>4. TypeOK'
  BY <1>1, <1>2 DEF TypeOK, Labels, Pointers
<1>5. Walk(n, s)'
  BY <1>1, <1>3 DEF Shape, Walk, InFlight
<1>6. Ends(n, s)'
  BY <1>1 DEF Shape, Ends
<1>7. Locals(n, s)'
  BY <1>1, <1>2 DEF TypeOK, Locals, InFlight
<1>. QED
  BY <1>1, <1>4, <1>5, <1>6, <1>7 DEF Same, Shape, Vals

LEMMA AddTailStep ==
    ASSUME NEW n \in Nat, NEW s \in [1..n -> Nodes], TypeOK, Shape(n, s), AddTail
    PROVE  Same(n, s)
<1>1. /\ pc = "add_tail" /\ pc' = "grow"
      /\ tail' = IF tail = Null THEN head ELSE tail
      /\ UNCHANGED <<alloc, data, next, head, size, cur, prev, item>>
  BY DEF AddTail, Goto
<1>2. n > 0 /\ size = n - 1 /\ tail = At(n, s, IF n = 1 THEN 0 ELSE n) /\ head = At(n, s, 1)
  BY <1>1 DEF Shape, Ends, Walk
<1>3. tail' = At(n, s, n)
  BY <1>1, <1>2, ListAssumption DEF At
<1>4. TypeOK'
  BY <1>1 DEF TypeOK, Labels
<1>5. Walk(n, s)'
  BY <1>1 DEF Shape, Walk, InFlight
<1>6. Ends(n, s)' /\ Locals(n, s)'
  BY <1>1, <1>2, <1>3 DEF Ends, Locals, InFlight
<1>. QED
  BY <1>1, <1>4, <1>5, <1>6 DEF Same, Shape, Vals

LEMMA PushTailStep ==
    ASSUME NEW n \in Nat, NEW s \in [1..n -> Nodes], TypeOK, Shape(n, s), PushTail
    PROVE  Same(n, s)
<1>1. /\ pc = "push_tail" /\ pc' = "grow" /\ tail' = cur
      /\ UNCHANGED <<alloc, data, next, head, size, cur, prev, item>>
  BY DEF PushTail, Goto
<1>2. TypeOK'
  BY <1>1 DEF TypeOK, Labels
<1>3. Walk(n, s)'
  BY <1>1 DEF Shape, Walk, InFlight
<1>4. Ends(n, s)' /\ Locals(n, s)'
  BY <1>1 DEF Shape, Ends, Locals, InFlight
<1>. QED
  BY <1>1, <1>2, <1>3, <1>4 DEF Same, Shape, Vals

LEMMA GrowStep ==
    ASSUME NEW n \in Nat, NEW s \in [1..n -> Nodes], TypeOK, Shape(n, s), Grow
    PROVE  Same(n, s)
<1>1. /\ pc = "grow" /\ pc' = "idle" /\ size' = size + 1
      /\ UNCHANGED <<alloc, data, next, head, tail, cur, prev, item>>
  BY DEF Grow, Goto
<1>2. TypeOK'
  BY <1>1 DEF TypeOK, Labels
<1>3. Walk(n, s)'
  BY <1>1 DEF Shape, Walk, InFlight
<1>4. Ends(n, s)' /\ Locals(n, s)'
  BY <1>1 DEF Shape, Ends, Locals, InFlight
<1>. QED
  BY <1>1, <1>2, <1>3, <1>4 DEF Same, Shape, Vals

LEMMA PopTempStep ==
    ASSUME NEW n \in Nat, NEW s \in [1..n -> Nodes], TypeOK, Shape(n, s), PopTemp
    PROVE  Same(n, s)
<1>1. /\ pc = "idle" /\ pc' = "pop_head" /\ cur' = head /\ head # Null
      /\ UNCHANGED <<alloc, data, next, head, tail, size, prev, item>>
  BY DEF PopTemp, Goto, listVars
<1>2. n > 0
  BY <1>1, HeadNull DEF Shape
<1>3. TypeOK'
  BY <1>1 DEF TypeOK, Labels
<1>4. Walk(n, s)'
  BY <1>1 DEF Shape, Walk, InFlight
<1>5. Ends(n, s)' /\ Locals(n, s)'
  BY <1>1, <1>2 DEF Shape, Ends, Locals, InFlight
<1>. QED
  BY <1>1, <1>3, <1>4, <1>5 DEF Same, Shape, Vals

LEMMA PopTailStep ==
    ASSUME NEW n \in Nat, NEW s \in [1..n -> Nodes], TypeOK, Shape(n, s), PopTail
    PROVE  Same(n, s)
<1>1. /\ pc = "pop_tail" /\ pc' = "delete" /\ tail' = IF head = Null THEN Null ELSE tail
      /\ UNCHANGED <<alloc, data, next, head, size, cur, prev, item>>
  BY DEF PopTail, Goto
<1>2. tail' = At(n, s, n)
  BY <1>1, HeadNull DEF Shape, Ends, At
<1>3. TypeOK'
  BY <1>1 DEF TypeOK, Labels, Pointers
<1>4. Walk(n, s)'
  BY <1>1 DEF Shape, Walk, InFlight
<1>5. Ends(n, s)' /\ Locals(n, s)'
  BY <1>1, <1>2 DEF Shape, Ends, Locals, InFlight
<1>. QED
  BY <1>1, <1>3, <1>4, <1>5 DEF Same, Shape, Vals

LEMMA RemoveStartStep ==
    ASSUME NEW n \in Nat, NEW s \in [1..n -> Nodes], TypeOK, Shape(n, s),
           NEW x \in Items, RemoveStart(x)
    PROVE  Same(n, s)
<1>1. /\ pc = "idle" /\ pc' = "remove_scan" /\ cur' = head /\ prev' = Null /\ item' = x
      /\ UNCHANGED <<alloc, data, next, head, tail, size>>
  BY DEF RemoveStart, Goto, listVars
<1>2. TypeOK'
  BY <1>1 DEF TypeOK, Labels, Pointers
<1>3. Walk(n, s)'
  BY <1>1 DEF Shape, Walk, InFlight
<1>4. Ends(n, s)'
  BY <1>1 DEF Shape, Ends
<1>5. Locals(n, s)'
  <2>1. /\ 1 \in 1..(n + 1) /\ cur' = At(n, s, 1) /\ prev' = At(n, s, 1 - 1)
        /\ \A j \in 1..(1 - 1) : data'[s[j]] # item'
    BY <1>1 DEF Shape, Walk, At
  <2>. QED
    BY <1>1, <2>1 DEF Locals, InFlight
<1>. QED
  BY <1>1, <1>2, <1>3, <1>4, <1>5 DEF Same, Shape, Vals

LEMMA RemoveStepStep ==
    ASSUME NEW n \in Nat, NEW s \in [1..n -> Nodes], TypeOK, Shape(n, s), RemoveStep
    PROVE  Same(n, s)
<1>1. /\ pc = "remove_scan" /\ cur # Null /\ data[cur] # item /\ prev' = cur /\ cur' = next[cur]
      /\ UNCHANGED <<alloc, data, next, head, tail, size, pc, item>>
  BY DEF RemoveStep, listVars
<1>2. PICK k \in 1..(n + 1) : /\ cur = At(n, s, k) /\ \A j \in 1..(k - 1) : data[s[j]] # item
  BY <1>1 DEF Shape, Locals
<1>3. k \in 1..n /\ cur = s[k]
  BY <1>1, <1>2 DEF At
<1>4. TypeOK'
  BY <1>1, <1>3 DEF TypeOK
<1>5. Walk(n, s)' /\ Ends(n, s)'
  BY <1>1 DEF Shape, Walk, Ends, InFlight
<1>6. Locals(n, s)'
  <2>1. k + 1 \in 1..(n + 1) /\ k + 1 - 1 = k
    BY <1>3
  <2>2. cur' = At(n, s, k + 1) /\ prev' = At(n, s, k)
    BY <1>1, <1>2, <1>3 DEF Shape, Walk
  <2>3. \A j \in 1..k : data'[s[j]] # item'
    BY <1>1, <1>2, <1>3
  <2>. QED
    BY <1>1, <2>1, <2>2, <2>3 DEF Locals, InFlight
<1>. QED
  BY <1>1, <1>4, <1>5, <1>6 DEF Same, Shape, Vals

LEMMA RemoveNoneStep ==
    ASSUME NEW n \in Nat, NEW s \in [1..n -> Nodes], TypeOK, Shape(n, s), RemoveNone
    PROVE  Same(n, s)
<1>1. /\ pc = "remove_scan" /\ pc' = "idle"
      /\ UNCHANGED <<alloc, data, next, head, tail, size, cur, prev, item>>
  BY DEF RemoveNone, Goto, listVars
<1>2. TypeOK'
  BY <1>1 DEF TypeOK, Labels
<1>3. Walk(n, s)' /\ Ends(n, s)' /\ Locals(n, s)'
  BY <1>1 DEF Shape, Walk, Ends, Locals, InFlight
<1>. QED
  BY <1>1, <1>2, <1>3 DEF Same, Shape, Vals

LEMMA RemoveTailStep ==
    ASSUME NEW n \in Nat, NEW s \in [1..n -> Nodes], TypeOK, Shape(n, s), RemoveTail
    PROVE  Same(n, s)
<1>1. /\ pc = "remove_tail" /\ pc' = "delete" /\ tail' = IF cur = tail THEN prev ELSE tail
      /\ UNCHANGED <<alloc, data, next, head, size, cur, prev, item>>
  BY DEF RemoveTail, Goto
<1>2. TypeOK'
  BY <1>1 DEF TypeOK, Labels
<1>3. Walk(n, s)'
  BY <1>1 DEF Shape, Walk, InFlight
<1>4. Ends(n, s)' /\ Locals(n, s)'
  BY <1>1 DEF Shape, Ends, Locals, InFlight
<1>. QED
  BY <1>1, <1>2, <1>3, <1>4 DEF Same, Shape, Vals

LEMMA DeleteStep ==
    ASSUME NEW n \in Nat, NEW s \in [1..n -> Nodes], TypeOK, Shape(n, s), Delete
    PROVE  Same(n, s)
<1>1. /\ pc = "delete" /\ pc' = "shrink" /\ alloc' = alloc \ {cur}
      /\ UNCHANGED <<data, next, head, tail, size, cur, prev, item>>
  BY DEF Delete, Goto, listVars
<1>2. alloc = On(n, s) \cup {cur} /\ cur \notin On(n, s)
  BY <1>1 DEF Shape, Walk, Locals, InFlight
<1>3. TypeOK'
  BY <1>1 DEF TypeOK, Labels
<1>4. Walk(n, s)'
  BY <1>1, <1>2 DEF Shape, Walk, InFlight
<1>5. Ends(n, s)' /\ Locals(n, s)'
  BY <1>1 DEF Shape, Ends, Locals, InFlight
<1>. QED
  BY <1>1, <1>3, <1>4, <1>5 DEF Same, Shape, Vals

LEMMA ShrinkStep ==
    ASSUME NEW n \in Nat, NEW s \in [1..n -> Nodes], TypeOK, Shape(n, s), Shrink
    PROVE  Same(n, s)
<1>1. /\ pc = "shrink" /\ pc' = "idle" /\ size' = size - 1 /\ size = n + 1
      /\ UNCHANGED <<alloc, data, next, head, tail, cur, prev, item>>
  BY DEF Shrink, Goto, Shape, Ends
<1>2. TypeOK'
  BY <1>1 DEF TypeOK, Labels
<1>3. Walk(n, s)'
  BY <1>1 DEF Shape, Walk, InFlight
<1>4. Ends(n, s)' /\ Locals(n, s)'
  BY <1>1 DEF Shape, Ends, Locals, InFlight
<1>. QED
  BY <1>1, <1>2, <1>3, <1>4 DEF Same, Shape, Vals

-------------------------------------------------------------------------------
\* Two lists of values are one of the operators apart when they are so position by position.
LEMMA AddIs ==
    ASSUME NEW n \in Nat, NEW u \in [1..n -> Items], NEW x \in Items, NEW v,
           v = [i \in 1..(n + 1) |-> IF i = 1 THEN x ELSE u[i - 1]]
    PROVE  v = Add(u, x)
<1>. DEFINE w == <<x>> \o u
<1>1. u \in Seq(Items) /\ Len(u) = n /\ <<x>> \in Seq(Items) /\ Len(<<x>>) = 1
  OBVIOUS
<1>2. /\ w \in Seq(Items) /\ Len(w) = n + 1
      /\ w[1] = x /\ \A i \in 1..n : w[i + 1] = u[i]
  BY <1>1
<1>3. DOMAIN w = 1..(n + 1) /\ w = [i \in 1..(n + 1) |-> w[i]]
  BY <1>2
<1>4. \A i \in 1..(n + 1) : i # 1 => i - 1 \in 1..n /\ w[(i - 1) + 1] = u[i - 1] /\ (i - 1) + 1 = i
  BY <1>2
<1>. HIDE DEF w
<1>5. \A i \in 1..(n + 1) : w[i] = v[i]
  BY <1>2, <1>4
<1>6. w = v
  BY <1>3, <1>5
<1>. QED
  BY <1>6 DEF w, Add

LEMMA PushBackIs ==
    ASSUME NEW n \in Nat, NEW u \in [1..n -> Items], NEW x \in Items, NEW v,
           v = [i \in 1..(n + 1) |-> IF i = n + 1 THEN x ELSE u[i]]
    PROVE  v = PushBack(u, x)
<1>. DEFINE w == Append(u, x)
<1>1. u \in Seq(Items) /\ Len(u) = n
  OBVIOUS
<1>2. /\ w \in Seq(Items) /\ Len(w) = n + 1
      /\ w[n + 1] = x /\ \A i \in 1..n : w[i] = u[i]
  BY <1>1
<1>. HIDE DEF w
<1>3. DOMAIN w = 1..(n + 1) /\ w = [i \in 1..(n + 1) |-> w[i]]
  BY <1>2
<1>4. \A i \in 1..(n + 1) : w[i] = v[i]
  BY <1>2
<1>5. w = v
  BY <1>3, <1>4
<1>. QED
  BY <1>5 DEF w, PushBack

LEMMA TailIs ==
    ASSUME NEW n \in Nat, n > 0, NEW u \in [1..n -> Items], NEW v,
           v = [i \in 1..(n - 1) |-> u[i + 1]]
    PROVE  u # <<>> /\ v = Tail(u)
<1>. DEFINE w == Tail(u)
<1>1. u \in Seq(Items) /\ Len(u) = n /\ u # <<>>
  OBVIOUS
<1>2. w \in Seq(Items) /\ Len(w) = n - 1 /\ \A i \in 1..(n - 1) : w[i] = u[i + 1]
  BY <1>1
<1>. HIDE DEF w
<1>3. DOMAIN w = 1..(n - 1) /\ w = [i \in 1..(n - 1) |-> w[i]]
  BY <1>2
<1>4. w = v
  BY <1>2, <1>3
<1>. QED
  BY <1>1, <1>4 DEF w

\* Removing the first k values that hold x, when k is the first position that does: one pass
\* that leaves out position k.
LEMMA RemoveIs ==
    ASSUME NEW n \in Nat, NEW u \in [1..n -> Items], NEW k \in 1..n,
           NEW v \in [1..(n - 1) -> Items],
           \A j \in 1..(k - 1) : u[j] # u[k],
           \A i \in 1..(n - 1) : v[i] = IF i < k THEN u[i] ELSE u[i + 1]
    PROVE  v = RemoveFirsts(u, {u[k]})
<1>. DEFINE P == {i \in DOMAIN u : ~ (u[i] \in {u[k]} /\ FirstAt(u, i))}
<1>1. u \in Seq(Items) /\ Len(u) = n /\ DOMAIN u = 1..n
  OBVIOUS
<1>2. \A i \in 1..n : i \in P <=> i # k
  <2>1. FirstAt(u, k)
    BY DEF FirstAt
  <2>2. ASSUME NEW i \in 1..n, u[i] = u[k], FirstAt(u, i) PROVE i = k
    <3>1. ~(i < k)
      BY <2>2
    <3>2. ~(k < i)
      BY <2>2 DEF FirstAt
    <3>. QED
      BY <3>1, <3>2
  <2>. QED
    BY <1>1, <2>1, <2>2
<1>. HIDE DEF P
<1>3. PICK f : IsPass(u, P, f, n) /\ SubSeqAt(u, P) = f[n]
  BY <1>1, SubSeqAtIsPass
<1>. DEFINE Len0(m) == IF m < k THEN m ELSE m - 1
            At0(i) == IF i < k THEN u[i] ELSE u[i + 1]
            Good(m) == f[m] = [i \in 1..Len0(m) |-> At0(i)]
            T == {m \in 0..n : ~ Good(m)}
<1>4. \A m \in 0..n : Good(m)
  <2>. SUFFICES ASSUME T # {} PROVE FALSE
    OBVIOUS
  <2>1. PICK m \in T : \A l \in T : m <= l
    <3>1. T \subseteq Nat
      BY DEF T
    <3>. HIDE DEF T
    <3>. QED
      BY <3>1, LeastNat
  <2>2. m # 0
    <3>1. f[0] = <<>>
      BY <1>3 DEF IsPass
    <3>2. Good(0)
      BY <3>1
    <3>. QED
      BY <2>1, <3>2
  <2>3. m \in 1..n /\ m - 1 \in 0..n /\ m - 1 \notin T
    <3>1. m \in 0..n
      BY <2>1
    <3>. HIDE DEF T
    <3>. QED
      BY <2>1, <2>2, <3>1
  <2>4. f[m - 1] = [i \in 1..Len0(m - 1) |-> At0(i)]
    BY <2>3
  <2>5. f[m] = IF m # k THEN Append(f[m - 1], u[m]) ELSE f[m - 1]
    BY <1>2, <1>3, <2>3 DEF IsPass, Pass
  <2>6. CASE m = k
    <3>1. Len0(m) = Len0(m - 1)
      BY <2>3, <2>6
    <3>. QED
      BY <2>1, <2>4, <2>5, <2>6, <3>1
  <2>7. CASE m # k
    <3>. DEFINE l == Len0(m - 1)
                r == [i \in 1..l |-> At0(i)]
    <3>1. l \in Nat /\ Len0(m) = l + 1 /\ At0(l + 1) = u[m]
      BY <2>3, <2>7
    <3>2. \A i \in 1..l : At0(i) \in Items
      BY <2>3
    <3>3. r \in Seq(Items) /\ Len(r) = l /\ \A i \in 1..l : r[i] = At0(i)
      BY <3>1, <3>2
    <3>4. u[m] \in Items
      BY <2>3
    <3>. DEFINE a == Append(r, u[m])
    <3>5. /\ a \in Seq(Items) /\ Len(a) = l + 1 /\ a[l + 1] = u[m]
          /\ \A i \in 1..l : a[i] = r[i]
      <4>. HIDE DEF r, l
      <4>. QED
        BY <3>1, <3>3, <3>4
    <3>6. DOMAIN a = 1..(l + 1) /\ a = [i \in 1..(l + 1) |-> a[i]]
      <4>. HIDE DEF a, l
      <4>. QED
        BY <3>1, <3>5
    <3>7. \A i \in 1..(l + 1) : a[i] = At0(i)
      <4>. HIDE DEF a, l, r, At0
      <4>. SUFFICES ASSUME NEW i \in 1..(l + 1) PROVE a[i] = At0(i)
        OBVIOUS
      <4>1. CASE i = l + 1
        BY <3>1, <3>5, <4>1
      <4>2. CASE i # l + 1
        <5>1. i \in 1..l
          BY <3>1, <4>2
        <5>. QED
          BY <3>3, <3>5, <5>1
      <4>. QED
        BY <4>1, <4>2
    <3>8. a = [i \in 1..(l + 1) |-> At0(i)]
      <4>. HIDE DEF a, l, r, At0
      <4>. QED
        BY <3>6, <3>7
    <3>9. f[m] = a
      BY <2>4, <2>5, <2>7
    <3>10. Good(m)
      <4>. HIDE DEF a, l, r, At0, Len0
      <4>. QED
        BY <3>1, <3>8, <3>9
    <3>. QED
      BY <2>1, <3>10
  <2>. QED
    BY <2>6, <2>7
<1>5. f[n] = [i \in 1..(n - 1) |-> At0(i)]
  <2>1. n \in 0..n /\ Len0(n) = n - 1
    OBVIOUS
  <2>. HIDE DEF At0
  <2>. QED
    BY <1>4, <2>1
<1>6. v = f[n]
  <2>1. v = [i \in 1..(n - 1) |-> v[i]]
    OBVIOUS
  <2>2. \A i \in 1..(n - 1) : v[i] = At0(i)
    OBVIOUS
  <2>. HIDE DEF At0
  <2>. QED
    BY <1>5, <2>1, <2>2
<1>. QED
  BY <1>3, <1>6 DEF RemoveFirsts, P

-------------------------------------------------------------------------------
\* A step that turns the chain s into the chain t.
Becomes(n, s, m, t) ==
    t \in [1..m -> Nodes] /\ Shape(m, t)' /\ TypeOK' /\ Effect(Vals(n, s), Vals(m, t)')

\* head = newNode: the node in flight becomes the first of the chain.
LEMMA AddHeadStep ==
    ASSUME NEW n \in Nat, NEW s \in [1..n -> Nodes], TypeOK, Shape(n, s), AddHead
    PROVE  \E t : Becomes(n, s, n + 1, t)
<1>1. /\ pc = "add_head" /\ pc' = "add_tail" /\ head' = cur
      /\ UNCHANGED <<alloc, data, next, tail, size, cur, prev, item>>
  BY DEF AddHead, Goto
<1>2. /\ cur \in Nodes /\ cur \notin On(n, s) /\ next[cur] = head
      /\ size = n /\ tail = At(n, s, n) /\ alloc = On(n, s) \cup {cur}
  BY <1>1 DEF Shape, Locals, Ends, Walk, InFlight
<1>. DEFINE m == n + 1
<1>0. PICK t : t = [i \in 1..m |-> IF i = 1 THEN cur ELSE s[i - 1]]
  OBVIOUS
<1>3. \A i \in 1..m : i # 1 => i - 1 \in 1..n /\ t[i] = s[i - 1]
  BY <1>0
<1>4. t[1] = cur /\ m \in Nat /\ m > 0 /\ 1 \in 1..m /\ \A i \in 1..n : i + 1 \in 1..m /\ t[i + 1] = s[i]
  BY <1>0
<1>5. t \in [1..m -> Nodes]
  BY <1>0, <1>2, <1>3
<1>6. \A i \in 1..n : s[i] # cur
  BY <1>2 DEF On
<1>7. Vals(m, t)' = [i \in 1..(n + 1) |-> IF i = 1 THEN data[cur] ELSE Vals(n, s)[i - 1]]
  BY <1>1, <1>3, <1>4 DEF Vals
<1>8. Vals(n, s) \in [1..n -> Items] /\ data[cur] \in Items
  BY <1>2 DEF Vals, TypeOK
<1>9. Effect(Vals(n, s), Vals(m, t)')
  <2>. DEFINE u == Vals(n, s)
              v == Vals(m, t)'
  <2>1. v = [i \in 1..(n + 1) |-> IF i = 1 THEN data[cur] ELSE u[i - 1]]
    BY <1>7
  <2>2. u \in [1..n -> Items] /\ data[cur] \in Items
    BY <1>8
  <2>. HIDE DEF u, v
  <2>3. v = Add(u, data[cur])
    BY <2>1, <2>2, AddIs
  <2>4. Effect(u, v)
    BY <2>2, <2>3 DEF Effect
  <2>. QED
    BY <2>4 DEF u, v
<1>10. TypeOK'
  BY <1>1 DEF TypeOK, Labels
<1>. HIDE DEF m
<1>11. On(m, t) = On(n, s) \cup {cur}
  BY <1>3, <1>4 DEF On
<1>12. Walk(m, t)'
  <2>1. ASSUME NEW i \in 1..m, NEW j \in 1..m, t[i] = t[j] PROVE i = j
    <3>1. CASE i # 1 /\ j # 1
      <4>1. i - 1 = j - 1
        BY <1>3, <2>1, <3>1 DEF Shape, Walk
      <4>. QED
        BY <1>4, <4>1
    <3>. QED
      BY <1>3, <1>4, <1>6, <2>1, <3>1
  <2>2. head' = At(m, t, 1)
    BY <1>1, <1>4 DEF At
  <2>3. ASSUME NEW i \in 1..m PROVE next[t[i]] = At(m, t, i + 1)
    <3>1. CASE i = 1
      <4>1. head = At(m, t, 2)
        <5>1. head = At(n, s, 1)
          BY DEF Shape, Walk
        <5>2. 2 \in 1..m <=> 1 \in 1..n
          BY DEF m
        <5>3. 1 \in 1..n => t[2] = s[1]
          BY <1>4
        <5>. QED
          BY <5>1, <5>2, <5>3 DEF At
      <4>. QED
        BY <1>2, <1>4, <3>1, <4>1
    <3>2. CASE i # 1
      <4>1. next[s[i - 1]] = At(n, s, i)
        <5>1. i - 1 + 1 = i
          OBVIOUS
        <5>. QED
          BY <1>3, <3>2, <5>1 DEF Shape, Walk
      <4>2. i \in 1..n <=> i + 1 \in 1..m
        BY DEF m
      <4>3. i \in 1..n => t[i + 1] = s[i]
        BY <1>4
      <4>. QED
        BY <1>3, <3>2, <4>1, <4>2, <4>3 DEF At
    <3>. QED
      BY <3>1, <3>2
  <2>. QED
    BY <1>1, <1>2, <1>11, <2>1, <2>2, <2>3 DEF Walk, InFlight
<1>13. Ends(m, t)'
  <2>1. tail = At(m, t, IF m = 1 THEN 0 ELSE m)
    <3>1. CASE n = 0
      BY <1>2, <3>1 DEF At, m
    <3>2. CASE n # 0
      <4>1. n \in 1..n /\ t[n + 1] = s[n]
        BY <1>4, <3>2
      <4>. QED
        BY <1>2, <1>4, <3>2, <4>1 DEF At, m
    <3>. QED
      BY <3>1, <3>2
  <2>. QED
    BY <1>1, <1>2, <2>1 DEF Ends, m
<1>14. Locals(m, t)'
  BY <1>1 DEF Locals, InFlight
<1>. QED
  BY <1>5, <1>9, <1>10, <1>12, <1>13, <1>14 DEF Becomes, Shape, m

\* The chain of a list without a tail is empty.
LEMMA TailNull ==
    ASSUME NEW n \in Nat, NEW s \in [1..n -> Nodes], tail = At(n, s, n)
    PROVE  tail = Null <=> n = 0
<1>1. CASE n = 0
  BY <1>1 DEF At
<1>2. CASE n # 0
  <2>1. n \in 1..n
    BY <1>2
  <2>. QED
    BY <1>2, <2>1, ListAssumption DEF At
<1>. QED
  BY <1>1, <1>2

\* PushBack() links the node in flight behind the last of the chain.
LEMMA PushLinkStep ==
    ASSUME NEW n \in Nat, NEW s \in [1..n -> Nodes], TypeOK, Shape(n, s), PushLink
    PROVE  \E t : Becomes(n, s, n + 1, t)
<1>1. /\ pc = "push_link" /\ pc' \in {"grow", "push_tail"}
      /\ UNCHANGED <<alloc, data, size, cur, prev, item>>
  BY DEF PushLink, Goto
<1>2. /\ cur \in Nodes /\ cur \notin On(n, s) /\ next[cur] = Null
      /\ size = n /\ tail = At(n, s, n) /\ alloc = On(n, s) \cup {cur}
      /\ head = At(n, s, 1)
  BY <1>1 DEF Shape, Locals, Ends, Walk, InFlight
<1>3. IF n = 0
      THEN head' = cur /\ tail' = cur /\ pc' = "grow" /\ next' = next
      ELSE next' = [next EXCEPT ![s[n]] = cur] /\ pc' = "push_tail" /\ head' = head /\ tail' = tail
  <2>1. tail = Null <=> n = 0
    BY <1>2, TailNull
  <2>2. n # 0 => tail = s[n]
    BY <1>2 DEF At
  <2>. QED
    BY <2>1, <2>2 DEF PushLink, Goto
<1>. DEFINE m == n + 1
<1>4. PICK t : t = [i \in 1..m |-> IF i = m THEN cur ELSE s[i]]
  OBVIOUS
<1>5. \A i \in 1..m : i # m => i \in 1..n /\ t[i] = s[i]
  BY <1>4
<1>6. /\ t[m] = cur /\ m \in Nat /\ m > 0 /\ m \in 1..m /\ 1 \in 1..m
      /\ \A i \in 1..n : i \in 1..m /\ i # m /\ t[i] = s[i]
  BY <1>4
<1>7. t \in [1..m -> Nodes]
  BY <1>2, <1>4, <1>5
<1>8. \A i \in 1..n : s[i] # cur /\ s[i] \in Nodes
  BY <1>2 DEF On
<1>9. Effect(Vals(n, s), Vals(m, t)')
  <2>. DEFINE u == Vals(n, s)
              v == Vals(m, t)'
  <2>1. v = [i \in 1..(n + 1) |-> IF i = n + 1 THEN data[cur] ELSE u[i]]
    BY <1>1, <1>5, <1>6 DEF Vals
  <2>2. u \in [1..n -> Items] /\ data[cur] \in Items
    BY <1>2 DEF Vals, TypeOK
  <2>. HIDE DEF u, v
  <2>3. v = PushBack(u, data[cur])
    BY <2>1, <2>2, PushBackIs
  <2>4. Effect(u, v)
    BY <2>2, <2>3 DEF Effect
  <2>. QED
    BY <2>4 DEF u, v
<1>10. TypeOK'
  <2>1. n # 0 => s[n] \in Nodes
    BY <1>8
  <2>. QED
    BY <1>1, <1>2, <1>3, <2>1 DEF TypeOK, Labels, Pointers
<1>. HIDE DEF m
<1>11. On(m, t) = On(n, s) \cup {cur}
  BY <1>5, <1>6 DEF On
<1>12. /\ \A i \in 1..n : i # n => next'[s[i]] = next[s[i]]
       /\ n # 0 => next'[s[n]] = cur
       /\ next'[cur] = Null
  <2>1. CASE n = 0
    BY <1>2, <1>3, <2>1
  <2>2. CASE n # 0
    <3>1. n \in 1..n /\ next' = [next EXCEPT ![s[n]] = cur] /\ next \in [Nodes -> Pointers]
      BY <1>3, <2>2 DEF TypeOK
    <3>2. \A i \in 1..n : i # n => s[i] # s[n]
      BY <3>1 DEF Shape, Walk
    <3>. QED
      BY <1>2, <1>8, <3>1, <3>2
  <2>. QED
    BY <2>1, <2>2
<1>13. Walk(m, t)'
  <2>1. ASSUME NEW i \in 1..m, NEW j \in 1..m, t[i] = t[j] PROVE i = j
    BY <1>5, <1>6, <1>8, <2>1 DEF Shape, Walk
  <2>2. head' = At(m, t, 1)
    <3>1. CASE n = 0
      BY <1>3, <1>6, <3>1 DEF At, m
    <3>2. CASE n # 0
      <4>1. 1 \in 1..n
        BY <3>2
      <4>. QED
        BY <1>2, <1>3, <1>6, <3>2, <4>1 DEF At
    <3>. QED
      BY <3>1, <3>2
  <2>3. ASSUME NEW i \in 1..m PROVE next'[t[i]] = At(m, t, i + 1)
    <3>1. CASE i = m
      <4>1. ~(i + 1 \in 1..m)
        BY <3>1 DEF m
      <4>. QED
        BY <1>6, <1>12, <3>1, <4>1 DEF At
    <3>2. CASE i # m /\ i = n
      <4>1. i + 1 = m /\ n # 0
        BY <1>5, <3>2 DEF m
      <4>. QED
        BY <1>5, <1>6, <1>12, <3>2, <4>1 DEF At
    <3>3. CASE i # m /\ i # n
      <4>1. i \in 1..n /\ i + 1 \in 1..n
        BY <1>5, <3>3
      <4>2. next[s[i]] = s[i + 1]
        BY <4>1 DEF Shape, Walk, At
      <4>. QED
        BY <1>5, <1>6, <1>12, <3>3, <4>1, <4>2 DEF At
    <3>. QED
      BY <3>1, <3>2, <3>3
  <2>. QED
    BY <1>1, <1>2, <1>3, <1>11, <2>1, <2>2, <2>3 DEF Walk, InFlight
<1>14. Ends(m, t)'
  <2>1. cur = At(m, t, m)
    BY <1>6 DEF At
  <2>. QED
    BY <1>1, <1>2, <1>3, <2>1 DEF Ends, m
<1>15. Locals(m, t)'
  BY <1>1 DEF Locals, InFlight
<1>. QED
  BY <1>7, <1>9, <1>10, <1>13, <1>14, <1>15 DEF Becomes, Shape, m

\* The chain behind the first node.
LEMMA BehindHead ==
    ASSUME NEW n \in Nat, n > 0, NEW s \in [1..n -> Nodes], TypeOK, Walk(n, s),
           UNCHANGED <<data, next>>, head' = next[head]
    PROVE  \E t \in [1..(n - 1) -> Nodes] :
              /\ head = s[1] /\ s[1] \in Nodes /\ s[1] \notin On(n - 1, t)
              /\ On(n, s) = On(n - 1, t) \cup {s[1]}
              /\ \A i, j \in 1..(n - 1) : t[i] = t[j] => i = j
              /\ head' = At(n - 1, t, 1)
              /\ \A i \in 1..(n - 1) : next'[t[i]] = At(n - 1, t, i + 1)
              /\ n > 1 => At(n - 1, t, n - 1) = At(n, s, n)
              /\ Effect(Vals(n, s), Vals(n - 1, t)')
<1>. DEFINE m == n - 1
<1>1. PICK t : t = [i \in 1..m |-> s[i + 1]]
  OBVIOUS
<1>2. m \in Nat /\ 1 \in 1..n /\ \A i \in 1..m : i + 1 \in 1..n /\ i + 1 # 1 /\ t[i] = s[i + 1]
  BY <1>1
<1>3. \A i \in 1..n : i # 1 => i - 1 \in 1..m /\ t[i - 1] = s[i]
  BY <1>1
<1>4. t \in [1..m -> Nodes]
  BY <1>1, <1>2
<1>5. Effect(Vals(n, s), Vals(m, t)')
  <2>. DEFINE u == Vals(n, s)
              v == Vals(m, t)'
  <2>1. v = [i \in 1..(n - 1) |-> u[i + 1]]
    BY <1>2 DEF Vals
  <2>2. u \in [1..n -> Items]
    BY DEF Vals, TypeOK
  <2>. HIDE DEF u, v
  <2>3. u # <<>> /\ v = Tail(u)
    BY <2>1, <2>2, TailIs
  <2>4. Effect(u, v)
    BY <2>3 DEF Effect
  <2>. QED
    BY <2>4 DEF u, v
<1>6. n > 1 => At(m, t, m) = At(n, s, n)
  <2>1. n > 1 => m \in 1..m /\ n \in 1..n /\ t[m] = s[n]
    BY <1>1
  <2>. QED
    BY <2>1 DEF At
<1>7. \A i \in 1..m : At(n, s, i + 1 + 1) = At(m, t, i + 1)
  <2>. SUFFICES ASSUME NEW i \in 1..m PROVE At(n, s, i + 1 + 1) = At(m, t, i + 1)
    OBVIOUS
  <2>1. i + 1 + 1 \in 1..n <=> i + 1 \in 1..m
    OBVIOUS
  <2>2. i + 1 \in 1..m => t[i + 1] = s[i + 1 + 1]
    BY <1>2
  <2>. QED
    BY <2>1, <2>2 DEF At
<1>8. At(n, s, 2) = At(m, t, 1)
  <2>1. (2 \in 1..n <=> 1 \in 1..m) /\ 1 + 1 = 2
    OBVIOUS
  <2>. QED
    BY <1>2, <2>1 DEF At
<1>. HIDE DEF m
<1>9. head = s[1] /\ s[1] \in Nodes
  BY <1>2 DEF Walk, At
<1>10. head' = At(m, t, 1)
  <2>1. next[s[1]] = At(n, s, 1 + 1) /\ 1 + 1 = 2
    BY <1>2 DEF Walk
  <2>. QED
    BY <1>8, <1>9, <2>1
<1>11. s[1] \notin On(m, t)
  BY <1>2 DEF On, Walk
<1>12. On(n, s) = On(m, t) \cup {s[1]}
  BY <1>2, <1>3 DEF On
<1>13. ASSUME NEW i \in 1..m, NEW j \in 1..m, t[i] = t[j] PROVE i = j
  <2>1. i + 1 = j + 1
    BY <1>2, <1>13 DEF Walk
  <2>. QED
    BY <1>2, <2>1
<1>14. ASSUME NEW i \in 1..m PROVE next'[t[i]] = At(m, t, i + 1)
  <2>1. next[s[i + 1]] = At(n, s, i + 1 + 1)
    BY <1>2 DEF Walk
  <2>. QED
    BY <1>2, <1>7, <2>1
<1>. QED
  BY <1>4, <1>5, <1>6, <1>9, <1>10, <1>11, <1>12, <1>13, <1>14 DEF m

\* PopFront(): head = head->next.
LEMMA PopHeadStep ==
    ASSUME NEW n \in Nat, NEW s \in [1..n -> Nodes], TypeOK, Shape(n, s), PopHead
    PROVE  n > 0 /\ \E t : Becomes(n, s, n - 1, t)
<1>1. /\ pc = "pop_head" /\ pc' = "pop_tail" /\ head' = next[head]
      /\ UNCHANGED <<alloc, data, next, tail, size, cur, prev, item>>
  BY DEF PopHead, Goto
<1>2. /\ n > 0 /\ cur = head /\ size = n /\ tail = At(n, s, n) /\ alloc = On(n, s)
      /\ n - 1 \in Nat
  BY <1>1 DEF Shape, Locals, Ends, Walk, InFlight
<1>. DEFINE m == n - 1
<1>3. PICK t \in [1..m -> Nodes] :
              /\ head = s[1] /\ s[1] \in Nodes /\ s[1] \notin On(m, t)
              /\ On(n, s) = On(m, t) \cup {s[1]}
              /\ \A i, j \in 1..m : t[i] = t[j] => i = j
              /\ head' = At(m, t, 1)
              /\ \A i \in 1..m : next'[t[i]] = At(m, t, i + 1)
              /\ n > 1 => At(m, t, m) = At(n, s, n)
              /\ Effect(Vals(n, s), Vals(m, t)')
  BY <1>1, <1>2, BehindHead DEF Shape
<1>4. m \in Nat /\ n = m + 1
  BY <1>2
<1>. HIDE DEF m
<1>5. Walk(m, t)'
  BY <1>1, <1>2, <1>3 DEF Walk, InFlight
<1>6. Ends(m, t)'
  BY <1>1, <1>2, <1>3, <1>4 DEF Ends
<1>7. Locals(m, t)'
  BY <1>1, <1>2, <1>3 DEF Locals, InFlight
<1>8. TypeOK'
  BY <1>1, <1>3 DEF TypeOK, Labels
<1>. QED
  BY <1>2, <1>3, <1>5, <1>6, <1>7, <1>8 DEF Becomes, Shape, m

\* The GET syscall pops the list in one step, between two operations of the thread.
LEMMA HandleEventGetStep ==
    ASSUME Guarded, NEW n \in Nat, NEW s \in [1..n -> Nodes], TypeOK, Shape(n, s), HandleEventGet
    PROVE  n > 0 /\ \E t : Becomes(n, s, n - 1, t)
<1>1. /\ pc = "idle" /\ size > 0 /\ head' = next[head] /\ alloc' = alloc \ {head}
      /\ tail' = (IF next[head] = Null THEN Null ELSE tail) /\ size' = size - 1
      /\ UNCHANGED <<data, next, pc, cur, prev, item>>
  BY DEF HandleEventGet
<1>2. /\ n > 0 /\ size = n /\ tail = At(n, s, n) /\ alloc = On(n, s)
      /\ n - 1 \in Nat
  BY <1>1 DEF Shape, Ends, Walk, InFlight
<1>. DEFINE m == n - 1
<1>3. PICK t \in [1..m -> Nodes] :
              /\ head = s[1] /\ s[1] \in Nodes /\ s[1] \notin On(m, t)
              /\ On(n, s) = On(m, t) \cup {s[1]}
              /\ \A i, j \in 1..m : t[i] = t[j] => i = j
              /\ head' = At(m, t, 1)
              /\ \A i \in 1..m : next'[t[i]] = At(m, t, i + 1)
              /\ n > 1 => At(m, t, m) = At(n, s, n)
              /\ Effect(Vals(n, s), Vals(m, t)')
  BY <1>1, <1>2, BehindHead DEF Shape
<1>4. m \in Nat /\ n = m + 1
  BY <1>2
<1>. HIDE DEF m
<1>5. Walk(m, t)'
  BY <1>1, <1>2, <1>3 DEF Walk, InFlight
<1>6. tail' = At(m, t, m)
  <2>1. CASE m = 0
    <3>1. At(m, t, 1) = Null /\ At(m, t, m) = Null
      BY <2>1 DEF At
    <3>. QED
      BY <1>1, <1>3, <3>1
  <2>2. CASE m # 0
    <3>1. 1 \in 1..m
      BY <1>4, <2>2
    <3>2. head' # Null
      BY <1>3, <3>1, ListAssumption DEF At
    <3>. QED
      BY <1>1, <1>2, <1>3, <1>4, <2>2, <3>2
  <2>. QED
    BY <2>1, <2>2
<1>7. Ends(m, t)' /\ Locals(m, t)'
  BY <1>1, <1>2, <1>4, <1>6 DEF Ends, Locals, InFlight
<1>8. TypeOK'
  BY <1>1, <1>2, <1>3 DEF TypeOK, Pointers
<1>. QED
  BY <1>2, <1>3, <1>5, <1>7, <1>8 DEF Becomes, Shape, m

\* Remove() unlinks the first node that matches, from its predecessor or from the head.
LEMMA RemoveUnlinkStep ==
    ASSUME NEW n \in Nat, NEW s \in [1..n -> Nodes], TypeOK, Shape(n, s), RemoveUnlink
    PROVE  n > 0 /\ \E t : Becomes(n, s, n - 1, t)
<1>1. /\ pc = "remove_scan" /\ pc' = "remove_tail" /\ cur # Null /\ data[cur] = item
      /\ IF prev = Null THEN head' = next[cur] /\ next' = next
                        ELSE next' = [next EXCEPT ![prev] = next[cur]] /\ head' = head
      /\ UNCHANGED <<alloc, data, tail, size, cur, prev, item>>
  BY DEF RemoveUnlink, Goto
<1>2. PICK k \in 1..(n + 1) : /\ cur = At(n, s, k) /\ prev = At(n, s, k - 1)
                              /\ \A j \in 1..(k - 1) : data[s[j]] # item
  BY <1>1 DEF Shape, Locals
<1>3. k \in 1..n /\ cur = s[k] /\ cur \in Nodes
  BY <1>1, <1>2 DEF At
<1>4. /\ n > 0 /\ n - 1 \in Nat /\ size = n /\ tail = At(n, s, n) /\ alloc = On(n, s)
      /\ head = At(n, s, 1)
  BY <1>1, <1>3 DEF Shape, Ends, Walk, InFlight
<1>. DEFINE m == n - 1
<1>5. PICK t : t = [i \in 1..m |-> IF i < k THEN s[i] ELSE s[i + 1]]
  OBVIOUS
<1>6. \A i \in 1..m : /\ i < k => i \in 1..n /\ t[i] = s[i]
                      /\ ~(i < k) => i + 1 \in 1..n /\ i + 1 # k /\ t[i] = s[i + 1]
  BY <1>5
<1>7. \A i \in 1..n : /\ i < k => i \in 1..m /\ t[i] = s[i]
                      /\ i > k => i - 1 \in 1..m /\ t[i - 1] = s[i]
  <2>. SUFFICES ASSUME NEW i \in 1..n
                PROVE  /\ i < k => i \in 1..m /\ t[i] = s[i]
                       /\ i > k => i - 1 \in 1..m /\ t[i - 1] = s[i]
    OBVIOUS
  <2>1. i < k => i \in 1..m /\ t[i] = s[i]
    BY <1>3, <1>5
  <2>2. ASSUME i > k PROVE i - 1 \in 1..m /\ t[i - 1] = s[i]
    <3>1. i - 1 \in 1..m /\ ~(i - 1 < k) /\ i - 1 + 1 = i
      BY <1>3, <2>2
    <3>. QED
      BY <1>6, <3>1
  <2>. QED
    BY <2>1, <2>2
<1>8. t \in [1..m -> Nodes]
  BY <1>5, <1>6
<1>9. Effect(Vals(n, s), Vals(m, t)')
  <2>. DEFINE u == Vals(n, s)
              v == Vals(m, t)'
  <2>1. \A i \in 1..(n - 1) : v[i] = IF i < k THEN u[i] ELSE u[i + 1]
    BY <1>1, <1>6 DEF Vals
  <2>2. u \in [1..n -> Items] /\ v \in [1..(n - 1) -> Items]
    BY <1>1, <1>8 DEF Vals, TypeOK
  <2>3. u[k] = item /\ item \in Items /\ \A j \in 1..(k - 1) : u[j] # u[k]
    BY <1>1, <1>2, <1>3 DEF Vals, TypeOK
  <2>. HIDE DEF u, v
  <2>4. v = RemoveFirsts(u, {u[k]})
    <3>. HIDE DEF m
    <3>1. n \in Nat /\ k \in 1..n /\ \A j \in 1..(k - 1) : u[j] # u[k]
      BY <1>3, <2>3
    <3>. QED
      BY ONLY <2>1, <2>2, <3>1, RemoveIs
  <2>5. Effect(u, v)
    BY <2>3, <2>4 DEF Effect
  <2>. QED
    BY <2>5 DEF u, v
<1>10. k = 1 <=> prev = Null
  <2>1. k # 1 => k - 1 \in 1..n
    BY <1>3
  <2>2. ~(1 - 1 \in 1..n)
    OBVIOUS
  <2>. QED
    BY <1>2, <2>1, <2>2, ListAssumption DEF At
<1>11. k # 1 => k - 1 \in 1..n /\ prev = s[k - 1]
  BY <1>2, <1>3 DEF At
<1>12. /\ k = 1 => head' = next[cur] /\ next' = next
       /\ k # 1 => head' = head /\ next' = [next EXCEPT ![s[k - 1]] = next[cur]]
  BY <1>1, <1>10, <1>11
<1>13. \A i \in 1..n : s[i] \in Nodes /\ next[s[i]] = At(n, s, i + 1)
  BY DEF Shape, Walk
<1>14. \A i, j \in 1..n : s[i] = s[j] => i = j
  BY DEF Shape, Walk
<1>15. next[cur] = At(m, t, k)
  <2>1. k + 1 \in 1..n <=> k \in 1..m
    BY <1>3
  <2>2. k \in 1..m => t[k] = s[k + 1]
    BY <1>6
  <2>. QED
    BY <1>3, <1>13, <2>1, <2>2 DEF At
<1>16. /\ \A i \in 1..n : i # k - 1 => next'[s[i]] = next[s[i]]
       /\ k # 1 => next'[s[k - 1]] = At(m, t, k)
  <2>1. CASE k = 1
    BY <1>12, <2>1
  <2>2. CASE k # 1
    <3>1. next \in [Nodes -> Pointers] /\ next' = [next EXCEPT ![s[k - 1]] = next[cur]]
      BY <1>12, <2>2 DEF TypeOK
    <3>2. k - 1 \in 1..n
      BY <1>11, <2>2
    <3>. QED
      BY <1>13, <1>14, <1>15, <3>1, <3>2
  <2>. QED
    BY <2>1, <2>2
<1>17. m \in Nat /\ n = m + 1
  BY <1>4
<1>18. k \in Nat /\ k > 0
  BY <1>3
<1>. HIDE DEF m
<1>19. On(n, s) = On(m, t) \cup {cur}
  <2>1. On(m, t) \subseteq On(n, s)
    BY <1>6 DEF On
  <2>2. \A i \in 1..n : i = k \/ s[i] \in On(m, t)
    <3>1. \A i \in 1..n : i = k \/ i < k \/ i > k
      BY <1>18
    <3>. QED
      BY <1>7, <3>1 DEF On
  <2>. QED
    BY <1>3, <2>1, <2>2 DEF On
<1>20. cur \notin On(m, t)
  <2>1. \A i \in 1..m : t[i] # s[k]
    <3>. SUFFICES ASSUME NEW i \in 1..m PROVE t[i] # s[k]
      OBVIOUS
    <3>1. CASE i < k
      BY <1>3, <1>6, <1>14, <3>1
    <3>2. CASE ~(i < k)
      BY <1>3, <1>6, <1>14, <3>2
    <3>. QED
      BY <3>1, <3>2
  <2>. QED
    BY <1>3, <2>1 DEF On
<1>21. head' = At(m, t, 1)
  <2>1. CASE k = 1
    BY <1>12, <1>15, <2>1
  <2>2. CASE k # 1
    <3>1. 1 < k /\ 1 \in 1..n
      BY <1>3, <2>2
    <3>. QED
      BY <1>4, <1>7, <1>12, <2>2, <3>1 DEF At
  <2>. QED
    BY <2>1, <2>2
<1>22. ASSUME NEW i \in 1..m PROVE next'[t[i]] = At(m, t, i + 1)
  <2>1. CASE i < k /\ i # k - 1
    <3>1. i + 1 < k /\ i + 1 \in 1..n
      BY <1>3, <2>1
    <3>2. next[s[i]] = s[i + 1] /\ t[i] = s[i]
      BY <1>6, <1>13, <2>1, <3>1 DEF At
    <3>3. i + 1 \in 1..m /\ t[i + 1] = s[i + 1]
      BY <1>7, <3>1
    <3>. QED
      BY <1>6, <1>16, <2>1, <3>2, <3>3 DEF At
  <2>2. CASE i = k - 1
    <3>1. i < k /\ k # 1 /\ i + 1 = k
      BY <1>18, <2>2
    <3>. QED
      BY <1>6, <1>16, <2>2, <3>1
  <2>3. CASE ~(i < k)
    <3>1. i + 1 \in 1..n /\ i + 1 # k - 1 /\ t[i] = s[i + 1]
      BY <1>6, <1>18, <2>3
    <3>2. next'[t[i]] = At(n, s, i + 1 + 1)
      BY <1>13, <1>16, <3>1
    <3>3. i + 1 + 1 \in 1..n <=> i + 1 \in 1..m
      BY <1>17
    <3>4. i + 1 \in 1..m => t[i + 1] = s[i + 1 + 1]
      BY <1>6, <1>18, <2>3
    <3>. QED
      BY <3>2, <3>3, <3>4 DEF At
  <2>. QED
    BY <2>1, <2>2, <2>3
<1>23. ASSUME NEW i \in 1..m, NEW j \in 1..m, t[i] = t[j] PROVE i = j
  <2>1. CASE i < k /\ j < k
    BY <1>6, <1>14, <1>23, <2>1
  <2>2. CASE ~(i < k) /\ ~(j < k)
    <3>1. i + 1 = j + 1
      BY <1>6, <1>14, <1>23, <2>2
    <3>. QED
      BY <3>1
  <2>3. CASE i < k /\ ~(j < k)
    <3>1. i = j + 1
      BY <1>6, <1>14, <1>23, <2>3
    <3>. QED
      BY <1>18, <2>3, <3>1
  <2>4. CASE ~(i < k) /\ j < k
    <3>1. i + 1 = j
      BY <1>6, <1>14, <1>23, <2>4
    <3>. QED
      BY <1>18, <2>4, <3>1
  <2>. QED
    BY <2>1, <2>2, <2>3, <2>4
<1>24. Walk(m, t)'
  BY <1>1, <1>4, <1>19, <1>21, <1>22, <1>23 DEF Walk, InFlight
<1>25. At(m, t, m) = IF cur = tail THEN prev ELSE tail
  <2>1. n \in 1..n /\ tail = s[n] /\ (cur = tail <=> k = n)
    BY <1>3, <1>4, <1>14 DEF At
  <2>2. CASE k = n
    <3>1. k - 1 = m /\ (m \in 1..m <=> m \in 1..n)
      BY <1>17, <2>2
    <3>2. m \in 1..m => t[m] = s[m]
      BY <1>6, <1>17, <2>2
    <3>. QED
      BY <1>2, <2>1, <2>2, <3>1, <3>2 DEF At
  <2>3. CASE k # n
    <3>1. n > k
      BY <1>3, <2>3
    <3>2. n - 1 = m
      BY <1>17
    <3>. QED
      BY <1>7, <2>1, <2>3, <3>1, <3>2 DEF At
  <2>. QED
    BY <2>2, <2>3
<1>26. Ends(m, t)'
  BY <1>1, <1>4, <1>17, <1>25 DEF Ends
<1>27. Locals(m, t)'
  BY <1>1, <1>3, <1>20 DEF Locals, InFlight
<1>28. TypeOK'
  <2>1. next[cur] \in Pointers /\ (k # 1 => s[k - 1] \in Nodes)
    BY <1>3, <1>11, <1>13 DEF TypeOK
  <2>. QED
    BY <1>1, <1>12, <2>1 DEF TypeOK, Labels
<1>. QED
  BY <1>4, <1>8, <1>9, <1>24, <1>26, <1>27, <1>28 DEF Becomes, Shape, m

-------------------------------------------------------------------------------
\* A chain without repeats is no longer than the heap.
LEMMA Bounded ==
    ASSUME NEW n \in Nat, NEW s \in [1..n -> Nodes], \A i, j \in 1..n : s[i] = s[j] => i = j
    PROVE  n \in 0..Cardinality(Nodes)
<1>1. IsFiniteSet(Nodes) /\ Cardinality(Nodes) \in Nat
  BY ListAssumption, FS_CardinalityType
<1>2. IsFiniteSet(1..n) /\ Cardinality(1..n) = n
  <2>1. 1 \in Int /\ n \in Int /\ (1 > n <=> n = 0)
    OBVIOUS
  <2>2. IsFiniteSet(1..n) /\ Cardinality(1..n) = IF 1 > n THEN 0 ELSE n - 1 + 1
    BY <2>1, FS_Interval
  <2>. QED
    BY <2>1, <2>2
<1>3. ~(Cardinality(Nodes) < n)
  <2>. SUFFICES ASSUME Cardinality(Nodes) < n PROVE FALSE
    OBVIOUS
  <2>1. \E i, j \in 1..n : i # j /\ s[i] = s[j]
    BY <1>1, <1>2, FS_PigeonHole
  <2>. QED
    BY <2>1
<1>. QED
  BY <1>1, <1>3

LEMMA InitIInv == Init => IInv
<1>. SUFFICES ASSUME Init PROVE IInv
  OBVIOUS
<1>1. TypeOK
  BY DEF Init, TypeOK, Labels, Pointers
<1>. DEFINE s == [i \in 1..0 |-> Null]
<1>2. s \in [1..0 -> Nodes]
  OBVIOUS
<1>3. Shape(0, s)
  BY DEF Init, Shape, Walk, Ends, Locals, InFlight, At, On
<1>4. 0 \in 0..Cardinality(Nodes)
  BY ListAssumption, FS_CardinalityType
<1>. QED
  BY <1>1, <1>2, <1>3, <1>4 DEF IInv

\* Every step leads from a chain to a chain, by one of the operators.
LEMMA NextStep ==
    ASSUME Guarded, NEW n \in Nat, NEW s \in [1..n -> Nodes], TypeOK, Shape(n, s), [Next]_vars
    PROVE  \E m \in Nat : \E t : Becomes(n, s, m, t)
<1>1. ASSUME Same(n, s) PROVE Becomes(n, s, n, s)
  BY <1>1 DEF Same, Becomes, Effect
<1>2. ASSUME NEW x \in Items, AddNew(x) \/ PushNew(x) \/ RemoveStart(x) PROVE Same(n, s)
  BY <1>2, AddNewStep, PushNewStep, RemoveStartStep
<1>3. ASSUME AddNext \/ AddTail \/ PushTail \/ Grow \/ PopTemp \/ PopTail PROVE Same(n, s)
  BY <1>3, AddNextStep, AddTailStep, PushTailStep, GrowStep, PopTempStep, PopTailStep
<1>4. ASSUME RemoveStep \/ RemoveNone \/ RemoveTail \/ Delete \/ Shrink PROVE Same(n, s)
  BY <1>4, RemoveStepStep, RemoveNoneStep, RemoveTailStep, DeleteStep, ShrinkStep
<1>5. CASE AddHead \/ PushLink
  <2>1. \E t : Becomes(n, s, n + 1, t)
    BY <1>5, AddHeadStep, PushLinkStep
  <2>2. n + 1 \in Nat
    OBVIOUS
  <2>. QED
    BY <2>1, <2>2
<1>6. CASE PopHead \/ RemoveUnlink \/ HandleEventGet
  <2>1. n > 0 /\ \E t : Becomes(n, s, n - 1, t)
    BY <1>6, PopHeadStep, RemoveUnlinkStep, HandleEventGetStep
  <2>2. n - 1 \in Nat
    BY <2>1
  <2>. QED
    BY <2>1, <2>2
<1>7. ASSUME UNCHANGED vars PROVE Same(n, s)
  BY <1>7 DEF vars, listVars, Same, Shape, Walk, Ends, Locals, InFlight, Vals, TypeOK
<1>. QED
  BY <1>1, <1>2, <1>3, <1>4, <1>5, <1>6, <1>7 DEF Next

LEMMA NextIInv ==
    ASSUME Guarded, IInv, [Next]_vars
    PROVE  IInv'
<1>1. PICK n \in 0..Cardinality(Nodes) : \E s \in [1..n -> Nodes] : Shape(n, s)
  BY DEF IInv
<1>2. PICK s \in [1..n -> Nodes] : Shape(n, s)
  BY <1>1
<1>3. n \in Nat /\ TypeOK
  BY DEF IInv
<1>4. PICK m \in Nat : \E t : Becomes(n, s, m, t)
  BY <1>2, <1>3, NextStep
<1>4a. PICK t : Becomes(n, s, m, t)
  BY <1>4
<1>5. t \in [1..m -> Nodes] /\ Shape(m, t)' /\ TypeOK'
  BY <1>4, <1>4a DEF Becomes
<1>6. m \in 0..Cardinality(Nodes)
  <2>1. \A i, j \in 1..m : t[i] = t[j] => i = j
    BY <1>5 DEF Shape, Walk
  <2>. QED
    BY <1>5, <2>1, Bounded
<1>. QED
  BY <1>5, <1>6 DEF IInv

-------------------------------------------------------------------------------
\* What the recursive definitions of ListImpl say of a chain.
ChainIs(n, s) ==
    /\ \A i \in 0..Cardinality(Nodes) : Nth[i] = At(n, s, i + 1)
    /\ Linear /\ Length = n
    /\ Chain = On(n, s)
    /\ Contents = Vals(n, s)

WalksAreChains ==
    \A n \in 0..Cardinality(Nodes) : \A s \in [1..n -> Nodes] : Walk(n, s) => ChainIs(n, s)

\* Nth follows the pointers from the head: it visits the nodes of the walk, and no others.
LEMMA NthIs ==
    ASSUME NEW n \in 0..Cardinality(Nodes), NEW s \in [1..n -> Nodes], Walk(n, s)
    PROVE  \A i \in 0..Cardinality(Nodes) : Nth[i] = At(n, s, i + 1)
<1>. DEFINE C == Cardinality(Nodes)
            Body(f) == [i \in 0..C |-> IF i = 0 THEN head
                                       ELSE IF f[i-1] = Null THEN Null ELSE next[f[i-1]]]
            c == CHOOSE f : f = Body(f)
            g == [i \in 0..C |-> At(n, s, i + 1)]
<1>1. C \in Nat
  BY ListAssumption, FS_CardinalityType
<1>2. Nth = c
  BY DEF Nth
<1>3. ASSUME NEW i \in 0..C, i # 0
      PROVE  At(n, s, i + 1) = IF At(n, s, i) = Null THEN Null ELSE next[At(n, s, i)]
  <2>1. CASE i \in 1..n
    <3>1. At(n, s, i) = s[i] /\ s[i] # Null /\ next[s[i]] = At(n, s, i + 1)
      BY <2>1, ListAssumption DEF At, Walk
    <3>. QED
      BY <3>1
  <2>2. CASE i \notin 1..n
    <3>1. i + 1 \notin 1..n
      BY <1>1, <1>3, <2>2
    <3>. QED
      BY <2>2, <3>1 DEF At
  <2>. QED
    BY <2>1, <2>2
<1>4. g = Body(g)
  <2>. SUFFICES ASSUME NEW i \in 0..C PROVE g[i] = Body(g)[i]
    OBVIOUS
  <2>1. CASE i = 0
    BY <1>1, <2>1 DEF Walk
  <2>2. CASE i # 0
    <3>1. i - 1 \in 0..C /\ i - 1 + 1 = i
      BY <1>1, <2>2
    <3>2. g[i - 1] = At(n, s, i)
      BY <3>1
    <3>. QED
      BY <1>3, <2>2, <3>2
  <2>. QED
    BY <2>1, <2>2
<1>5. c = Body(c)
  BY <1>4
<1>6. /\ c[0] = head
      /\ \A i \in 0..C : i # 0 => c[i] = IF c[i-1] = Null THEN Null ELSE next[c[i-1]]
  <2>. HIDE DEF c
  <2>1. \A i \in 0..C : c[i] = Body(c)[i]
    BY <1>5
  <2>. QED
    BY <1>1, <2>1
<1>. HIDE DEF c, Body, g
<1>. DEFINE T == {i \in 0..C : c[i] # At(n, s, i + 1)}
<1>7. T = {}
  <2>. SUFFICES ASSUME T # {} PROVE FALSE
    OBVIOUS
  <2>1. PICK m \in T : \A k \in T : m <= k
    <3>1. T \subseteq Nat
      BY <1>1 DEF T
    <3>. HIDE DEF T
    <3>. QED
      BY <3>1, LeastNat
  <2>2. m # 0
    BY <1>1, <1>6, <2>1 DEF Walk
  <2>3. m \in 0..C /\ m - 1 \in 0..C /\ m - 1 \notin T
    <3>1. m \in 0..C
      BY <2>1
    <3>. HIDE DEF T
    <3>. QED
      BY <1>1, <2>1, <2>2, <3>1
  <2>4. c[m - 1] = At(n, s, m - 1 + 1) /\ m - 1 + 1 = m
    BY <1>1, <2>3
  <2>5. c[m] = At(n, s, m + 1)
    BY <1>3, <1>6, <2>2, <2>3, <2>4
  <2>. QED
    BY <2>1, <2>5
<1>. QED
  BY <1>2, <1>7

LEMMA WalkIsChain == WalksAreChains
<1>. SUFFICES ASSUME NEW n \in 0..Cardinality(Nodes), NEW s \in [1..n -> Nodes], Walk(n, s)
              PROVE  ChainIs(n, s)
  BY DEF WalksAreChains
<1>. DEFINE C == Cardinality(Nodes)
<1>1. C \in Nat /\ n \in Nat /\ n <= C
  BY ListAssumption, FS_CardinalityType
<1>2. \A i \in 0..C : Nth[i] = At(n, s, i + 1)
  BY NthIs
<1>3. \A i \in 1..n : s[i] \in Nodes /\ s[i] # Null
  BY ListAssumption
<1>4. \A i \in 0..C : i \in 0..(n - 1) => Nth[i] = s[i + 1] /\ Nth[i] # Null
  <2>. SUFFICES ASSUME NEW i \in 0..(n - 1) PROVE Nth[i] = s[i + 1] /\ Nth[i] # Null
    OBVIOUS
  <2>1. i \in 0..C /\ i + 1 \in 1..n
    BY <1>1
  <2>. QED
    BY <1>2, <1>3, <2>1 DEF At
<1>5. \A i \in 0..C : i >= n => Nth[i] = Null
  <2>. SUFFICES ASSUME NEW i \in 0..C, i >= n PROVE Nth[i] = Null
    OBVIOUS
  <2>1. i + 1 \notin 1..n
    BY <1>1
  <2>. QED
    BY <1>2, <2>1 DEF At
<1>6. IsLength(n)
  <2>1. n \in 0..C /\ n >= n /\ \A i \in 0..(n - 1) : i \in 0..C
    BY <1>1
  <2>. QED
    BY <1>4, <1>5, <2>1 DEF IsLength
<1>7. \A m \in 0..C : IsLength(m) => m = n
  <2>. SUFFICES ASSUME NEW m \in 0..C, IsLength(m) PROVE m = n
    OBVIOUS
  <2>1. ~(m < n)
    <3>1. m < n => m \in 0..(n - 1)
      BY <1>1
    <3>. QED
      BY <1>4, <3>1 DEF IsLength
  <2>2. ~(n < m)
    <3>1. n < m => n \in 0..(m - 1) /\ n \in 0..C /\ n >= n
      BY <1>1
    <3>. QED
      BY <1>5, <3>1 DEF IsLength
  <2>. QED
    BY <1>1, <2>1, <2>2
<1>8. Length = n
  <2>1. \E l \in 0..C : IsLength(l)
    BY <1>6
  <2>2. Length \in 0..C /\ IsLength(Length)
    BY <2>1 DEF Length
  <2>. QED
    BY <1>7, <2>2
<1>9. Linear
  BY <1>6 DEF Linear
<1>10. Chain = On(n, s)
  <2>1. ASSUME NEW i \in 0..C, Nth[i] # Null PROVE Nth[i] \in On(n, s)
    <3>1. i + 1 \in 1..n /\ Nth[i] = s[i + 1]
      BY <1>2, <2>1 DEF At
    <3>. QED
      BY <3>1 DEF On
  <2>2. ASSUME NEW i \in 1..n PROVE s[i] \in Chain
    <3>1. i - 1 \in 0..C /\ i - 1 \in 0..(n - 1) /\ i - 1 + 1 = i
      BY <1>1
    <3>2. s[i] = Nth[i - 1] /\ s[i] # Null
      BY <1>3, <1>4, <3>1
    <3>. QED
      BY <3>1, <3>2 DEF Chain
  <2>. QED
    BY <2>1, <2>2 DEF Chain, On
<1>11. Contents = Vals(n, s)
  <2>1. ASSUME NEW i \in 1..n PROVE Nth[i - 1] = s[i]
    <3>1. i - 1 \in 0..C /\ i - 1 \in 0..(n - 1) /\ i - 1 + 1 = i
      BY <1>1
    <3>. QED
      BY <1>4, <3>1
  <2>. QED
    BY <1>8, <2>1 DEF Contents, Vals
<1>. QED
  BY <1>2, <1>8, <1>9, <1>10, <1>11 DEF ChainIs

LEMMA SoundInIInv == IInv => ChainSound
<1>. SUFFICES ASSUME IInv PROVE ChainSound
  OBVIOUS
<1>1. PICK n \in 0..Cardinality(Nodes) : \E s \in [1..n -> Nodes] : Shape(n, s)
  BY DEF IInv
<1>2. PICK s \in [1..n -> Nodes] : Shape(n, s)
  BY <1>1
<1>3. ChainIs(n, s)
  BY <1>2, WalkIsChain DEF WalksAreChains, Shape
<1>4. NodesAccountedFor
  BY <1>2, <1>3 DEF NodesAccountedFor, ChainIs, Shape, Walk
<1>5. ASSUME pc = "idle" PROVE tail = IF Length = 0 THEN Null ELSE Nth[Length - 1]
  <2>1. tail = At(n, s, n) /\ Length = n /\ n \in Nat
    BY <1>2, <1>3, <1>5 DEF Shape, Ends, ChainIs
  <2>2. CASE n = 0
    BY <2>1, <2>2 DEF At
  <2>3. CASE n # 0
    <3>1. n - 1 \in 0..Cardinality(Nodes) /\ n - 1 + 1 = n
      BY <2>1, <2>3, ListAssumption, FS_CardinalityType
    <3>. QED
      BY <1>3, <2>1, <2>3, <3>1 DEF ChainIs
  <2>. QED
    BY <2>2, <2>3
<1>6. EndsConsistent
  BY <1>2, <1>3, <1>5 DEF EndsConsistent, ChainIs, Shape, Ends
<1>. QED
  BY <1>4, <1>6 DEF ChainSound, IInv

\* The list module that ListSpec is instantiated with is the one these lemmas are about.
LEMMA SameOperators ==
    ASSUME NEW q, NEW x
    PROVE  /\ Abstract!Add(q, x) = Add(q, x)
           /\ Abstract!PushBack(q, x) = PushBack(q, x)
           /\ Abstract!RemoveFirsts(q, {x}) = RemoveFirsts(q, {x})
<1>1. Abstract!Add(q, x) = Add(q, x) /\ Abstract!PushBack(q, x) = PushBack(q, x)
  BY DEF Abstract!Add, Add, Abstract!PushBack, PushBack
<1>2. Abstract!RemoveFirsts(q, {x}) = RemoveFirsts(q, {x})
  BY DEF Abstract!RemoveFirsts, Abstract!SubSeqAt, Abstract!FirstAt, RemoveFirsts, SubSeqAt, FirstAt
<1>. QED
  BY <1>1, <1>2

LEMMA InitRefines == Init => Abstract!Init
<1>. SUFFICES ASSUME Init PROVE Contents = <<>>
  BY DEF Abstract!Init
<1>. DEFINE s == [i \in 1..0 |-> Null]
<1>1. 0 \in 0..Cardinality(Nodes) /\ s \in [1..0 -> Nodes]
  BY ListAssumption, FS_CardinalityType
<1>2. Walk(0, s)
  BY DEF Init, Walk, InFlight, At, On
<1>3. Contents = Vals(0, s)
  BY <1>1, <1>2, WalkIsChain DEF WalksAreChains, ChainIs
<1>. QED
  BY <1>3 DEF Vals

\* Each statement maps to a step of the sequence, or leaves it unchanged.
LEMMA StepRefines ==
    ASSUME Guarded, IInv, [Next]_vars, WalksAreChains'
    PROVE  [Abstract!Next]_Contents
<1>1. PICK n \in 0..Cardinality(Nodes) : \E s \in [1..n -> Nodes] : Shape(n, s)
  BY DEF IInv
<1>2. PICK s \in [1..n -> Nodes] : Shape(n, s)
  BY <1>1
<1>3. n \in Nat /\ TypeOK
  BY DEF IInv
<1>4. PICK m \in Nat : \E t : Becomes(n, s, m, t)
  BY <1>2, <1>3, NextStep
<1>4a. PICK t : Becomes(n, s, m, t)
  BY <1>4
<1>5. t \in [1..m -> Nodes] /\ Shape(m, t)' /\ Effect(Vals(n, s), Vals(m, t)')
  BY <1>4, <1>4a DEF Becomes
<1>6. m \in 0..Cardinality(Nodes)
  <2>1. \A i, j \in 1..m : t[i] = t[j] => i = j
    BY <1>5 DEF Shape, Walk
  <2>. QED
    BY <1>5, <2>1, Bounded
<1>7. Contents = Vals(n, s)
  BY <1>2, WalkIsChain DEF WalksAreChains, ChainIs, Shape
<1>8. Contents' = Vals(m, t)'
  BY <1>5, <1>6 DEF WalksAreChains, ChainIs, Shape
<1>9. Effect(Contents, Contents')
  BY <1>5, <1>7, <1>8
<1>10. CASE Contents' = Contents
  BY <1>10
<1>11. ASSUME NEW x \in Items,
              \/ Contents' = Add(Contents, x)
              \/ Contents' = PushBack(Contents, x)
              \/ Contents' = RemoveFirsts(Contents, {x})
       PROVE  Abstract!Next
  BY <1>11, SameOperators DEF Abstract!Next, Abstract!RemoveItem
<1>12. CASE Contents # <<>> /\ Contents' = Tail(Contents)
  BY <1>12 DEF Abstract!Next, Abstract!PopFront
<1>. QED
  BY <1>9, <1>10, <1>11, <1>12 DEF Effect

\* linkedList.h, used under an InterruptGuard: no order of Add, PushBack, PopFront and Remove,
\* with pops by the GET syscall in between, leaks a node, links a freed one, makes a cycle or
\* leaves the tail or the size wrong.
THEOREM ListSound == Guarded => (Spec => []ChainSound)
<1>. SUFFICES ASSUME Guarded PROVE Spec => []ChainSound
  OBVIOUS
<1>1. Init => IInv
  BY InitIInv
<1>2. IInv /\ [Next]_vars => IInv'
  BY NextIInv
<1>3. IInv => ChainSound
  BY SoundInIInv
<1>. QED
  BY <1>1, <1>2, <1>3, PTL DEF Spec

\* linkedList.h, used under an InterruptGuard: the statements of the pointer code, one by one,
\* implement the sequence operators that every other module uses for the kernel's queues.
THEOREM ListRefines == Guarded => (Spec => ImplementsSequence)
<1>. SUFFICES ASSUME Guarded PROVE Spec => ImplementsSequence
  OBVIOUS
<1>1. Init => IInv
  BY InitIInv
<1>2. IInv /\ [Next]_vars => IInv'
  BY NextIInv
<1>3. Init => Abstract!Init
  BY InitRefines
<1>4. WalksAreChains
  BY WalkIsChain
<1>5. IInv /\ WalksAreChains' /\ [Next]_vars => [Abstract!Next]_Contents
  BY StepRefines
<1>. QED
  BY <1>1, <1>2, <1>3, <1>4, <1>5, PTL DEF Spec, ImplementsSequence, Abstract!Spec
===============================================================================

--------------------------- MODULE LinkedListProofs ---------------------------
(***************************************************************************)
(* What the list operators do to the elements of a list, for lists of any  *)
(* length.  SubSeqAt is a recursive function; the facts about it are       *)
(* proved by taking the least index at which they would fail.              *)
(***************************************************************************)
EXTENDS LinkedList, WellFoundedInduction, TLAPS

\* A nonempty set of naturals has a least element.
LEMMA LeastNat ==
    ASSUME NEW T, T \subseteq Nat, T # {}
    PROVE  \E x \in T : \A y \in T : x <= y
<1>1. IsWellFoundedOn(OpToRel(<, Nat), Nat)
  BY NatLessThanWellFounded
<1>2. PICK x \in T : \A y \in T : ~ (<<y, x>> \in OpToRel(<, Nat))
  BY <1>1, WFMin
<1>3. \A y \in T : ~ (y < x)
  BY <1>2 DEF OpToRel
<1>. QED
  BY <1>3

\* One step of the pass SubSeqAt makes over its list.
Pass(q, P, r, i) == IF i \in P THEN Append(r, q[i]) ELSE r

\* f records the pass over the first n elements of q.
IsPass(q, P, f, n) ==
    /\ f = [i \in 0..n |-> f[i]]
    /\ f[0] = <<>>
    /\ \A i \in 1..n : f[i] = Pass(q, P, f[i-1], i)

\* The pass can be made over the whole list.
LEMMA PassExists ==
    ASSUME NEW q, NEW P, NEW n \in Nat
    PROVE  \E f : IsPass(q, P, f, n)
<1>. DEFINE T == {m \in Nat : ~ \E f : IsPass(q, P, f, m)}
<1>. SUFFICES ASSUME T # {} PROVE FALSE
  OBVIOUS
<1>1. PICK m \in T : \A k \in T : m <= k
  BY LeastNat
<1>2. m # 0
  <2>1. IsPass(q, P, [i \in 0..0 |-> <<>>], 0)
    BY DEF IsPass
  <2>. QED
    BY <2>1
<1>3. m - 1 \in Nat /\ m - 1 \notin T
  BY <1>1, <1>2
<1>4. PICK f : IsPass(q, P, f, m - 1)
  BY <1>3
<1>. DEFINE g == [i \in 0..m |-> IF i = m THEN Pass(q, P, f[m-1], m) ELSE f[i]]
<1>5. IsPass(q, P, g, m)
  <2>1. g = [i \in 0..m |-> g[i]]
    OBVIOUS
  <2>2. g[0] = <<>>
    BY <1>2, <1>4 DEF IsPass
  <2>3. ASSUME NEW i \in 1..m PROVE g[i] = Pass(q, P, g[i-1], i)
    <3>1. CASE i = m
      BY <3>1, <1>2
    <3>2. CASE i # m
      <4>1. i \in 1..(m-1) /\ i \in 0..m /\ i - 1 \in 0..m /\ i - 1 # m
        BY <3>2
      <4>2. g[i] = f[i] /\ g[i-1] = f[i-1]
        BY <4>1
      <4>. QED
        BY <4>1, <4>2, <1>4 DEF IsPass
    <3>. QED
      BY <3>1, <3>2
  <2>. HIDE DEF g
  <2>. QED
    BY <2>1, <2>2, <2>3 DEF IsPass
<1>. QED
  BY <1>5

\* SubSeqAt is the last value of such a pass.
LEMMA SubSeqAtIsPass ==
    ASSUME NEW q, Len(q) \in Nat, NEW P
    PROVE  \E f : IsPass(q, P, f, Len(q)) /\ SubSeqAt(q, P) = f[Len(q)]
<1>. DEFINE n == Len(q)
            Body(f) == [i \in 0..n |-> IF i = 0 THEN <<>>
                                       ELSE IF i \in P THEN Append(f[i-1], q[i])
                                       ELSE f[i-1]]
            c == CHOOSE f : f = Body(f)
<1>1. SubSeqAt(q, P) = c[n]
  BY DEF SubSeqAt
<1>2. PICK g : IsPass(q, P, g, n)
  BY PassExists
<1>3. g = Body(g)
  <2>1. \A i \in 0..n : g[i] = Body(g)[i]
    BY <1>2 DEF IsPass, Pass
  <2>2. g = [i \in 0..n |-> g[i]]
    BY <1>2 DEF IsPass
  <2>. QED
    BY <2>1, <2>2
<1>4. c = Body(c)
  BY <1>3
<1>5. ASSUME NEW f, f = Body(f)
      PROVE  IsPass(q, P, f, n)
  <2>1. f = [i \in 0..n |-> f[i]] /\ f[0] = <<>>
    BY <1>5
  <2>2. ASSUME NEW i \in 1..n PROVE f[i] = Pass(q, P, f[i-1], i)
    <3>1. i \in 0..n /\ i # 0
      OBVIOUS
    <3>2. f[i] = Body(f)[i]
      BY <1>5
    <3>. QED
      BY <3>1, <3>2 DEF Pass
  <2>. QED
    BY <2>1, <2>2 DEF IsPass
<1>6. IsPass(q, P, c, n)
  BY <1>4, <1>5
<1>. QED
  BY <1>1, <1>6

\* Appending an element.
LEMMA PushBackFacts ==
    ASSUME NEW S, NEW q \in Seq(S), NEW x \in S
    PROVE  /\ PushBack(q, x) \in Seq(S)
           /\ Elems(PushBack(q, x)) = Elems(q) \cup {x}
           /\ NoRepeat(q) /\ x \notin Elems(q) => NoRepeat(PushBack(q, x))
<1>. DEFINE r == Append(q, x)
<1>1. /\ Len(q) \in Nat /\ DOMAIN q = 1..Len(q)
      /\ r \in Seq(S) /\ DOMAIN r = 1..(Len(q) + 1)
      /\ r[Len(q) + 1] = x /\ \A i \in 1..Len(q) : r[i] = q[i]
  OBVIOUS
<1>2. Elems(r) = Elems(q) \cup {x}
  BY <1>1 DEF Elems
<1>3. ASSUME NoRepeat(q), x \notin Elems(q) PROVE NoRepeat(r)
  <2>1. \A i \in 1..Len(q) : q[i] # x
    BY <1>1, <1>3 DEF Elems
  <2>. QED
    BY <1>1, <1>3, <2>1 DEF NoRepeat
<1>. QED
  BY <1>1, <1>2, <1>3 DEF PushBack

\* A pass over a list without repeats keeps exactly the chosen elements, each
\* of them once.
LEMMA PassFacts ==
    ASSUME NEW S, NEW q \in Seq(S), NEW P, NEW f, IsPass(q, P, f, Len(q))
    PROVE  \A n \in 0..Len(q) :
              /\ f[n] \in Seq(S)
              /\ Elems(f[n]) = {q[i] : i \in (1..n) \cap P}
              /\ NoRepeat(q) => NoRepeat(f[n])
<1>. DEFINE Good(n) == /\ f[n] \in Seq(S)
                       /\ Elems(f[n]) = {q[i] : i \in (1..n) \cap P}
                       /\ NoRepeat(q) => NoRepeat(f[n])
            T == {n \in 0..Len(q) : ~ Good(n)}
<1>. SUFFICES ASSUME T # {} PROVE FALSE
  OBVIOUS
<1>1. PICK m \in T : \A k \in T : m <= k
  <2>1. T \subseteq Nat
    BY DEF T
  <2>. HIDE DEF T
  <2>. QED
    BY <2>1, LeastNat
<1>2. m # 0
  <2>1. f[0] = <<>>
    BY DEF IsPass
  <2>2. Good(0)
    BY <2>1 DEF Elems, NoRepeat
  <2>. QED
    BY <2>2, <1>1
<1>3. m \in 1..Len(q) /\ m - 1 \in 0..Len(q) /\ m - 1 \notin T
  <2>1. Len(q) \in Nat /\ m \in 0..Len(q)
    OBVIOUS
  <2>. HIDE DEF T
  <2>. QED
    BY <1>1, <1>2, <2>1
<1>4. Good(m - 1)
  BY <1>3
<1>. DEFINE r == f[m-1]
<1>5. f[m] = IF m \in P THEN Append(r, q[m]) ELSE r
  BY <1>3 DEF IsPass, Pass
<1>6. CASE m \notin P
  <2>1. (1..m) \cap P = (1..(m-1)) \cap P
    BY <1>3, <1>6
  <2>. QED
    BY <2>1, <1>1, <1>4, <1>5, <1>6
<1>7. CASE m \in P
  <2>1. f[m] = Append(r, q[m]) /\ q[m] \in S /\ r \in Seq(S)
    BY <1>3, <1>4, <1>5, <1>7
  <2>2. f[m] \in Seq(S)
    BY <2>1
  <2>4. (1..m) \cap P = ((1..(m-1)) \cap P) \cup {m}
    BY <1>3, <1>7
  <2>5. /\ Elems(f[m]) = Elems(r) \cup {q[m]}
        /\ NoRepeat(r) /\ q[m] \notin Elems(r) => NoRepeat(f[m])
    BY <2>1, PushBackFacts DEF PushBack
  <2>6. Elems(f[m]) = {q[i] : i \in (1..m) \cap P}
    BY <2>4, <2>5, <1>4
  <2>7. ASSUME NoRepeat(q) PROVE NoRepeat(f[m])
    <3>1. q[m] \notin Elems(r)
      <4>1. \A i \in 1..(m-1) : q[i] # q[m]
        BY <2>7, <1>3 DEF NoRepeat
      <4>. QED
        BY <4>1, <1>4
    <3>. QED
      BY <2>5, <2>7, <3>1, <1>4
  <2>. QED
    BY <2>2, <2>6, <2>7, <1>1
<1>. QED
  BY <1>6, <1>7

\* SubSeqAt(q, P) holds the elements of q at the positions in P, once each if q
\* holds each once.
LEMMA SubSeqAtFacts ==
    ASSUME NEW S, NEW q \in Seq(S), NEW P
    PROVE  /\ SubSeqAt(q, P) \in Seq(S)
           /\ Elems(SubSeqAt(q, P)) = {q[i] : i \in DOMAIN q \cap P}
           /\ NoRepeat(q) => NoRepeat(SubSeqAt(q, P))
<1>1. Len(q) \in Nat /\ DOMAIN q = 1..Len(q)
  OBVIOUS
<1>2. PICK f : IsPass(q, P, f, Len(q)) /\ SubSeqAt(q, P) = f[Len(q)]
  BY <1>1, SubSeqAtIsPass
<1>3. Len(q) \in 0..Len(q)
  BY <1>1
<1>4. \A n \in 0..Len(q) :
         /\ f[n] \in Seq(S)
         /\ Elems(f[n]) = {q[i] : i \in (1..n) \cap P}
         /\ NoRepeat(q) => NoRepeat(f[n])
  BY <1>2, PassFacts
<1>. QED
  BY <1>1, <1>2, <1>3, <1>4

\* Removing the first occurrence of each element of S from a list without
\* repeats removes the elements of S.
LEMMA RemoveFirstsFacts ==
    ASSUME NEW X, NEW q \in Seq(X), NEW S
    PROVE  /\ RemoveFirsts(q, S) \in Seq(X)
           /\ NoRepeat(q) => /\ NoRepeat(RemoveFirsts(q, S))
                             /\ Elems(RemoveFirsts(q, S)) = Elems(q) \ S
<1>. DEFINE P == {i \in DOMAIN q : ~ (q[i] \in S /\ FirstAt(q, i))}
<1>1. RemoveFirsts(q, S) = SubSeqAt(q, P)
  BY DEF RemoveFirsts
<1>2. ASSUME NoRepeat(q) PROVE {q[i] : i \in DOMAIN q \cap P} = Elems(q) \ S
  <2>1. ASSUME NEW i \in DOMAIN q PROVE FirstAt(q, i)
    <3>1. DOMAIN q = 1..Len(q) /\ Len(q) \in Nat
      OBVIOUS
    <3>2. \A j \in 1..(i-1) : j \in DOMAIN q /\ j # i
      BY <3>1
    <3>. QED
      BY <1>2, <3>2 DEF FirstAt, NoRepeat
  <2>2. P = {i \in DOMAIN q : q[i] \notin S}
    BY <2>1
  <2>. QED
    BY <2>2 DEF Elems
<1>. QED
  BY <1>1, <1>2, SubSeqAtFacts

\* Concatenating two lists.
LEMMA ConcatFacts ==
    ASSUME NEW S, NEW q \in Seq(S), NEW r \in Seq(S)
    PROVE  /\ q \o r \in Seq(S)
           /\ Elems(q \o r) = Elems(q) \cup Elems(r)
           /\ NoRepeat(q) /\ NoRepeat(r) /\ Elems(q) \cap Elems(r) = {}
                 => NoRepeat(q \o r)
<1>. DEFINE c == q \o r
<1>1. /\ Len(q) \in Nat /\ DOMAIN q = 1..Len(q)
      /\ Len(r) \in Nat /\ DOMAIN r = 1..Len(r)
      /\ c \in Seq(S) /\ DOMAIN c = 1..(Len(q) + Len(r))
      /\ \A i \in 1..Len(q) : c[i] = q[i]
      /\ \A i \in 1..Len(r) : c[Len(q) + i] = r[i]
  OBVIOUS
<1>2. \A i \in DOMAIN c : i \in 1..Len(q) \/ (i - Len(q) \in 1..Len(r) /\ c[i] = r[i - Len(q)])
  BY <1>1
<1>. HIDE DEF c
<1>3. Elems(c) = Elems(q) \cup Elems(r)
  <2>1. Elems(c) \subseteq Elems(q) \cup Elems(r)
    BY <1>1, <1>2 DEF Elems
  <2>2. Elems(q) \subseteq Elems(c)
    BY <1>1 DEF Elems
  <2>3. Elems(r) \subseteq Elems(c)
    <3>1. \A i \in 1..Len(r) : Len(q) + i \in DOMAIN c
      BY <1>1
    <3>. QED
      BY <1>1, <3>1 DEF Elems
  <2>. QED
    BY <2>1, <2>2, <2>3
<1>4. ASSUME NoRepeat(q), NoRepeat(r), Elems(q) \cap Elems(r) = {}
      PROVE  NoRepeat(c)
  <2>1. \A i \in 1..Len(q), j \in 1..Len(r) : q[i] # r[j]
    BY <1>1, <1>4 DEF Elems
  <2>2. ASSUME NEW i \in DOMAIN c, NEW j \in DOMAIN c, c[i] = c[j] PROVE i = j
    <3>1. CASE i \in 1..Len(q) /\ j \in 1..Len(q)
      BY <1>1, <1>4, <2>2, <3>1 DEF NoRepeat
    <3>2. CASE i \notin 1..Len(q) /\ j \notin 1..Len(q)
      <4>1. /\ i - Len(q) \in 1..Len(r) /\ j - Len(q) \in 1..Len(r)
            /\ r[i - Len(q)] = r[j - Len(q)]
        BY <1>2, <2>2, <3>2
      <4>2. i - Len(q) = j - Len(q)
        BY <1>1, <1>4, <4>1 DEF NoRepeat
      <4>. QED
        BY <1>1, <4>2
    <3>3. CASE (i \in 1..Len(q)) # (j \in 1..Len(q))
      BY <1>1, <1>2, <2>1, <2>2, <3>3
    <3>. QED
      BY <3>1, <3>2, <3>3
  <2>. QED
    BY <2>2 DEF NoRepeat
<1>. QED
  BY <1>1, <1>3, <1>4 DEF c

\* Taking the head of a nonempty list.
LEMMA PopFrontFacts ==
    ASSUME NEW S, NEW q \in Seq(S), q # <<>>
    PROVE  /\ Head(q) \in S /\ Head(q) \in Elems(q)
           /\ Tail(q) \in Seq(S)
           /\ NoRepeat(q) => /\ NoRepeat(Tail(q))
                             /\ Elems(Tail(q)) = Elems(q) \ {Head(q)}
<1>. DEFINE r == Tail(q)
<1>1. /\ Len(q) \in Nat /\ Len(q) # 0 /\ DOMAIN q = 1..Len(q) /\ Head(q) = q[1]
      /\ r \in Seq(S) /\ DOMAIN r = 1..(Len(q) - 1)
      /\ \A i \in 1..(Len(q) - 1) : r[i] = q[i+1]
  OBVIOUS
<1>. HIDE DEF r
<1>2. Head(q) \in S /\ Head(q) \in Elems(q)
  BY <1>1 DEF Elems
<1>3. ASSUME NoRepeat(q) PROVE NoRepeat(r) /\ Elems(r) = Elems(q) \ {Head(q)}
  <2>0. \A i \in DOMAIN r : i \in Int /\ i + 1 \in DOMAIN q /\ i + 1 # 1 /\ r[i] = q[i + 1]
    BY <1>1
  <2>1. NoRepeat(r)
    <3>1. ASSUME NEW i \in DOMAIN r, NEW j \in DOMAIN r, i # j PROVE r[i] # r[j]
      <4>1. i + 1 # j + 1
        BY <2>0, <3>1
      <4>. QED
        BY <1>3, <2>0, <4>1 DEF NoRepeat
    <3>. QED
      BY <3>1 DEF NoRepeat
  <2>2. Elems(r) \subseteq Elems(q) \ {Head(q)}
    <3>1. ASSUME NEW i \in DOMAIN r PROVE r[i] \in Elems(q) \ {Head(q)}
      <4>1. q[i + 1] # q[1] /\ 1 \in DOMAIN q
        BY <1>1, <1>3, <2>0 DEF NoRepeat
      <4>. QED
        BY <1>1, <2>0, <4>1 DEF Elems
    <3>. QED
      BY <3>1 DEF Elems
  <2>3. \A i \in DOMAIN q : i # 1 => i - 1 \in DOMAIN r /\ r[i-1] = q[i]
    BY <1>1
  <2>4. Elems(q) \ {Head(q)} \subseteq Elems(r)
    BY <1>1, <2>3 DEF Elems
  <2>. QED
    BY <2>1, <2>2, <2>4
<1>. QED
  BY <1>1, <1>2, <1>3 DEF r

\* x stands before y in q.
Before(q, x, y) == \E i, j \in DOMAIN q : i < j /\ q[i] = x /\ q[j] = y

\* In a list without repeats the order of two different elements is one of two.
LEMMA BeforeFacts ==
    ASSUME NEW S, NEW q \in Seq(S), NoRepeat(q), NEW x, NEW y
    PROVE  /\ ~(Before(q, x, y) /\ Before(q, y, x))
           /\ x \in Elems(q) /\ y \in Elems(q) /\ x # y => Before(q, x, y) \/ Before(q, y, x)
<1>1. \A i \in DOMAIN q : i \in Nat
  OBVIOUS
<1>2. ASSUME Before(q, x, y), Before(q, y, x) PROVE FALSE
  <2>1. PICK i, j \in DOMAIN q : i < j /\ q[i] = x /\ q[j] = y
    BY <1>2 DEF Before
  <2>2. PICK k, l \in DOMAIN q : k < l /\ q[k] = y /\ q[l] = x
    BY <1>2 DEF Before
  <2>3. i = l /\ j = k
    BY <2>1, <2>2 DEF NoRepeat
  <2>. QED
    BY <1>1, <2>1, <2>2, <2>3
<1>3. ASSUME x \in Elems(q), y \in Elems(q), x # y PROVE Before(q, x, y) \/ Before(q, y, x)
  <2>1. PICK i, j \in DOMAIN q : q[i] = x /\ q[j] = y
    BY <1>3 DEF Elems
  <2>2. i < j \/ j < i
    BY <1>1, <1>3, <2>1
  <2>. QED
    BY <2>1, <2>2 DEF Before
<1>. QED
  BY <1>2, <1>3

\* Prepending one element leaves the others in their order, behind it.
LEMMA AddFacts ==
    ASSUME NEW S, NEW q \in Seq(S), NEW x \in S
    PROVE  /\ Add(q, x) \in Seq(S)
           /\ Elems(Add(q, x)) = {x} \cup Elems(q)
           /\ NoRepeat(q) /\ x \notin Elems(q) => NoRepeat(Add(q, x))
           /\ \A a, b : Before(q, a, b) => Before(Add(q, x), a, b)
           /\ \A b \in Elems(q) : Before(Add(q, x), x, b)
<1>. DEFINE r == Add(q, x)
<1>1. /\ Len(q) \in Nat /\ DOMAIN q = 1..Len(q)
      /\ r \in Seq(S) /\ DOMAIN r = 1..(Len(q) + 1)
      /\ r[1] = x /\ \A i \in 1..Len(q) : r[i + 1] = q[i]
  BY DEF Add
<1>2. \A i \in DOMAIN r : i = 1 \/ (i - 1 \in 1..Len(q) /\ r[i] = q[i - 1])
  BY <1>1
<1>3. \A i \in 1..Len(q) : i + 1 \in DOMAIN r
  BY <1>1
<1>. HIDE DEF r
<1>4. Elems(r) = {x} \cup Elems(q)
  <2>1. Elems(r) \subseteq {x} \cup Elems(q)
    BY <1>1, <1>2 DEF Elems
  <2>2. x \in Elems(r)
    BY <1>1 DEF Elems
  <2>3. Elems(q) \subseteq Elems(r)
    BY <1>1, <1>3 DEF Elems
  <2>. QED
    BY <2>1, <2>2, <2>3
<1>5. ASSUME NoRepeat(q), x \notin Elems(q) PROVE NoRepeat(r)
  <2>1. \A i \in 1..Len(q) : q[i] # x
    BY <1>1, <1>5 DEF Elems
  <2>. QED
    BY <1>1, <1>2, <1>5, <2>1 DEF NoRepeat
<1>6. ASSUME NEW a, NEW b, Before(q, a, b) PROVE Before(r, a, b)
  <2>1. PICK i, j \in 1..Len(q) : i < j /\ q[i] = a /\ q[j] = b
    BY <1>1, <1>6 DEF Before
  <2>2. /\ i + 1 \in DOMAIN r /\ j + 1 \in DOMAIN r /\ i + 1 < j + 1
        /\ r[i + 1] = a /\ r[j + 1] = b
    BY <1>1, <1>3, <2>1
  <2>. QED
    BY <2>2 DEF Before
<1>7. ASSUME NEW b \in Elems(q) PROVE Before(r, x, b)
  <2>1. PICK j \in 1..Len(q) : q[j] = b
    BY <1>1, <1>7 DEF Elems
  <2>2. 1 \in DOMAIN r /\ j + 1 \in DOMAIN r /\ 1 < j + 1 /\ r[1] = x /\ r[j + 1] = b
    BY <1>1, <1>3, <2>1
  <2>. QED
    BY <2>2 DEF Before
<1>. QED
  BY <1>1, <1>4, <1>5, <1>6, <1>7 DEF r

\* A pass keeps the order of the list.
LEMMA SubSeqAtOrder ==
    ASSUME NEW S, NEW q \in Seq(S), NEW P, NEW a, NEW b, Before(SubSeqAt(q, P), a, b)
    PROVE  Before(q, a, b)
<1>1. Len(q) \in Nat /\ DOMAIN q = 1..Len(q)
  OBVIOUS
<1>2. PICK f : IsPass(q, P, f, Len(q)) /\ SubSeqAt(q, P) = f[Len(q)]
  BY <1>1, SubSeqAtIsPass
<1>3. \A n \in 0..Len(q) :
         /\ f[n] \in Seq(S)
         /\ Elems(f[n]) = {q[i] : i \in (1..n) \cap P}
         /\ NoRepeat(q) => NoRepeat(f[n])
  BY <1>2, PassFacts
<1>. DEFINE T == {n \in 0..Len(q) : Before(f[n], a, b)}
<1>4. Len(q) \in T
  BY <1>1, <1>2
<1>5. PICK m \in T : \A k \in T : m <= k
  <2>1. T \subseteq Nat /\ T # {}
    BY <1>4
  <2>. HIDE DEF T
  <2>. QED
    BY <2>1, LeastNat
<1>6. m # 0
  <2>1. ~Before(<<>>, a, b)
    BY DEF Before
  <2>. QED
    BY <1>2, <1>5, <2>1 DEF IsPass
<1>7. m \in 1..Len(q) /\ m - 1 \in 0..Len(q) /\ m - 1 \notin T
  <2>1. m \in 0..Len(q)
    BY <1>5
  <2>. HIDE DEF T
  <2>. QED
    BY <1>1, <1>5, <1>6, <2>1
<1>. DEFINE r == f[m-1]
<1>8. f[m] = IF m \in P THEN Append(r, q[m]) ELSE r
  BY <1>2, <1>7 DEF IsPass, Pass
<1>9. ~Before(r, a, b) /\ Before(f[m], a, b) /\ r \in Seq(S)
  BY <1>3, <1>5, <1>7
<1>10. f[m] = Append(r, q[m])
  BY <1>8, <1>9
<1>11. /\ Len(r) \in Nat /\ DOMAIN r = 1..Len(r) /\ DOMAIN f[m] = 1..(Len(r) + 1)
       /\ f[m][Len(r) + 1] = q[m] /\ \A i \in 1..Len(r) : f[m][i] = r[i]
  BY <1>1, <1>7, <1>9, <1>10
<1>12. PICK i, j \in 1..(Len(r) + 1) : i < j /\ f[m][i] = a /\ f[m][j] = b
  BY <1>9, <1>11 DEF Before
<1>13. i \in 1..Len(r) /\ j = Len(r) + 1
  <2>1. i \in 1..Len(r)
    BY <1>11, <1>12
  <2>2. ~(j \in 1..Len(r))
    BY <1>9, <1>11, <1>12, <2>1 DEF Before
  <2>. QED
    BY <1>11, <1>12, <2>1, <2>2
<1>14. a \in Elems(r) /\ b = q[m]
  BY <1>11, <1>12, <1>13 DEF Elems
<1>15. PICK k \in 1..(m-1) : q[k] = a
  <2>1. a \in {q[l] : l \in (1..(m-1)) \cap P}
    BY <1>3, <1>7, <1>14
  <2>. QED
    BY <2>1
<1>16. k \in DOMAIN q /\ m \in DOMAIN q /\ k < m
  BY <1>1, <1>7
<1>. HIDE DEF T
<1>. QED
  BY <1>14, <1>15, <1>16 DEF Before

\* Removing elements keeps the order of the others.
LEMMA RemoveFirstsOrder ==
    ASSUME NEW X, NEW q \in Seq(X), NEW S, NEW a, NEW b, Before(RemoveFirsts(q, S), a, b)
    PROVE  Before(q, a, b)
BY SubSeqAtOrder DEF RemoveFirsts

\* A pass over a longer list goes over the shorter one first.
LEMMA SubSeqAtAppend ==
    ASSUME NEW S, NEW q \in Seq(S), NEW x \in S, NEW P, NEW R,
           \A i \in 1..Len(q) : i \in P <=> i \in R
    PROVE  SubSeqAt(Append(q, x), R) =
               IF Len(q) + 1 \in R THEN Append(SubSeqAt(q, P), x) ELSE SubSeqAt(q, P)
<1>. DEFINE s == Append(q, x)
<1>1. /\ Len(q) \in Nat /\ DOMAIN q = 1..Len(q) /\ Len(s) = Len(q) + 1 /\ s \in Seq(S)
      /\ s[Len(q) + 1] = x /\ \A i \in 1..Len(q) : s[i] = q[i]
  OBVIOUS
<1>. HIDE DEF s
<1>2. PICK f : IsPass(q, P, f, Len(q)) /\ SubSeqAt(q, P) = f[Len(q)]
  BY <1>1, SubSeqAtIsPass
<1>3. Len(s) \in Nat
  BY <1>1
<1>4. PICK g : IsPass(s, R, g, Len(s)) /\ SubSeqAt(s, R) = g[Len(s)]
  BY <1>3, SubSeqAtIsPass
<1>5. \A n \in 0..Len(q) : f[n] = g[n]
  <2>. DEFINE T == {n \in 0..Len(q) : f[n] # g[n]}
  <2>. SUFFICES ASSUME T # {} PROVE FALSE
    OBVIOUS
  <2>1. PICK m \in T : \A k \in T : m <= k
    <3>1. T \subseteq Nat
      BY DEF T
    <3>. HIDE DEF T
    <3>. QED
      BY <3>1, LeastNat
  <2>2. m # 0
    BY <1>2, <1>4, <2>1 DEF IsPass
  <2>3. m \in 1..Len(q) /\ m \in 1..Len(s) /\ m - 1 \in 0..Len(q) /\ m - 1 \notin T
    <3>1. m \in 0..Len(q)
      BY <2>1
    <3>. HIDE DEF T
    <3>. QED
      BY <1>1, <2>1, <2>2, <3>1
  <2>4. f[m] = Pass(q, P, f[m-1], m) /\ g[m] = Pass(s, R, g[m-1], m)
    BY <1>2, <1>4, <2>3 DEF IsPass
  <2>5. f[m-1] = g[m-1]
    BY <2>3
  <2>6. f[m] = g[m]
    BY <1>1, <2>3, <2>4, <2>5 DEF Pass
  <2>. QED
    BY <2>1, <2>6
<1>6. g[Len(s)] = Pass(s, R, g[Len(q)], Len(s))
  <2>1. Len(s) \in 1..Len(s) /\ Len(s) - 1 = Len(q)
    BY <1>1
  <2>. QED
    BY <1>4, <2>1 DEF IsPass
<1>7. g[Len(q)] = f[Len(q)]
  BY <1>1, <1>5
<1>. QED
  BY <1>1, <1>2, <1>4, <1>6, <1>7 DEF s, Pass
===============================================================================

--------------------------- MODULE EventDeliveryProofs ---------------------------
(***************************************************************************)
(* The safety properties of EventDelivery hold for any number of           *)
(* processes, handlers, widgets and interrupts, and any size of the ring.  *)
(***************************************************************************)
EXTENDS EventDelivery, LinkedListProofs

-------------------------------------------------------------------------------
(* The handler a lookup finds, as a function of the list and the owners.      *)

Owned(q, hp, p) == {i \in DOMAIN q : hp[q[i]] = p}
LastOwned(q, hp, p) ==
    IF Owned(q, hp, p) = {} THEN NoHandler
    ELSE q[CHOOSE i \in Owned(q, hp, p) : \A j \in Owned(q, hp, p) : j <= i]

\* g is the last handler of p on the list.
IsLast(q, hp, p, g) ==
    /\ g \in Elems(q) /\ hp[g] = p
    /\ \A x \in Elems(q) : hp[x] = p /\ x # g => Before(q, x, g)

\* A lookup finds the last handler of the process, or none if it has none.
LEMMA LastOwnedFacts ==
    ASSUME NEW q \in Seq(Handlers), NEW hp, NEW p
    PROVE  \/ LastOwned(q, hp, p) = NoHandler /\ \A x \in Elems(q) : hp[x] # p
           \/ IsLast(q, hp, p, LastOwned(q, hp, p))
<1>. DEFINE P == Owned(q, hp, p)
<1>1. DOMAIN q = 1..Len(q) /\ Len(q) \in Nat
  OBVIOUS
<1>2. CASE P = {}
  BY <1>2 DEF Owned, LastOwned, Elems
<1>3. CASE P # {}
  <2>. DEFINE T == {Len(q) - i : i \in P}
  <2>1. P \subseteq 1..Len(q)
    BY <1>1 DEF Owned
  <2>2. T \subseteq Nat /\ T # {}
    BY <1>1, <1>3, <2>1
  <2>3. PICK t \in T : \A u \in T : t <= u
    <3>. HIDE DEF T
    <3>. QED
      BY <2>2, LeastNat
  <2>4. PICK k \in P : t = Len(q) - k
    BY <2>3
  <2>5. \A j \in P : j <= k
    <3>1. ASSUME NEW j \in P PROVE j <= k
      <4>1. Len(q) - j \in T
        OBVIOUS
      <4>2. t <= Len(q) - j
        BY <2>3, <4>1
      <4>. QED
        BY <1>1, <2>1, <2>4, <4>2
    <3>. QED
      BY <3>1
  <2>. DEFINE m == CHOOSE i \in P : \A j \in P : j <= i
  <2>6. m \in P /\ \A j \in P : j <= m
    BY <2>5
  <2>7. LastOwned(q, hp, p) = q[m]
    BY <1>3 DEF LastOwned
  <2>. HIDE DEF m
  <2>8. m \in DOMAIN q /\ hp[q[m]] = p
    BY <2>6 DEF Owned
  <2>9. ASSUME NEW x \in Elems(q), hp[x] = p, x # q[m] PROVE Before(q, x, q[m])
    <3>1. PICK i \in DOMAIN q : q[i] = x
      BY DEF Elems
    <3>2. i \in P /\ i # m
      BY <2>9, <3>1 DEF Owned
    <3>3. i < m
      BY <1>1, <2>1, <2>6, <3>2
    <3>. QED
      BY <2>8, <3>1, <3>3 DEF Before
  <2>. QED
    BY <2>7, <2>8, <2>9 DEF IsLast, Elems
<1>. QED
  BY <1>2, <1>3

\* Only one handler is the last one of a process.
LEMMA LastOwnedIs ==
    ASSUME NEW q \in Seq(Handlers), NoRepeat(q), NEW hp, NEW p, NEW g
    PROVE  /\ IsLast(q, hp, p, g) => LastOwned(q, hp, p) = g
           /\ (\A x \in Elems(q) : hp[x] # p) => LastOwned(q, hp, p) = NoHandler
<1>. DEFINE l == LastOwned(q, hp, p)
<1>1. \/ l = NoHandler /\ \A x \in Elems(q) : hp[x] # p
      \/ IsLast(q, hp, p, l)
  BY LastOwnedFacts
<1>. HIDE DEF l
<1>2. ASSUME IsLast(q, hp, p, g) PROVE l = g
  <2>1. IsLast(q, hp, p, l)
    BY <1>1, <1>2 DEF IsLast
  <2>2. l # g => Before(q, l, g) /\ Before(q, g, l)
    BY <1>2, <2>1 DEF IsLast
  <2>. QED
    BY <2>2, BeforeFacts
<1>3. ASSUME \A x \in Elems(q) : hp[x] # p PROVE l = NoHandler
  BY <1>1, <1>3 DEF IsLast
<1>. QED
  BY <1>2, <1>3 DEF l

\* A handler registered later comes first on the list, so it does not take the place of one the
\* process already has, nor of one of another process.
LEMMA LookupAfterAdd ==
    ASSUME NEW q \in Seq(Handlers), NoRepeat(q), NEW h \in Handlers, h \notin Elems(q),
           NEW hp, NEW p, NEW hr,
           hr[h] # p \/ LastOwned(q, hp, p) # NoHandler,
           \A x \in Handlers \ {h} : hr[x] = hp[x]
    PROVE  LastOwned(Add(q, h), hr, p) = LastOwned(q, hp, p)
<1>. DEFINE r == Add(q, h)
            g == LastOwned(q, hp, p)
<1>1. /\ r \in Seq(Handlers) /\ Elems(r) = {h} \cup Elems(q) /\ NoRepeat(r)
      /\ \A a, b : Before(q, a, b) => Before(r, a, b)
      /\ \A b \in Elems(q) : Before(r, h, b)
  BY AddFacts
<1>2. hr[h] # p \/ g # NoHandler
  OBVIOUS
<1>3. Elems(q) \subseteq Handlers \ {h}
  BY DEF Elems
<1>. HIDE DEF r
<1>4. CASE IsLast(q, hp, p, g)
  <2>1. g \in Elems(r) /\ hr[g] = p /\ g # h
    BY <1>1, <1>2, <1>3, <1>4 DEF IsLast
  <2>2. ASSUME NEW x \in Elems(r), hr[x] = p, x # g PROVE Before(r, x, g)
    BY <1>1, <1>2, <1>3, <1>4, <2>2 DEF IsLast
  <2>3. IsLast(r, hr, p, g)
    BY <2>1, <2>2 DEF IsLast
  <2>. QED
    BY <1>1, <2>3, LastOwnedIs DEF r
<1>5. CASE g = NoHandler /\ \A x \in Elems(q) : hp[x] # p
  <2>1. \A x \in Elems(r) : hr[x] # p
    BY <1>1, <1>2, <1>3, <1>5
  <2>2. LastOwned(r, hr, p) = NoHandler
    BY <1>1, <2>1, LastOwnedIs
  <2>. QED
    BY <1>5, <2>2 DEF r
<1>. QED
  BY <1>4, <1>5, LastOwnedFacts

\* Deleting a handler of one process leaves the lookups of the others alone.
LEMMA LookupAfterRemove ==
    ASSUME NEW q \in Seq(Handlers), NoRepeat(q), NEW h \in Handlers,
           NEW hp \in [Handlers -> Pids \cup {NoPid}], NEW p \in Pids, hp[h] # p
    PROVE  LastOwned(RemoveFirsts(q, {h}), [hp EXCEPT ![h] = NoPid], p) = LastOwned(q, hp, p)
<1>. DEFINE r == RemoveFirsts(q, {h})
            hr == [hp EXCEPT ![h] = NoPid]
            g == LastOwned(q, hp, p)
<1>1. r \in Seq(Handlers) /\ NoRepeat(r) /\ Elems(r) = Elems(q) \ {h}
  BY RemoveFirstsFacts
<1>2. \A x \in Handlers \ {h} : hr[x] = hp[x]
  OBVIOUS
<1>3. Elems(q) \subseteq Handlers
  BY DEF Elems
<1>4. \A a, b : Before(r, a, b) => Before(q, a, b)
  BY RemoveFirstsOrder
<1>. HIDE DEF r, hr
<1>5. CASE IsLast(q, hp, p, g)
  <2>1. g \in Elems(r) /\ hr[g] = p
    BY <1>1, <1>2, <1>3, <1>5 DEF IsLast
  <2>2. ASSUME NEW x \in Elems(r), hr[x] = p, x # g PROVE Before(r, x, g)
    <3>1. Before(q, x, g)
      BY <1>1, <1>2, <1>3, <1>5, <2>2 DEF IsLast
    <3>2. ~Before(r, g, x)
      BY <1>4, <3>1, BeforeFacts
    <3>. QED
      BY <1>1, <2>1, <2>2, <3>2, BeforeFacts
  <2>3. IsLast(r, hr, p, g)
    BY <2>1, <2>2 DEF IsLast
  <2>. QED
    BY <1>1, <2>3, LastOwnedIs DEF r, hr
<1>6. CASE g = NoHandler /\ \A x \in Elems(q) : hp[x] # p
  <2>1. \A x \in Elems(r) : hr[x] # p
    BY <1>1, <1>2, <1>3, <1>6
  <2>. QED
    BY <1>1, <1>6, <2>1, LastOwnedIs DEF r, hr
<1>. QED
  BY <1>5, <1>6, LastOwnedFacts

-------------------------------------------------------------------------------
(* The numbers of the events on a list.                                       *)

\* No two events of s stem from the same input.
Distinct(s) == \A i, j \in DOMAIN s : s[i].n = s[j].n => i = j

\* The numbers of a list of events are natural numbers.
LEMMA NumbersType ==
    ASSUME NEW s \in Seq(Events)
    PROVE  Numbers(s) \subseteq Nat
<1>1. \A i \in DOMAIN s : s[i] \in Events
  OBVIOUS
<1>2. \A e \in Events : e.n \in Nat
  BY EventAssumption DEF Events
<1>. QED
  BY <1>1, <1>2 DEF Numbers

\* What appending an event, by GET to the history, makes of the numbers.
LEMMA NumbersAppend ==
    ASSUME NEW S, NEW q \in Seq(S), NEW e \in S
    PROVE  /\ Numbers(Append(q, e)) = Numbers(q) \cup {e.n}
           /\ Distinct(q) /\ e.n \notin Numbers(q) => Distinct(Append(q, e))
<1>. DEFINE r == Append(q, e)
<1>1. /\ Len(q) \in Nat /\ DOMAIN q = 1..Len(q) /\ DOMAIN r = 1..(Len(q) + 1)
      /\ r[Len(q) + 1] = e /\ \A i \in 1..Len(q) : r[i] = q[i]
  OBVIOUS
<1>2. \A i \in DOMAIN r : i \in 1..Len(q) \/ i = Len(q) + 1
  BY <1>1
<1>. HIDE DEF r
<1>3. Numbers(r) \subseteq Numbers(q) \cup {e.n}
  BY <1>1, <1>2 DEF Numbers
<1>4. Numbers(q) \subseteq Numbers(r) /\ e.n \in Numbers(r)
  BY <1>1 DEF Numbers
<1>5. ASSUME Distinct(q), e.n \notin Numbers(q) PROVE Distinct(r)
  <2>1. \A i \in 1..Len(q) : q[i].n # e.n
    BY <1>1, <1>5 DEF Numbers
  <2>. QED
    BY <1>1, <1>2, <1>5, <2>1 DEF Distinct
<1>. QED
  BY <1>3, <1>4, <1>5 DEF r

\* The same of prepending an event, by PostEvent to the queue.
LEMMA NumbersAdd ==
    ASSUME NEW S, NEW q \in Seq(S), NEW e \in S
    PROVE  /\ Numbers(Add(q, e)) = Numbers(q) \cup {e.n}
           /\ Distinct(q) /\ e.n \notin Numbers(q) => Distinct(Add(q, e))
<1>. DEFINE r == Add(q, e)
<1>1. /\ Len(q) \in Nat /\ DOMAIN q = 1..Len(q) /\ DOMAIN r = 1..(Len(q) + 1)
      /\ r[1] = e /\ \A i \in 1..Len(q) : r[i + 1] = q[i]
  BY DEF Add
<1>2. \A i \in DOMAIN r : i = 1 \/ (i - 1 \in 1..Len(q) /\ r[i] = q[i - 1])
  BY <1>1
<1>3. \A i \in 1..Len(q) : i + 1 \in DOMAIN r
  BY <1>1
<1>. HIDE DEF r
<1>4. Numbers(r) \subseteq Numbers(q) \cup {e.n}
  BY <1>1, <1>2 DEF Numbers
<1>5. Numbers(q) \subseteq Numbers(r) /\ e.n \in Numbers(r)
  BY <1>1, <1>3 DEF Numbers
<1>6. ASSUME Distinct(q), e.n \notin Numbers(q) PROVE Distinct(r)
  <2>1. \A i \in 1..Len(q) : q[i].n # e.n
    BY <1>1, <1>6 DEF Numbers
  <2>2. ASSUME NEW i \in DOMAIN r, NEW j \in DOMAIN r, r[i].n = r[j].n PROVE i = j
    <3>1. CASE i # 1 /\ j # 1
      <4>1. i - 1 \in DOMAIN q /\ j - 1 \in DOMAIN q /\ q[i - 1].n = q[j - 1].n
        BY <1>1, <1>2, <2>2, <3>1
      <4>2. i - 1 = j - 1
        BY <1>6, <4>1 DEF Distinct
      <4>. QED
        BY <1>1, <4>2
    <3>2. CASE i = 1 \/ j = 1
      BY <1>1, <1>2, <2>1, <2>2, <3>2
    <3>. QED
      BY <3>1, <3>2
  <2>. QED
    BY <2>2 DEF Distinct
<1>. QED
  BY <1>4, <1>5, <1>6 DEF r

\* And of taking the head, by GET from the queue.
LEMMA NumbersTail ==
    ASSUME NEW S, NEW q \in Seq(S), q # <<>>
    PROVE  /\ Head(q) \in S /\ Tail(q) \in Seq(S)
           /\ Numbers(q) = Numbers(Tail(q)) \cup {Head(q).n}
           /\ Distinct(q) => Distinct(Tail(q)) /\ Head(q).n \notin Numbers(Tail(q))
<1>. DEFINE r == Tail(q)
<1>1. /\ Len(q) \in Nat /\ Len(q) # 0 /\ DOMAIN q = 1..Len(q) /\ Head(q) = q[1]
      /\ r \in Seq(S) /\ DOMAIN r = 1..(Len(q) - 1)
      /\ \A i \in 1..(Len(q) - 1) : r[i] = q[i + 1]
  OBVIOUS
<1>2. Head(q) \in S
  BY <1>1
<1>3. \A i \in DOMAIN q : i = 1 \/ (i - 1 \in DOMAIN r /\ r[i - 1] = q[i])
  BY <1>1
<1>4. \A i \in DOMAIN r : i + 1 \in DOMAIN q /\ r[i] = q[i + 1] /\ i + 1 # 1 /\ i \in Nat
  BY <1>1
<1>5. 1 \in DOMAIN q
  BY <1>1
<1>. HIDE DEF r
<1>6. Numbers(q) = Numbers(r) \cup {Head(q).n}
  <2>1. Numbers(q) \subseteq Numbers(r) \cup {Head(q).n}
    BY <1>1, <1>3 DEF Numbers
  <2>2. Numbers(r) \subseteq Numbers(q) /\ Head(q).n \in Numbers(q)
    BY <1>1, <1>4, <1>5 DEF Numbers
  <2>. QED
    BY <2>1, <2>2
<1>7. ASSUME Distinct(q) PROVE Distinct(r) /\ Head(q).n \notin Numbers(r)
  <2>1. ASSUME NEW i \in DOMAIN r, NEW j \in DOMAIN r, r[i].n = r[j].n PROVE i = j
    <3>1. i + 1 = j + 1
      BY <1>4, <1>7, <2>1 DEF Distinct
    <3>. QED
      BY <1>4, <3>1
  <2>2. \A i \in DOMAIN r : r[i].n # Head(q).n
    BY <1>1, <1>4, <1>5, <1>7 DEF Distinct
  <2>. QED
    BY <2>1, <2>2 DEF Distinct, Numbers
<1>. QED
  BY <1>1, <1>2, <1>6, <1>7 DEF r

-------------------------------------------------------------------------------
(* The word GET returns.                                                      *)

\* Quotient and remainder are what the two halves of a sum say.
LEMMA DivMod ==
    ASSUME NEW a \in Nat, NEW r \in Nat, NEW n \in Nat, r < n
    PROVE  (a * n + r) % n = r /\ (a * n + r) \div n = a
OBVIOUS

\* A number is made of its quotient and its remainder.
LEMMA QuotientRemainder ==
    ASSUME NEW x \in Nat, NEW n \in Nat \ {0}
    PROVE  /\ x \div n \in Nat /\ x % n \in 0..(n-1) /\ x % n <= x
           /\ x = (x \div n) * n + (x % n)
OBVIOUS

\* The word is negative exactly when the upper half of the ID's low half-word is set; otherwise
\* its upper half is the ID without what does not fit.
LEMMA EncodedFacts ==
    ASSUME NEW e \in Events
    PROVE  /\ Encoded(e, ON_CLICK) < 0 <=> ~(2 * (e.widget % HalfWord) < HalfWord)
           /\ ~(Encoded(e, ON_CLICK) < 0) => Encoded(e, ON_CLICK) \div HalfWord = e.widget % HalfWord
           /\ e.widget % HalfWord \in 0..MaxID
           /\ e.widget < HalfWord => e.widget % HalfWord = e.widget
<1>. DEFINE H == HalfWord
            w == e.widget
            a == w \div H
            b == w % H
            HH == H * H
            k == H \div 2
<1>1. H \in Nat \ {0, 1} /\ H % 2 = 0 /\ w \in 0..MaxID /\ MaxID \in Nat
  BY EventAssumption DEF Events
<1>. HIDE DEF H, w
<1>2. a \in Nat /\ b \in 0..(H-1) /\ b <= w /\ w = a * H + b
  <2>1. w \in Nat /\ H \in Nat \ {0}
    BY <1>1
  <2>. QED
    BY <2>1, QuotientRemainder
<1>3. k \in Nat /\ H = k * 2
  <2>1. H \div 2 \in Nat /\ H = (H \div 2) * 2 + (H % 2)
    BY <1>1, QuotientRemainder
  <2>. QED
    BY <1>1, <2>1
<1>4. w < H => b = w
  BY <1>1
<1>. HIDE DEF a, b, k
<1>5. b * H + 1 \in Nat /\ b * H + 1 < HH /\ HH \in Nat /\ b * H \in Nat /\ k * H \in Nat
  <2>1. b * H <= (H - 1) * H
    BY <1>1, <1>2
  <2>2. (H - 1) * H = HH - H
    BY <1>1
  <2>3. b * H \in Nat /\ HH \in Nat /\ k * H \in Nat
    BY <1>1, <1>2, <1>3
  <2>. HIDE DEF HH
  <2>. QED
    BY <1>1, <2>1, <2>2, <2>3
<1>. DEFINE r == b * H + 1
<1>6. (w * H + 1) % HH = r
  <2>1. w * H + 1 = a * HH + r
    BY <1>1, <1>2
  <2>2. r \in Nat /\ r < HH
    BY <1>5
  <2>. HIDE DEF HH, r
  <2>3. (a * HH + r) % HH = r
    BY <1>2, <1>5, <2>2, DivMod
  <2>. QED
    BY <2>1, <2>3
<1>7. r \div H = b
  BY <1>1, <1>2, DivMod
<1>8. HH \div 2 = k * H
  <2>1. HH = (k * H) * 2 + 0
    BY <1>1, <1>3
  <2>. HIDE DEF HH
  <2>. QED
    BY <1>5, <2>1, DivMod
<1>9. r < k * H <=> b < k
  <2>1. CASE b < k
    <3>1. b + 1 <= k /\ b \in Nat
      BY <1>2, <1>3, <2>1
    <3>2. (b + 1) * H <= k * H
      BY <1>1, <1>3, <3>1
    <3>3. (b + 1) * H = b * H + H
      BY <1>1, <3>1
    <3>. QED
      BY <1>1, <1>5, <2>1, <3>2, <3>3
  <2>2. CASE b >= k
    <3>1. b * H >= k * H
      BY <1>1, <1>2, <1>3, <2>2
    <3>. QED
      BY <1>2, <1>3, <1>5, <2>2, <3>1
  <2>. QED
    BY <1>2, <1>3, <2>1, <2>2
<1>10. 2 * b < H <=> b < k
  BY <1>2, <1>3
<1>. DEFINE word == Encoded(e, ON_CLICK)
<1>11. word = IF r >= k * H THEN r - HH ELSE r
  BY <1>6, <1>8 DEF Encoded, ON_CLICK, H, w
<1>. HIDE DEF word, HH, r
<1>12. r \in Nat /\ r < HH /\ HH \in Nat
  BY <1>5 DEF HH, r
<1>13. word < 0 <=> ~(b < k)
  BY <1>5, <1>9, <1>11, <1>12
<1>14. ~(word < 0) => word \div H = b
  BY <1>5, <1>7, <1>11, <1>12
<1>15. b \in 0..MaxID
  BY <1>1, <1>2
<1>. QED
  BY <1>4, <1>10, <1>13, <1>14, <1>15 DEF word, b, w, H

-------------------------------------------------------------------------------
(* The invariant.                                                             *)

\* A handler that was freed, or never allocated, has no event.
ListInv ==
    /\ NoRepeat(handlerList)
    /\ \A h \in Handlers : h \notin Elems(handlerList) => eventQueue[h] = <<>>

\* A widget does not outlive its owner, and only a process that was started is posted to.
OwnerInv ==
    /\ \A w \in widgets : w[2] \in live
    /\ pc \in {"lookup", "post"} => target \in started
    /\ \A p \in Pids : p \notin started => accepted[p] = {}

\* The pointer the desktop thread holds between its lookup and its use: stale when the process
\* has exited, but as long as it lives it is what the next GET will find.
PointerInv ==
    /\ pc # "idle" => event.n \in 1..MaxInputs
    /\ pc = "post" => handler \in Handlers
    /\ pc = "post" /\ target \in live => handler = getHandler(target)

\* Input m has left the ring.
Past(m) == m <= inputs /\ \A i \in DOMAIN inputQueue : m < inputQueue[i]

PastInv ==
    /\ \A i \in DOMAIN inputQueue : inputQueue[i] <= inputs
    /\ Past(event.n)
    /\ \A h \in Handlers : \A m \in Numbers(eventQueue[h]) : Past(m)
    /\ \A p \in Pids : \A m \in Numbers(fetched[p]) : Past(m)

\* Every input is in one place: in the hands of the desktop thread, on one queue or in one
\* history, once.
OnceInv ==
    /\ \A h \in Handlers : Distinct(eventQueue[h])
    /\ \A p \in Pids : Distinct(fetched[p])
    /\ \A h, k \in Handlers : h # k => Numbers(eventQueue[h]) \cap Numbers(eventQueue[k]) = {}
    /\ \A p, q \in Pids : p # q => Numbers(fetched[p]) \cap Numbers(fetched[q]) = {}
    /\ \A h \in Handlers, p \in Pids : Numbers(eventQueue[h]) \cap Numbers(fetched[p]) = {}
    /\ pc # "idle" =>
         /\ \A h \in Handlers : event.n \notin Numbers(eventQueue[h])
         /\ \A p \in Pids : event.n \notin Numbers(fetched[p])

IInv ==
    /\ TypeOK /\ ListInv /\ OwnerInv /\ PointerInv
    /\ InputsAccountedFor /\ PastInv /\ OnceInv
    /\ SmallIDsReceived /\ AcceptedIsDeliverable

\* The lookup in the terms of the lemmas above.
LEMMA GetHandlerIs ==
    ASSUME NEW p
    PROVE  /\ getHandler(p) = LastOwned(handlerList, hpid, p)
           /\ getHandler(p)' = LastOwned(handlerList', hpid', p)
BY DEF getHandler, HandlersOf, LastOwned, Owned

\* A lookup returns a handler of the process that is on the list, or none.
LEMMA GetHandlerFacts ==
    ASSUME TypeOK, NEW p, getHandler(p) # NoHandler
    PROVE  getHandler(p) \in Handlers /\ getHandler(p) \in Elems(handlerList) /\ hpid[getHandler(p)] = p
<1>1. IsLast(handlerList, hpid, p, getHandler(p))
  BY GetHandlerIs, LastOwnedFacts DEF TypeOK
<1>2. Elems(handlerList) \subseteq Handlers
  BY DEF TypeOK, Elems
<1>. QED
  BY <1>1, <1>2 DEF IsLast

\* The invariant gives what the run checks.
LEMMA IInvSound == IInv => EventsSound
<1>. SUFFICES ASSUME IInv PROVE EventsSound
  OBVIOUS
<1>1. Elems(handlerList) \subseteq Handlers
  BY DEF IInv, TypeOK, Elems
<1>2. AtMostOnce
  <2>1. ASSUME NEW p \in Pids, NEW q \in Pids, NEW i \in DOMAIN fetched[p],
               NEW j \in DOMAIN fetched[q], fetched[p][i].n = fetched[q][j].n
        PROVE  p = q /\ i = j
    <3>1. fetched[p][i].n \in Numbers(fetched[p]) /\ fetched[p][i].n \in Numbers(fetched[q])
      BY <2>1 DEF Numbers
    <3>2. p = q
      BY <3>1 DEF IInv, OnceInv
    <3>. QED
      BY <2>1, <3>2 DEF IInv, OnceInv, Distinct
  <2>. QED
    BY <1>1, <2>1 DEF AtMostOnce, IInv, OnceInv
<1>. QED
  BY <1>2 DEF IInv, EventsSound

\* The invariant holds before the first process.
LEMMA InitIInv == Init => IInv
<1>. SUFFICES ASSUME Init PROVE IInv
  OBVIOUS
<1>. USE EventAssumption DEF Init
<1>1. TypeOK
  <2>1. NoEvent \in Events
    BY DEF NoEvent, Events
  <2>2. /\ hpid \in [Handlers -> Pids \cup {NoPid}]
        /\ eventQueue \in [Handlers -> Seq(Events)]
        /\ accepted \in [Pids -> SUBSET (1..MaxInputs)]
        /\ fetched \in [Pids -> Seq(Events)]
        /\ received \in [Pids -> Seq(Events)]
    OBVIOUS
  <2>3. handlerList \in Seq(Handlers) /\ inputQueue \in Seq(1..MaxInputs) /\ Len(inputQueue) <= Capacity
    OBVIOUS
  <2>4. widgetIDCounter \in FirstID..MaxID /\ {inputs, taken} \subseteq 0..MaxInputs
        /\ overflow \in 0..MaxInputs
    OBVIOUS
  <2>. QED
    BY <2>1, <2>2, <2>3, <2>4 DEF TypeOK
<1>2. /\ \A h \in Handlers : eventQueue[h] = <<>>
      /\ \A p \in Pids : accepted[p] = {} /\ fetched[p] = <<>> /\ received[p] = <<>>
  OBVIOUS
<1>3. DOMAIN <<>> = {} /\ Len(<<>>) = 0
  OBVIOUS
<1>4. ListInv /\ OwnerInv /\ PointerInv
  BY <1>2, <1>3 DEF ListInv, OwnerInv, PointerInv, NoRepeat
<1>5. InputsAccountedFor /\ PastInv
  BY <1>2, <1>3 DEF InputsAccountedFor, PastInv, Past, Numbers, NoEvent
<1>6. OnceInv
  BY <1>2, <1>3 DEF OnceInv, Distinct, Numbers
<1>7. SmallIDsReceived
  <2>1. \A P : SubSeqAt(<<>>, P) \in Seq({}) /\ Elems(SubSeqAt(<<>>, P)) = {}
    <3>1. ASSUME NEW P PROVE SubSeqAt(<<>>, P) \in Seq({}) /\ Elems(SubSeqAt(<<>>, P)) = {}
      <4>1. <<>> \in Seq({})
        OBVIOUS
      <4>2. /\ SubSeqAt(<<>>, P) \in Seq({})
            /\ Elems(SubSeqAt(<<>>, P)) = {<<>>[i] : i \in DOMAIN <<>> \cap P}
        BY <4>1, SubSeqAtFacts
      <4>. QED
        BY <1>3, <4>2
    <3>. QED
      BY <3>1
  <2>2. \A s : s \in Seq({}) => Len(s) = 0 /\ DOMAIN s = {}
    OBVIOUS
  <2>. QED
    BY <1>2, <1>3, <2>1, <2>2 DEF SmallIDsReceived, Positive
<1>8. AcceptedIsDeliverable
  BY DEF AcceptedIsDeliverable
<1>. QED
  BY <1>1, <1>4, <1>5, <1>6, <1>7, <1>8 DEF IInv

-------------------------------------------------------------------------------
(* The steps of the processes.                                                *)

\* What a step that leaves the input, the event in hand, the queues and the histories alone
\* keeps.
LEMMA QuietParts ==
    ASSUME IInv, UNCHANGED <<inputVars, pc, event, eventQueue, history>>
    PROVE  InputsAccountedFor' /\ PastInv' /\ OnceInv' /\ SmallIDsReceived'
<1>. USE DEF inputVars, history, IInv
<1>1. InputsAccountedFor' /\ PastInv'
  BY DEF InputsAccountedFor, PastInv, Past
<1>2. OnceInv' /\ SmallIDsReceived'
  BY DEF OnceInv, SmallIDsReceived
<1>. QED
  BY <1>1, <1>2

\* A process starts: nothing was ever posted to it.
LEMMA StartProcessIInv ==
    ASSUME IInv, NEW p \in Pids, StartProcess(p)
    PROVE  IInv'
<1>. USE DEF StartProcess, widgetVars, handlerVars, inputVars, desktopVars, history
<1>1. TypeOK'
  BY DEF IInv, TypeOK
<1>2. ListInv' /\ OwnerInv'
  BY DEF IInv, ListInv, OwnerInv, TypeOK
<1>3. \A r : getHandler(r)' = getHandler(r)
  BY DEF getHandler, HandlersOf
<1>4. target # p \/ pc # "post"
  BY DEF IInv, OwnerInv
<1>5. PointerInv'
  BY <1>3, <1>4 DEF IInv, PointerInv
<1>6. AcceptedIsDeliverable'
  <2>1. accepted[p] = {}
    BY DEF IInv, OwnerInv
  <2>2. ASSUME NEW r \in live'
        PROVE  accepted[r] \subseteq Numbers(fetched[r]) \cup
                 (IF getHandler(r) = NoHandler THEN {} ELSE Numbers(eventQueue[getHandler(r)]))
    <3>1. r = p \/ r \in live
      OBVIOUS
    <3>. QED
      BY <2>1, <3>1 DEF IInv, AcceptedIsDeliverable
  <2>. QED
    BY <1>3, <2>2 DEF AcceptedIsDeliverable
<1>. QED
  BY <1>1, <1>2, <1>5, <1>6, QuietParts DEF IInv

\* A widget is created: its owner lives.
LEMMA CreateWidgetIInv ==
    ASSUME IInv, NEW p \in Pids, CreateWidget(p)
    PROVE  IInv'
<1>. USE DEF CreateWidget, procVars, handlerVars, inputVars, desktopVars, history
<1>1. TypeOK'
  <2>1. widgetIDCounter' \in FirstID..MaxID /\ widgets' \subseteq (FirstID..MaxID) \X Pids
    <3>1. /\ widgetIDCounter \in FirstID..MaxID /\ widgets \subseteq (FirstID..MaxID) \X Pids
          /\ FirstID \in Nat /\ MaxID \in Nat
      BY EventAssumption DEF IInv, TypeOK
    <3>2. /\ widgetIDCounter < MaxID /\ widgetIDCounter' = widgetIDCounter + 1
          /\ widgets' = widgets \cup {<<widgetIDCounter, p>>}
      OBVIOUS
    <3>3. widgetIDCounter' \in FirstID..MaxID
      BY ONLY <3>1, <3>2
    <3>4. widgets' \subseteq (FirstID..MaxID) \X Pids
      BY ONLY <3>1, <3>2, p \in Pids
    <3>. QED
      BY <3>3, <3>4
  <2>. QED
    BY <2>1 DEF IInv, TypeOK
<1>2. ListInv' /\ OwnerInv'
  BY DEF IInv, ListInv, OwnerInv, TypeOK
<1>3. \A r : getHandler(r)' = getHandler(r)
  BY DEF getHandler, HandlersOf
<1>4. PointerInv' /\ AcceptedIsDeliverable'
  BY <1>3 DEF IInv, PointerInv, AcceptedIsDeliverable
<1>. QED
  BY <1>1, <1>2, <1>4, QuietParts DEF IInv

\* A handler is registered: the lookups of every process that has one give the same as before.
LEMMA CreateHandlerIInv ==
    ASSUME IInv, NEW p \in Pids, NEW h \in Handlers, createNewHandler(p, h)
    PROVE  IInv'
<1>1. /\ p \in live /\ h \in Handlers \ Elems(handlerList)
      /\ handlerList' = Add(handlerList, h) /\ hpid' = [hpid EXCEPT ![h] = p]
      /\ UNCHANGED <<procVars, widgetVars, inputVars, desktopVars, history>>
  BY DEF createNewHandler
<1>2. eventQueue' = eventQueue
  <2>1. eventQueue[h] = <<>> /\ eventQueue \in [Handlers -> Seq(Events)]
    BY <1>1 DEF IInv, ListInv, TypeOK
  <2>. QED
    BY <2>1 DEF createNewHandler
<1>3. /\ handlerList \in Seq(Handlers) /\ NoRepeat(handlerList)
      /\ hpid \in [Handlers -> Pids \cup {NoPid}] /\ Elems(handlerList) \subseteq Handlers
  <2>1. /\ handlerList \in Seq(Handlers) /\ NoRepeat(handlerList)
        /\ hpid \in [Handlers -> Pids \cup {NoPid}]
    BY DEF IInv, TypeOK, ListInv
  <2>2. \A i \in DOMAIN handlerList : handlerList[i] \in Handlers
    BY ONLY <2>1
  <2>. QED
    BY <2>1, <2>2 DEF Elems
<1>4. /\ handlerList' \in Seq(Handlers) /\ NoRepeat(handlerList')
      /\ Elems(handlerList') = {h} \cup Elems(handlerList)
  BY <1>1, <1>3, AddFacts
<1>. USE DEF procVars, widgetVars, inputVars, desktopVars, history
<1>5. TypeOK'
  <2>1. hpid' \in [Handlers -> Pids \cup {NoPid}]
    BY <1>1, <1>3
  <2>. QED
    BY <1>1, <1>2, <1>4, <2>1 DEF IInv, TypeOK
<1>6. ListInv' /\ OwnerInv'
  BY <1>1, <1>2, <1>4 DEF IInv, ListInv, OwnerInv
<1>7. ASSUME NEW r \in Pids, r # p \/ getHandler(r) # NoHandler PROVE getHandler(r)' = getHandler(r)
  <2>1. LastOwned(handlerList', hpid', r) = LastOwned(handlerList, hpid, r)
    <3>1. r # p \/ LastOwned(handlerList, hpid, r) # NoHandler
      BY <1>7, GetHandlerIs
    <3>. DEFINE q == handlerList  hp == hpid
    <3>2. /\ q \in Seq(Handlers) /\ NoRepeat(q) /\ h \notin Elems(q)
          /\ handlerList' = Add(q, h)
      BY <1>1, <1>3
    <3>3. hpid'[h] = p /\ \A x \in Handlers \ {h} : hpid'[x] = hp[x]
      BY <1>1, <1>3
    <3>. HIDE DEF q, hp
    <3>4. hpid'[h] # r \/ LastOwned(q, hp, r) # NoHandler
      BY <3>1, <3>3 DEF q, hp
    <3>5. LastOwned(Add(q, h), hpid', r) = LastOwned(q, hp, r)
      BY ONLY <3>2, <3>3, <3>4, LookupAfterAdd, h \in Handlers
    <3>. QED
      BY <3>2, <3>5 DEF q, hp
  <2>. QED
    BY <2>1, GetHandlerIs
<1>8. PointerInv'
  <2>1. pc = "post" /\ target \in live => target \in Pids /\ getHandler(target) # NoHandler
    BY EventAssumption DEF IInv, PointerInv, TypeOK
  <2>. QED
    BY <1>1, <1>7, <2>1 DEF IInv, PointerInv
<1>9. AcceptedIsDeliverable'
  <2>1. ASSUME NEW r \in live
        PROVE  accepted[r] \subseteq Numbers(fetched[r]) \cup
                 (IF getHandler(r)' = NoHandler THEN {} ELSE Numbers(eventQueue[getHandler(r)']))
    <3>1. r \in Pids
      BY DEF IInv, TypeOK
    <3>. QED
      BY <1>7, <3>1 DEF IInv, AcceptedIsDeliverable
  <2>. QED
    BY <1>1, <1>2, <2>1 DEF AcceptedIsDeliverable
<1>. QED
  BY <1>1, <1>2, <1>5, <1>6, <1>8, <1>9, QuietParts DEF IInv

\* A process exits: its handler goes with what is queued there, and the lookups of the others
\* give the same as before.
LEMMA ProcessExitIInv ==
    ASSUME IInv, NEW p \in Pids, ProcessExit(p)
    PROVE  IInv'
<1>. DEFINE h == getHandler(p)
<1>1. /\ p \in live /\ live' = live \ {p} /\ widgets' = {w \in widgets : w[2] # p}
      /\ UNCHANGED <<started, widgetIDCounter, inputVars, desktopVars, history>>
  BY DEF ProcessExit
<1>. USE DEF inputVars, desktopVars, history
<1>2. /\ handlerList \in Seq(Handlers) /\ NoRepeat(handlerList)
      /\ hpid \in [Handlers -> Pids \cup {NoPid}] /\ Elems(handlerList) \subseteq Handlers
      /\ eventQueue \in [Handlers -> Seq(Events)]
  BY DEF IInv, TypeOK, ListInv, Elems
<1>3. /\ handlerList' \in Seq(Handlers) /\ NoRepeat(handlerList')
      /\ hpid' \in [Handlers -> Pids \cup {NoPid}] /\ eventQueue' \in [Handlers -> Seq(Events)]
      /\ \A k \in Handlers : eventQueue'[k] = eventQueue[k] \/ eventQueue'[k] = <<>>
      /\ \A k \in Handlers : k # h => eventQueue'[k] = eventQueue[k]
      /\ \A k \in Handlers : k \notin Elems(handlerList') => eventQueue'[k] = <<>>
      /\ \A r \in Pids : r # p => getHandler(r)' = getHandler(r)
  <2>1. CASE h = NoHandler
    <3>1. UNCHANGED handlerVars
      BY <2>1 DEF ProcessExit, deleteEventHandler
    <3>2. \A r : getHandler(r)' = getHandler(r)
      BY <3>1 DEF handlerVars, getHandler, HandlersOf
    <3>. QED
      BY <1>2, <3>1, <3>2 DEF handlerVars, IInv, ListInv
  <2>2. CASE h # NoHandler
    <3>1. h \in Handlers /\ hpid[h] = p
      BY <2>2, GetHandlerFacts DEF IInv
    <3>2. /\ handlerList' = RemoveFirsts(handlerList, {h})
          /\ hpid' = [hpid EXCEPT ![h] = NoPid]
          /\ eventQueue' = [eventQueue EXCEPT ![h] = <<>>]
      BY <2>2 DEF ProcessExit, deleteEventHandler
    <3>. HIDE DEF h
    <3>3. /\ handlerList' \in Seq(Handlers) /\ NoRepeat(handlerList')
          /\ Elems(handlerList') = Elems(handlerList) \ {h}
      BY <1>2, <3>2, RemoveFirstsFacts
    <3>4. ASSUME NEW r \in Pids, r # p PROVE getHandler(r)' = getHandler(r)
      <4>1. LastOwned(handlerList', hpid', r) = LastOwned(handlerList, hpid, r)
        BY <1>2, <3>1, <3>2, <3>4, LookupAfterRemove
      <4>. QED
        BY <4>1, GetHandlerIs
    <3>5. /\ hpid' \in [Handlers -> Pids \cup {NoPid}] /\ eventQueue' \in [Handlers -> Seq(Events)]
          /\ eventQueue'[h] = <<>> /\ \A k \in Handlers : k # h => eventQueue'[k] = eventQueue[k]
      BY <1>2, <3>1, <3>2
    <3>. QED
      BY <3>3, <3>4, <3>5 DEF IInv, ListInv
  <2>. QED
    BY <2>1, <2>2
<1>4. TypeOK'
  <2>1. live' \subseteq started /\ started \subseteq Pids
    BY <1>1 DEF IInv, TypeOK
  <2>2. widgets' \subseteq (FirstID..MaxID) \X Pids
    BY <1>1 DEF IInv, TypeOK
  <2>. QED
    BY <1>1, <1>3, <2>1, <2>2 DEF IInv, TypeOK
<1>. HIDE DEF h
<1>5. ListInv' /\ OwnerInv'
  BY <1>1, <1>3 DEF IInv, ListInv, OwnerInv, TypeOK
<1>6. PointerInv'
  <2>1. pc \in {"lookup", "post"} => target \in Pids
    BY DEF IInv, OwnerInv, TypeOK
  <2>. QED
    BY <1>1, <1>3, <2>1 DEF IInv, PointerInv
<1>7. \A k \in Handlers : Numbers(eventQueue'[k]) \subseteq Numbers(eventQueue[k])
  <2>1. Numbers(<<>>) = {}
    BY DEF Numbers
  <2>. QED
    BY <1>3, <2>1
<1>8. InputsAccountedFor' /\ SmallIDsReceived'
  BY <1>1 DEF IInv, InputsAccountedFor, SmallIDsReceived
<1>9. PastInv'
  <2>1. \A m : Past(m)' <=> Past(m)
    BY <1>1 DEF Past
  <2>. QED
    BY <1>1, <1>7, <2>1 DEF IInv, PastInv
<1>10. OnceInv'
  <2>1. \A k \in Handlers : Distinct(eventQueue'[k])
    <3>1. Distinct(<<>>)
      BY DEF Distinct
    <3>. QED
      BY <1>3, <3>1 DEF IInv, OnceInv
  <2>2. \A k, g \in Handlers : k # g => Numbers(eventQueue'[k]) \cap Numbers(eventQueue'[g]) = {}
    BY <1>7 DEF IInv, OnceInv
  <2>3. \A k \in Handlers, r \in Pids : Numbers(eventQueue'[k]) \cap Numbers(fetched[r]) = {}
    BY <1>7 DEF IInv, OnceInv
  <2>4. pc # "idle" => \A k \in Handlers : event.n \notin Numbers(eventQueue'[k])
    BY <1>7 DEF IInv, OnceInv
  <2>. QED
    BY <1>1, <2>1, <2>2, <2>3, <2>4 DEF IInv, OnceInv
<1>11. AcceptedIsDeliverable'
  <2>1. ASSUME NEW r \in live'
        PROVE  accepted[r] \subseteq Numbers(fetched[r]) \cup
                 (IF getHandler(r)' = NoHandler THEN {} ELSE Numbers(eventQueue'[getHandler(r)']))
    <3>1. r \in live /\ r \in Pids /\ r # p
      BY <1>1 DEF IInv, TypeOK
    <3>2. getHandler(r)' = getHandler(r)
      BY <1>3, <3>1
    <3>3. getHandler(r) # NoHandler =>
              getHandler(r) \in Handlers /\ eventQueue'[getHandler(r)] = eventQueue[getHandler(r)]
      <4>1. ASSUME getHandler(r) # NoHandler PROVE getHandler(r) \in Handlers /\ getHandler(r) # h
        <5>1. getHandler(r) \in Handlers /\ hpid[getHandler(r)] = r
          BY <4>1, GetHandlerFacts DEF IInv
        <5>2. h = NoHandler \/ hpid[h] = p
          BY GetHandlerFacts DEF IInv, h
        <5>. QED
          BY <3>1, <5>1, <5>2, EventAssumption
      <4>. QED
        BY <1>3, <4>1
    <3>. QED
      BY <3>1, <3>2, <3>3 DEF IInv, AcceptedIsDeliverable
  <2>. QED
    BY <1>1, <2>1 DEF AcceptedIsDeliverable
<1>. QED
  BY <1>4, <1>5, <1>6, <1>8, <1>9, <1>10, <1>11 DEF IInv

\* GET moves one event from the queue its process reads to the history of the process; what user
\* space unpacks is that event unless the sign of the word is set.
LEMMA GetIInv ==
    ASSUME IInv, NEW p \in Pids, Get(p)
    PROVE  IInv'
<1>. DEFINE h == getHandler(p)
            e == Head(eventQueue[h])
            word == Encoded(e, ON_CLICK)
            f == [n |-> e.n, widget |-> word \div HalfWord]
<1>1. /\ p \in live /\ h # NoHandler /\ eventQueue[h] # <<>>
      /\ eventQueue' = [eventQueue EXCEPT ![h] = Tail(@)]
      /\ fetched' = [fetched EXCEPT ![p] = Append(@, e)]
      /\ received' = IF word < 0 THEN received ELSE [received EXCEPT ![p] = Append(@, f)]
      /\ UNCHANGED <<procVars, widgetVars, handlerList, hpid, inputVars, desktopVars, accepted>>
  BY DEF Get
<1>. USE DEF procVars, widgetVars, inputVars, desktopVars
<1>2. h \in Handlers /\ h \in Elems(handlerList) /\ hpid[h] = p
  BY <1>1, GetHandlerFacts DEF IInv
<1>. HIDE DEF h
<1>3. /\ eventQueue \in [Handlers -> Seq(Events)] /\ eventQueue[h] \in Seq(Events)
      /\ fetched \in [Pids -> Seq(Events)] /\ received \in [Pids -> Seq(Events)]
  BY <1>2 DEF IInv, TypeOK
<1>4. /\ e \in Events /\ Tail(eventQueue[h]) \in Seq(Events)
      /\ Numbers(eventQueue[h]) = Numbers(Tail(eventQueue[h])) \cup {e.n}
      /\ Distinct(eventQueue[h]) =>
            Distinct(Tail(eventQueue[h])) /\ e.n \notin Numbers(Tail(eventQueue[h]))
  BY <1>1, <1>3, NumbersTail
<1>. HIDE DEF e
<1>5. /\ eventQueue'[h] = Tail(eventQueue[h])
      /\ \A k \in Handlers : k # h => eventQueue'[k] = eventQueue[k]
      /\ fetched'[p] = Append(fetched[p], e)
      /\ \A r \in Pids : r # p => fetched'[r] = fetched[r]
  BY <1>1, <1>2, <1>3
<1>6. /\ Numbers(fetched'[p]) = Numbers(fetched[p]) \cup {e.n}
      /\ Distinct(fetched[p]) /\ e.n \notin Numbers(fetched[p]) => Distinct(fetched'[p])
  BY <1>3, <1>4, <1>5, NumbersAppend
<1>7. /\ word < 0 <=> ~(2 * (e.widget % HalfWord) < HalfWord)
      /\ ~(word < 0) => /\ f.widget = e.widget % HalfWord
                        /\ f \in Events
                        /\ f.n = e.n
                        /\ e.widget < HalfWord => f = e
  <2>1. /\ word < 0 <=> ~(2 * (e.widget % HalfWord) < HalfWord)
        /\ ~(word < 0) => word \div HalfWord = e.widget % HalfWord
        /\ e.widget % HalfWord \in 0..MaxID
        /\ e.widget < HalfWord => e.widget % HalfWord = e.widget
    BY <1>4, EncodedFacts
  <2>. HIDE DEF word
  <2>. QED
    BY <1>4, <2>1 DEF Events
<1>. HIDE DEF word, f
<1>8. TypeOK'
  <2>1. eventQueue' \in [Handlers -> Seq(Events)] /\ fetched' \in [Pids -> Seq(Events)]
    <3>1. p \in Pids /\ Append(fetched[p], e) \in Seq(Events)
      BY <1>3, <1>4
    <3>2. eventQueue' = [eventQueue EXCEPT ![h] = Tail(eventQueue[h])]
          /\ fetched' = [fetched EXCEPT ![p] = Append(fetched[p], e)]
      BY <1>1, <1>2, <1>3
    <3>. QED
      BY <1>2, <1>3, <1>4, <3>1, <3>2
  <2>2. received' \in [Pids -> Seq(Events)]
    BY <1>1, <1>3, <1>7
  <2>. QED
    BY <1>1, <2>1, <2>2 DEF IInv, TypeOK
<1>9. \A r : getHandler(r)' = getHandler(r)
  BY <1>1 DEF getHandler, HandlersOf
<1>10. ListInv' /\ OwnerInv' /\ PointerInv'
  BY <1>1, <1>2, <1>5, <1>9 DEF IInv, ListInv, OwnerInv, PointerInv
<1>11. e.n \in Numbers(eventQueue[h])
  BY <1>4
<1>12. InputsAccountedFor' /\ PastInv'
  <2>1. \A m : Past(m)' <=> Past(m)
    BY <1>1 DEF Past
  <2>2. \A k \in Handlers : \A m \in Numbers(eventQueue'[k]) : Past(m)
    BY <1>2, <1>4, <1>5 DEF IInv, PastInv
  <2>3. \A r \in Pids : \A m \in Numbers(fetched'[r]) : Past(m)
    <3>1. Past(e.n) /\ \A r \in Pids : \A m \in Numbers(fetched[r]) : Past(m)
      BY <1>2, <1>11 DEF IInv, PastInv
    <3>2. ASSUME NEW r \in Pids PROVE Numbers(fetched'[r]) \subseteq Numbers(fetched[r]) \cup {e.n}
      <4>1. CASE r = p
        BY <1>6, <4>1
      <4>2. CASE r # p
        BY <1>5, <4>2
      <4>. QED
        BY <4>1, <4>2
    <3>. QED
      BY <3>1, <3>2
  <2>. QED
    BY <1>1, <2>1, <2>2, <2>3 DEF IInv, PastInv, InputsAccountedFor
<1>13. OnceInv'
  <2>1. \A k \in Handlers : Numbers(eventQueue'[k]) \subseteq Numbers(eventQueue[k])
                            /\ e.n \notin Numbers(eventQueue'[k])
    BY <1>2, <1>4, <1>5, <1>11 DEF IInv, OnceInv
  <2>2. \A r \in Pids : e.n \notin Numbers(fetched[r])
    BY <1>2, <1>11 DEF IInv, OnceInv
  <2>3. \A r \in Pids : Numbers(fetched'[r]) = Numbers(fetched[r]) \cup (IF r = p THEN {e.n} ELSE {})
    BY <1>5, <1>6
  <2>4. \A k \in Handlers : Distinct(eventQueue'[k])
    BY <1>2, <1>4, <1>5 DEF IInv, OnceInv
  <2>5. \A r \in Pids : Distinct(fetched'[r])
    BY <1>5, <1>6, <2>2 DEF IInv, OnceInv
  <2>6. \A k, g \in Handlers : k # g => Numbers(eventQueue'[k]) \cap Numbers(eventQueue'[g]) = {}
    BY <2>1 DEF IInv, OnceInv
  <2>7. \A q, r \in Pids : q # r => Numbers(fetched'[q]) \cap Numbers(fetched'[r]) = {}
    BY <2>2, <2>3 DEF IInv, OnceInv
  <2>8. \A k \in Handlers, r \in Pids : Numbers(eventQueue'[k]) \cap Numbers(fetched'[r]) = {}
    BY <2>1, <2>3 DEF IInv, OnceInv
  <2>9. pc # "idle" => /\ \A k \in Handlers : event.n \notin Numbers(eventQueue'[k])
                       /\ \A r \in Pids : event.n \notin Numbers(fetched'[r])
    <3>1. SUFFICES ASSUME pc # "idle"
                   PROVE  /\ \A k \in Handlers : event.n \notin Numbers(eventQueue'[k])
                          /\ \A r \in Pids : event.n \notin Numbers(fetched'[r])
      OBVIOUS
    <3>2. /\ \A k \in Handlers : event.n \notin Numbers(eventQueue[k])
          /\ \A r \in Pids : event.n \notin Numbers(fetched[r])
      BY <3>1 DEF IInv, OnceInv
    <3>3. event.n # e.n
      BY <1>2, <1>11, <3>2
    <3>. QED
      BY <2>1, <2>3, <3>2, <3>3
  <2>. QED
    BY <1>1, <2>4, <2>5, <2>6, <2>7, <2>8, <2>9 DEF OnceInv
<1>14. SmallIDsReceived'
  <2>. DEFINE q == fetched[p]
              P == {i \in DOMAIN q : 2 * (q[i].widget % HalfWord) < HalfWord}
              s == Append(q, e)
              R == {i \in DOMAIN s : 2 * (s[i].widget % HalfWord) < HalfWord}
  <2>1. q \in Seq(Events)
    BY <1>3
  <2>2. /\ \A i \in 1..Len(q) : i \in P <=> i \in R
        /\ Len(q) + 1 \in R <=> 2 * (e.widget % HalfWord) < HalfWord
    <3>1. /\ Len(q) \in Nat /\ DOMAIN q = 1..Len(q) /\ DOMAIN s = 1..(Len(q) + 1)
          /\ s[Len(q) + 1] = e /\ \A i \in 1..Len(q) : s[i] = q[i]
      BY <2>1
    <3>. HIDE DEF q, s
    <3>. QED
      BY <3>1
  <2>3. SubSeqAt(s, R) = IF Len(q) + 1 \in R THEN Append(SubSeqAt(q, P), e) ELSE SubSeqAt(q, P)
    <3>. HIDE DEF q, P, R
    <3>. QED
      BY <1>4, <2>1, <2>2, SubSeqAtAppend
  <2>4. Positive(q) = SubSeqAt(q, P) /\ Positive(fetched'[p]) = SubSeqAt(s, R)
    BY <1>5 DEF Positive
  <2>5. Positive(q) \in Seq(Events)
    <3>. HIDE DEF q, P
    <3>. QED
      BY <2>1, <2>4, SubSeqAtFacts
  <2>6. Positive(fetched'[p]) = IF word < 0 THEN Positive(q) ELSE Append(Positive(q), e)
    BY <1>7, <2>2, <2>3, <2>4
  <2>. HIDE DEF P, R, s
  <2>7. received[p] \in Seq(Events)
    BY <1>3
  <2>8. /\ Len(received[p]) = Len(Positive(q))
        /\ \A i \in DOMAIN Positive(q) :
             /\ received[p][i].n = Positive(q)[i].n
             /\ Positive(q)[i].widget < HalfWord => received[p][i] = Positive(q)[i]
    BY DEF IInv, SmallIDsReceived
  <2>9. \A r \in Pids : r # p => received'[r] = received[r] /\ fetched'[r] = fetched[r]
    BY <1>1, <1>3, <1>5
  <2>10. received'[p] = IF word < 0 THEN received[p] ELSE Append(received[p], f)
    BY <1>1, <1>3
  <2>. DEFINE kept == Positive(fetched'[p])
  <2>11. /\ Len(received'[p]) = Len(kept)
         /\ \A i \in DOMAIN kept :
              /\ received'[p][i].n = kept[i].n
              /\ kept[i].widget < HalfWord => received'[p][i] = kept[i]
    <3>1. CASE word < 0
      BY <2>6, <2>8, <2>10, <3>1
    <3>2. CASE ~(word < 0)
      <4>. DEFINE a == Positive(q)  b == received[p]  l == Len(Positive(q))
      <4>1. /\ kept = Append(a, e) /\ received'[p] = Append(b, f)
            /\ a \in Seq(Events) /\ b \in Seq(Events) /\ Len(a) = l /\ Len(b) = l
            /\ \A i \in DOMAIN a : /\ b[i].n = a[i].n
                                   /\ a[i].widget < HalfWord => b[i] = a[i]
        BY <2>5, <2>6, <2>7, <2>8, <2>10, <3>2
      <4>. HIDE DEF a, b, l, kept
      <4>2. /\ l \in Nat /\ DOMAIN a = 1..l /\ DOMAIN kept = 1..(l + 1) /\ Len(kept) = l + 1
            /\ Len(received'[p]) = l + 1
            /\ kept[l + 1] = e /\ received'[p][l + 1] = f
            /\ \A i \in 1..l : kept[i] = a[i] /\ received'[p][i] = b[i]
        BY <4>1
      <4>3. \A i \in DOMAIN kept : i \in 1..l \/ i = l + 1
        BY <4>2
      <4>. QED
        BY <1>7, <3>2, <4>1, <4>2, <4>3
    <3>. QED
      BY <3>1, <3>2
  <2>. HIDE DEF kept
  <2>12. \A r \in Pids : r # p => Positive(fetched'[r]) = Positive(fetched[r])
    BY <2>9
  <2>. QED
    BY <2>9, <2>11, <2>12 DEF IInv, SmallIDsReceived, kept
<1>15. AcceptedIsDeliverable'
  <2>1. ASSUME NEW r \in live
        PROVE  accepted[r] \subseteq Numbers(fetched'[r]) \cup
                 (IF getHandler(r) = NoHandler THEN {} ELSE Numbers(eventQueue'[getHandler(r)]))
    <3>1. accepted[r] \subseteq Numbers(fetched[r]) \cup
                 (IF getHandler(r) = NoHandler THEN {} ELSE Numbers(eventQueue[getHandler(r)]))
      BY DEF IInv, AcceptedIsDeliverable
    <3>2. CASE r = p
      BY <1>1, <1>4, <1>5, <1>6, <3>1, <3>2 DEF h
    <3>3. CASE r # p
      <4>1. r \in Pids
        BY DEF IInv, TypeOK
      <4>2. getHandler(r) # NoHandler => getHandler(r) \in Handlers /\ hpid[getHandler(r)] = r
        BY GetHandlerFacts DEF IInv
      <4>. QED
        BY <1>2, <1>5, <3>1, <3>3, <4>1, <4>2
    <3>. QED
      BY <3>2, <3>3
  <2>. QED
    BY <1>1, <1>9, <2>1 DEF AcceptedIsDeliverable
<1>. QED
  BY <1>8, <1>10, <1>12, <1>13, <1>14, <1>15 DEF IInv

-------------------------------------------------------------------------------
(* The mouse interrupt and the desktop thread.                                *)

\* What a step that leaves the registries and the queues alone keeps.
LEMMA InputParts ==
    ASSUME IInv, UNCHANGED <<procVars, widgetVars, handlerVars, history>>
    PROVE  /\ ListInv' /\ SmallIDsReceived' /\ AcceptedIsDeliverable'
           /\ \A r : getHandler(r)' = getHandler(r)
<1>. USE DEF procVars, widgetVars, handlerVars, history
<1>1. \A r : getHandler(r)' = getHandler(r)
  BY DEF getHandler, HandlersOf
<1>2. AcceptedIsDeliverable'
  BY <1>1 DEF IInv, AcceptedIsDeliverable
<1>3. ListInv' /\ SmallIDsReceived'
  BY DEF IInv, ListInv, SmallIDsReceived
<1>. QED
  BY <1>1, <1>2, <1>3

\* An interrupt: its number is above all the others.
LEMMA PushIInv ==
    ASSUME IInv, Push
    PROVE  IInv'
<1>1. /\ inputs < MaxInputs /\ inputs' = inputs + 1
      /\ UNCHANGED <<taken, procVars, widgetVars, handlerVars, desktopVars, history>>
      /\ \/ overflow' = overflow + 1 /\ inputQueue' = inputQueue
         \/ /\ Len(inputQueue) < Capacity /\ overflow' = overflow
            /\ inputQueue' = Append(inputQueue, inputs + 1)
  <2>1. Len(inputQueue) \in Nat /\ Capacity \in Nat
    BY EventAssumption DEF IInv, TypeOK
  <2>. QED
    BY <2>1 DEF Push
<1>2. /\ inputs \in Nat /\ taken \in Nat /\ overflow \in Nat /\ MaxInputs \in Nat
      /\ inputQueue \in Seq(1..MaxInputs) /\ Len(inputQueue) \in Nat
      /\ DOMAIN inputQueue = 1..Len(inputQueue)
      /\ inputs = Len(inputQueue) + overflow + taken
      /\ \A i, j \in DOMAIN inputQueue : i < j => inputQueue[i] < inputQueue[j]
      /\ \A i \in DOMAIN inputQueue : inputQueue[i] <= inputs /\ inputQueue[i] \in 1..MaxInputs
  <2>1. /\ inputs \in Nat /\ taken \in Nat /\ overflow \in Nat /\ MaxInputs \in Nat
        /\ inputQueue \in Seq(1..MaxInputs)
    BY EventAssumption DEF IInv, TypeOK
  <2>2. /\ Len(inputQueue) \in Nat /\ DOMAIN inputQueue = 1..Len(inputQueue)
        /\ \A i \in DOMAIN inputQueue : inputQueue[i] \in 1..MaxInputs
    BY <2>1
  <2>. QED
    BY <2>1, <2>2 DEF IInv, InputsAccountedFor, PastInv
<1>3. /\ inputQueue' \in Seq(1..MaxInputs) /\ Len(inputQueue') <= Capacity
      /\ \A i, j \in DOMAIN inputQueue' : i < j => inputQueue'[i] < inputQueue'[j]
      /\ \A i \in DOMAIN inputQueue' : inputQueue'[i] <= inputs'
      /\ \A i \in DOMAIN inputQueue' : inputQueue'[i] = inputs + 1
                                       \/ (i \in DOMAIN inputQueue /\ inputQueue'[i] = inputQueue[i])
      /\ inputs' = Len(inputQueue') + overflow' + taken
  <2>1. CASE overflow' = overflow + 1 /\ inputQueue' = inputQueue
    BY <1>1, <1>2, <2>1 DEF IInv, TypeOK
  <2>2. CASE /\ Len(inputQueue) < Capacity /\ overflow' = overflow
             /\ inputQueue' = Append(inputQueue, inputs + 1)
    <3>1. inputs + 1 \in 1..MaxInputs /\ Capacity \in Nat
      BY <1>1, <1>2, EventAssumption
    <3>2. /\ inputQueue' \in Seq(1..MaxInputs) /\ Len(inputQueue') = Len(inputQueue) + 1
          /\ DOMAIN inputQueue' = 1..(Len(inputQueue) + 1)
          /\ inputQueue'[Len(inputQueue) + 1] = inputs + 1
          /\ \A i \in 1..Len(inputQueue) : inputQueue'[i] = inputQueue[i]
      BY <1>2, <2>2, <3>1
    <3>3. \A i \in DOMAIN inputQueue' : i \in 1..Len(inputQueue) \/ i = Len(inputQueue) + 1
      BY <1>2, <3>2
    <3>4. ASSUME NEW i \in DOMAIN inputQueue', NEW j \in DOMAIN inputQueue', i < j
          PROVE  inputQueue'[i] < inputQueue'[j]
      <4>1. i \in 1..Len(inputQueue)
        BY <1>2, <3>2, <3>4
      <4>2. CASE j \in 1..Len(inputQueue)
        BY <1>2, <3>2, <3>4, <4>1, <4>2
      <4>3. CASE j = Len(inputQueue) + 1
        <5>1. inputQueue'[i] <= inputs /\ inputQueue'[i] \in Nat
          BY <1>2, <3>2, <4>1
        <5>. QED
          BY <1>2, <3>2, <4>3, <5>1
      <4>. QED
        BY <3>3, <4>2, <4>3
    <3>5. \A i \in DOMAIN inputQueue' : inputQueue'[i] <= inputs'
      BY <1>1, <1>2, <3>2, <3>3
    <3>6. Len(inputQueue') <= Capacity /\ inputs' = Len(inputQueue') + overflow' + taken
      <4>1. Len(inputQueue) < Capacity /\ overflow' = overflow /\ Len(inputQueue') = Len(inputQueue) + 1
        BY <2>2, <3>2
      <4>2. /\ Len(inputQueue) \in Nat /\ overflow \in Nat /\ taken \in Nat /\ Capacity \in Nat
            /\ inputs = Len(inputQueue) + overflow + taken /\ inputs' = inputs + 1
        BY <1>1, <1>2, <3>1
      <4>. QED
        BY <4>1, <4>2
    <3>. QED
      BY <1>2, <3>2, <3>3, <3>4, <3>5, <3>6
  <2>. QED
    BY <1>1, <2>1, <2>2
<1>. USE DEF procVars, widgetVars, desktopVars, history
<1>4. TypeOK'
  <2>1. {inputs', taken'} \subseteq 0..MaxInputs /\ overflow' \in 0..MaxInputs
    <3>1. Len(inputQueue') \in Nat
      BY <1>3
    <3>2. overflow' \in Nat
      BY <1>1, <1>2
    <3>3. inputs' = Len(inputQueue') + overflow' + taken /\ taken' = taken
      BY <1>1, <1>3
    <3>4. inputs' \in 0..MaxInputs
      BY <1>1, <1>2
    <3>. QED
      BY <1>2, <3>1, <3>2, <3>3, <3>4
  <2>. QED
    BY <1>1, <1>3, <2>1 DEF handlerVars, IInv, TypeOK
<1>5. \A m \in Nat : Past(m) => Past(m)'
  <2>1. ASSUME NEW m \in Nat, Past(m), NEW i \in DOMAIN inputQueue' PROVE m < inputQueue'[i]
    <3>1. m <= inputs /\ \A j \in DOMAIN inputQueue : m < inputQueue[j]
      BY <2>1 DEF Past
    <3>2. m < inputs + 1
      BY <1>2, <3>1
    <3>. QED
      BY <1>3, <3>1, <3>2
  <2>2. ASSUME NEW m \in Nat, Past(m) PROVE m <= inputs'
    <3>1. m <= inputs
      BY <2>2 DEF Past
    <3>. QED
      BY <1>1, <1>2, <3>1
  <2>. QED
    BY <2>1, <2>2 DEF Past
<1>6. PastInv' /\ InputsAccountedFor'
  <2>1. event.n \in Nat
    BY DEF IInv, TypeOK, Events
  <2>2. \A h \in Handlers : Numbers(eventQueue[h]) \subseteq Nat
    BY NumbersType DEF IInv, TypeOK
  <2>3. \A p \in Pids : Numbers(fetched[p]) \subseteq Nat
    BY NumbersType DEF IInv, TypeOK
  <2>4. PastInv'
    BY <1>1, <1>3, <1>5, <2>1, <2>2, <2>3 DEF handlerVars, IInv, PastInv
  <2>5. \A i \in DOMAIN inputQueue' : event'.n < inputQueue'[i]
    BY <2>4 DEF PastInv, Past
  <2>. QED
    BY <1>1, <1>3, <2>4, <2>5 DEF InputsAccountedFor
<1>7. OwnerInv' /\ OnceInv' /\ PointerInv'
  <2>1. OwnerInv' /\ OnceInv'
    BY <1>1 DEF handlerVars, IInv, OwnerInv, OnceInv
  <2>2. \A r : getHandler(r)' = getHandler(r)
    BY <1>1, InputParts
  <2>. QED
    BY <1>1, <2>1, <2>2 DEF IInv, PointerInv
<1>. QED
  BY <1>1, <1>4, <1>6, <1>7, InputParts DEF IInv

\* The desktop thread takes the oldest input: it is past all that were taken before.
LEMMA PopIInv ==
    ASSUME IInv, Pop
    PROVE  IInv'
<1>. DEFINE n == Head(inputQueue)
<1>1. /\ pc = "idle" /\ inputQueue # <<>> /\ pc' = "dispatch"
      /\ event' = [n |-> n, widget |-> 0]
      /\ inputQueue' = Tail(inputQueue) /\ taken' = taken + 1
      /\ UNCHANGED <<inputs, overflow, target, handler, procVars, widgetVars, handlerVars, history>>
  BY DEF Pop
<1>2. /\ inputs \in 0..MaxInputs /\ taken \in Nat /\ overflow \in Nat /\ MaxInputs \in Nat
      /\ inputQueue \in Seq(1..MaxInputs) /\ Len(inputQueue) \in Nat
      /\ DOMAIN inputQueue = 1..Len(inputQueue) /\ Len(inputQueue) # 0
      /\ inputs = Len(inputQueue) + overflow + taken
      /\ \A i, j \in DOMAIN inputQueue : i < j => inputQueue[i] < inputQueue[j]
      /\ \A i \in DOMAIN inputQueue : inputQueue[i] <= inputs /\ inputQueue[i] \in 1..MaxInputs
  <2>1. /\ inputs \in 0..MaxInputs /\ taken \in Nat /\ overflow \in Nat /\ MaxInputs \in Nat
        /\ inputQueue \in Seq(1..MaxInputs)
    BY EventAssumption DEF IInv, TypeOK
  <2>2. /\ Len(inputQueue) \in Nat /\ DOMAIN inputQueue = 1..Len(inputQueue) /\ Len(inputQueue) # 0
        /\ \A i \in DOMAIN inputQueue : inputQueue[i] \in 1..MaxInputs
    BY <1>1, <2>1
  <2>. QED
    BY <2>1, <2>2 DEF IInv, InputsAccountedFor, PastInv
<1>3. /\ n = inputQueue[1] /\ n \in 1..MaxInputs /\ n <= inputs /\ 1 \in DOMAIN inputQueue
      /\ inputQueue' \in Seq(1..MaxInputs) /\ Len(inputQueue') = Len(inputQueue) - 1
      /\ DOMAIN inputQueue' = 1..(Len(inputQueue) - 1)
      /\ \A i \in DOMAIN inputQueue' :
            /\ i + 1 \in DOMAIN inputQueue /\ inputQueue'[i] = inputQueue[i + 1]
            /\ 1 < i + 1 /\ i \in Nat
  <2>. DEFINE q == inputQueue  r == Tail(q)
  <2>1. q \in Seq(1..MaxInputs) /\ Len(q) \in Nat /\ Len(q) # 0 /\ DOMAIN q = 1..Len(q)
        /\ q # <<>> /\ n = Head(q) /\ inputQueue' = r
    BY <1>1, <1>2
  <2>2. n = q[1] /\ 1 \in DOMAIN q /\ n \in 1..MaxInputs /\ n <= inputs
    BY <1>2, <2>1
  <2>. HIDE DEF n, q
  <2>3. /\ r \in Seq(1..MaxInputs) /\ Len(r) = Len(q) - 1 /\ DOMAIN r = 1..(Len(q) - 1)
        /\ \A i \in 1..(Len(q) - 1) : r[i] = q[i + 1]
    BY <2>1
  <2>. HIDE DEF r
  <2>4. \A i \in DOMAIN r : /\ i + 1 \in DOMAIN q /\ r[i] = q[i + 1]
                            /\ 1 < i + 1 /\ i \in Nat
    BY <2>1, <2>3
  <2>. QED
    BY <2>1, <2>2, <2>3, <2>4 DEF q
<1>. HIDE DEF n
<1>4. \A i \in DOMAIN inputQueue' : n < inputQueue'[i] /\ inputQueue'[i] <= inputs
  BY <1>2, <1>3
<1>. USE DEF procVars, widgetVars, history
<1>5. TypeOK'
  <2>1. event' \in Events
    BY <1>1, <1>2, <1>3, EventAssumption DEF Events
  <2>2. taken' \in 0..MaxInputs /\ Len(inputQueue') <= Capacity
    BY <1>1, <1>2, <1>3, EventAssumption DEF IInv, TypeOK
  <2>. QED
    BY <1>1, <1>3, <2>1, <2>2 DEF handlerVars, IInv, TypeOK
<1>6. \A m : Past(m) => Past(m)' /\ m < n
  BY <1>1, <1>3 DEF Past
<1>7. event'.n = n
  BY <1>1
<1>8. PastInv'
  <2>1. Past(event.n)'
    BY <1>1, <1>3, <1>4, <1>7 DEF Past
  <2>. QED
    BY <1>1, <1>4, <1>6, <2>1 DEF handlerVars, IInv, PastInv
<1>9. InputsAccountedFor'
  <2>1. ASSUME NEW i \in DOMAIN inputQueue', NEW j \in DOMAIN inputQueue', i < j
        PROVE  inputQueue'[i] < inputQueue'[j]
    <3>1. /\ i + 1 \in DOMAIN inputQueue /\ inputQueue'[i] = inputQueue[i + 1] /\ i \in Nat
          /\ j + 1 \in DOMAIN inputQueue /\ inputQueue'[j] = inputQueue[j + 1] /\ j \in Nat
      BY <1>3
    <3>2. i + 1 < j + 1
      BY <2>1, <3>1
    <3>. QED
      BY <1>2, <3>1, <3>2
  <2>2. \A i \in DOMAIN inputQueue' : event'.n < inputQueue'[i]
    BY <1>4, <1>7
  <2>3. inputs' = Len(inputQueue') + overflow' + taken'
    BY <1>1, <1>2, <1>3
  <2>. QED
    BY <2>1, <2>2, <2>3 DEF InputsAccountedFor
<1>10. OnceInv'
  <2>1. ~(n < n)
    BY <1>2, <1>3
  <2>2. /\ \A h \in Handlers : n \notin Numbers(eventQueue[h])
        /\ \A p \in Pids : n \notin Numbers(fetched[p])
    BY <1>6, <2>1 DEF IInv, PastInv
  <2>. QED
    BY <1>1, <1>7, <2>2 DEF handlerVars, IInv, OnceInv
<1>11. OwnerInv' /\ PointerInv'
  BY <1>1, <1>3, <1>7 DEF IInv, OwnerInv, PointerInv
<1>. QED
  BY <1>1, <1>5, <1>8, <1>9, <1>10, <1>11, InputParts DEF IInv

\* The dispatch and the lookup: the input in hand stays the same or is given up.
LEMMA DispatchIInv ==
    ASSUME IInv, (\E w \in widgets : DispatchTo(w)) \/ DispatchNowhere \/ LookupHandler
    PROVE  IInv'
<1>1. UNCHANGED <<inputVars, procVars, widgetVars, handlerVars, history>>
  BY DEF DispatchTo, DispatchNowhere, LookupHandler
<1>2. \A r : getHandler(r)' = getHandler(r)
  BY <1>1, InputParts
<1>3. NoEvent \in Events /\ NoEvent.n = 0
  BY EventAssumption DEF NoEvent, Events
<1>4. /\ event \in Events /\ pc \in {"idle", "dispatch", "lookup", "post"}
      /\ target \in Pids \cup {NoPid} /\ handler \in Handlers \cup {NoHandler}
      /\ widgets \subseteq (FirstID..MaxID) \X Pids
      /\ FirstID \in Nat /\ MaxID \in Nat
  BY EventAssumption DEF IInv, TypeOK
<1>5. /\ event' \in Events /\ pc' \in {"idle", "dispatch", "lookup", "post"}
      /\ target' \in Pids \cup {NoPid} /\ handler' \in Handlers \cup {NoHandler}
      /\ pc' # "idle" => event'.n = event.n /\ pc # "idle"
      /\ event'.n = event.n \/ event'.n = 0
      /\ pc' \in {"lookup", "post"} => target' \in started
      /\ pc' = "post" => handler' # NoHandler /\ handler' = getHandler(target')
  <2>1. CASE \E w \in widgets : DispatchTo(w)
    <3>1. PICK w \in widgets : DispatchTo(w)
      BY <2>1
    <3>2. /\ event' = [event EXCEPT !.widget = w[1]] /\ target' = w[2] /\ pc' = "lookup"
          /\ pc = "dispatch" /\ handler' = handler
      BY <3>1 DEF DispatchTo
    <3>3. w[1] \in 0..MaxID /\ w[2] \in Pids /\ w[2] \in started
      BY <1>4 DEF IInv, OwnerInv, TypeOK
    <3>4. event' \in Events /\ event'.n = event.n
      BY <1>4, <3>2, <3>3 DEF Events
    <3>. QED
      BY <1>4, <3>2, <3>3, <3>4
  <2>2. CASE DispatchNowhere
    <3>1. pc' = "idle" /\ event' = NoEvent /\ target' = target /\ handler' = handler
      BY <2>2 DEF DispatchNowhere
    <3>. QED
      BY <1>3, <1>4, <3>1
  <2>3. CASE LookupHandler
    <3>1. /\ pc = "lookup" /\ handler' = getHandler(target)
          /\ \/ /\ handler' = NoHandler /\ pc' = "idle" /\ target' = NoPid /\ event' = NoEvent
             \/ /\ handler' # NoHandler /\ pc' = "post" /\ target' = target /\ event' = event
      BY <2>3 DEF LookupHandler
    <3>2. handler' = NoHandler \/ handler' \in Handlers
      BY <3>1, GetHandlerFacts DEF IInv
    <3>3. target \in started
      BY <3>1 DEF IInv, OwnerInv
    <3>. QED
      BY <1>3, <1>4, <3>1, <3>2, <3>3
  <2>. QED
    BY <2>1, <2>2, <2>3
<1>. USE DEF inputVars, procVars, widgetVars, handlerVars, history
<1>6. TypeOK'
  BY <1>1, <1>5 DEF IInv, TypeOK
<1>7. OwnerInv'
  BY <1>1, <1>5 DEF IInv, OwnerInv
<1>8. PointerInv'
  BY <1>1, <1>2, <1>5 DEF IInv, PointerInv
<1>9. Past(0)
  BY EventAssumption DEF IInv, TypeOK, Past
<1>10. PastInv'
  <2>1. \A m : Past(m)' <=> Past(m)
    BY <1>1 DEF Past
  <2>2. Past(event'.n)
    BY <1>5, <1>9 DEF IInv, PastInv
  <2>. QED
    BY <1>1, <2>1, <2>2 DEF IInv, PastInv
<1>11. InputsAccountedFor'
  <2>1. \A i \in DOMAIN inputQueue' : event'.n < inputQueue'[i]
    BY <1>10 DEF PastInv, Past
  <2>. QED
    BY <1>1, <2>1 DEF IInv, InputsAccountedFor
<1>12. OnceInv'
  BY <1>1, <1>5 DEF IInv, OnceInv
<1>. QED
  BY <1>1, <1>6, <1>7, <1>8, <1>10, <1>11, <1>12, InputParts DEF IInv

\* The event is posted: to the queue the process will read if it lives, to a queue of whoever
\* has the address now, or to nobody.
LEMMA PostEventIInv ==
    ASSUME IInv, PostEvent
    PROVE  IInv'
<1>1. /\ pc = "post" /\ pc' = "idle" /\ event' = NoEvent /\ target' = NoPid /\ handler' = NoHandler
      /\ eventQueue' = IF handler \in Elems(handlerList)
                       THEN [eventQueue EXCEPT ![handler] = Add(@, event)]
                       ELSE eventQueue
      /\ accepted' = [accepted EXCEPT ![target] = @ \cup {event.n}]
      /\ UNCHANGED <<handlerList, hpid, inputVars, procVars, widgetVars, fetched, received>>
  BY DEF PostEvent
<1>. USE DEF inputVars, procVars, widgetVars
<1>2. /\ handler \in Handlers /\ event \in Events /\ event.n \in 1..MaxInputs
      /\ target \in started /\ target \in Pids
      /\ eventQueue \in [Handlers -> Seq(Events)]
      /\ accepted \in [Pids -> SUBSET (1..MaxInputs)]
      /\ NoEvent \in Events /\ NoEvent.n = 0
  <2>1. handler \in Handlers /\ event.n \in 1..MaxInputs /\ target \in started
    BY <1>1 DEF IInv, PointerInv, OwnerInv
  <2>2. /\ event \in Events /\ started \subseteq Pids /\ eventQueue \in [Handlers -> Seq(Events)]
        /\ accepted \in [Pids -> SUBSET (1..MaxInputs)]
    BY DEF IInv, TypeOK
  <2>3. NoEvent \in Events /\ NoEvent.n = 0
    BY EventAssumption DEF NoEvent, Events
  <2>. QED
    BY <2>1, <2>2, <2>3
<1>3. /\ Add(eventQueue[handler], event) \in Seq(Events)
      /\ Numbers(Add(eventQueue[handler], event)) = Numbers(eventQueue[handler]) \cup {event.n}
      /\ Distinct(eventQueue[handler]) /\ event.n \notin Numbers(eventQueue[handler])
            => Distinct(Add(eventQueue[handler], event))
  <2>1. eventQueue[handler] \in Seq(Events)
    BY <1>2
  <2>. QED
    BY <1>2, <2>1, AddFacts, NumbersAdd
<1>4. /\ eventQueue' \in [Handlers -> Seq(Events)]
      /\ \A k \in Handlers : k # handler => eventQueue'[k] = eventQueue[k]
      /\ handler \in Elems(handlerList) => eventQueue'[handler] = Add(eventQueue[handler], event)
      /\ handler \notin Elems(handlerList) => eventQueue'[handler] = eventQueue[handler]
  <2>1. CASE handler \in Elems(handlerList)
    <3>1. eventQueue' = [eventQueue EXCEPT ![handler] = Add(eventQueue[handler], event)]
      BY <1>1, <1>2, <2>1
    <3>. QED
      BY <1>2, <1>3, <2>1, <3>1
  <2>2. CASE handler \notin Elems(handlerList)
    BY <1>1, <1>2, <2>2
  <2>. QED
    BY <2>1, <2>2
<1>5. /\ accepted' \in [Pids -> SUBSET (1..MaxInputs)]
      /\ accepted'[target] = accepted[target] \cup {event.n}
      /\ \A r \in Pids : r # target => accepted'[r] = accepted[r]
  BY <1>1, <1>2
<1>6. \A k \in Handlers : /\ Numbers(eventQueue'[k]) \subseteq Numbers(eventQueue[k]) \cup {event.n}
                          /\ Numbers(eventQueue[k]) \subseteq Numbers(eventQueue'[k])
                          /\ k # handler => Numbers(eventQueue'[k]) = Numbers(eventQueue[k])
  BY <1>2, <1>3, <1>4
<1>7. /\ \A k \in Handlers : event.n \notin Numbers(eventQueue[k])
      /\ \A r \in Pids : event.n \notin Numbers(fetched[r])
  BY <1>1 DEF IInv, OnceInv
<1>8. TypeOK'
  BY <1>1, <1>2, <1>4, <1>5 DEF IInv, TypeOK
<1>9. ListInv' /\ OwnerInv' /\ PointerInv'
  BY <1>1, <1>2, <1>4, <1>5 DEF IInv, ListInv, OwnerInv, PointerInv
<1>10. PastInv'
  <2>1. \A m : Past(m)' <=> Past(m)
    BY <1>1 DEF Past
  <2>2. Past(0)
    BY EventAssumption DEF IInv, TypeOK, Past
  <2>3. Past(event.n)
    BY DEF IInv, PastInv
  <2>. QED
    BY <1>1, <1>2, <1>6, <2>1, <2>2, <2>3 DEF IInv, PastInv
<1>11. InputsAccountedFor'
  <2>1. \A i \in DOMAIN inputQueue' : event'.n < inputQueue'[i]
    BY <1>10 DEF PastInv, Past
  <2>. QED
    BY <1>1, <2>1 DEF IInv, InputsAccountedFor
<1>12. OnceInv'
  <2>1. \A k \in Handlers : Distinct(eventQueue'[k])
    BY <1>2, <1>3, <1>4, <1>7 DEF IInv, OnceInv
  <2>2. \A k, g \in Handlers : k # g => Numbers(eventQueue'[k]) \cap Numbers(eventQueue'[g]) = {}
    BY <1>6, <1>7 DEF IInv, OnceInv
  <2>3. \A k \in Handlers, r \in Pids : Numbers(eventQueue'[k]) \cap Numbers(fetched[r]) = {}
    BY <1>6, <1>7 DEF IInv, OnceInv
  <2>. QED
    BY <1>1, <2>1, <2>2, <2>3 DEF IInv, OnceInv
<1>13. SmallIDsReceived'
  BY <1>1 DEF IInv, SmallIDsReceived
<1>14. \A r : getHandler(r)' = getHandler(r)
  BY <1>1 DEF getHandler, HandlersOf
<1>15. AcceptedIsDeliverable'
  <2>1. ASSUME NEW r \in live
        PROVE  accepted'[r] \subseteq Numbers(fetched[r]) \cup
                 (IF getHandler(r) = NoHandler THEN {} ELSE Numbers(eventQueue'[getHandler(r)]))
    <3>1. accepted[r] \subseteq Numbers(fetched[r]) \cup
                 (IF getHandler(r) = NoHandler THEN {} ELSE Numbers(eventQueue[getHandler(r)]))
      BY DEF IInv, AcceptedIsDeliverable
    <3>2. getHandler(r) # NoHandler => getHandler(r) \in Handlers /\ getHandler(r) \in Elems(handlerList)
      BY GetHandlerFacts DEF IInv
    <3>3. CASE r = target
      <4>1. handler = getHandler(r) /\ handler # NoHandler
        BY <1>1, <1>2, <3>3, EventAssumption DEF IInv, PointerInv
      <4>. QED
        BY <1>3, <1>4, <1>5, <3>1, <3>2, <3>3, <4>1
    <3>4. CASE r # target
      <4>1. r \in Pids
        BY DEF IInv, TypeOK
      <4>. QED
        BY <1>5, <1>6, <3>1, <3>2, <3>4, <4>1
    <3>. QED
      BY <3>3, <3>4
  <2>. QED
    BY <1>1, <1>14, <2>1 DEF AcceptedIsDeliverable
<1>. QED
  BY <1>8, <1>9, <1>10, <1>11, <1>12, <1>13, <1>15 DEF IInv

-------------------------------------------------------------------------------
\* Every step of every actor keeps the invariant.
LEMMA NextIInv == IInv /\ [Next]_vars => IInv'
<1>. SUFFICES ASSUME IInv, [Next]_vars PROVE IInv'
  OBVIOUS
<1>1. CASE UNCHANGED vars
  <2>1. UNCHANGED <<inputVars, pc, event, eventQueue, history>>
        /\ UNCHANGED <<procVars, widgetVars, handlerVars, history>>
    BY <1>1 DEF vars, handlerVars, desktopVars
  <2>2. TypeOK' /\ OwnerInv'
    BY <1>1 DEF vars, procVars, widgetVars, handlerVars, inputVars, desktopVars, history, IInv,
       TypeOK, OwnerInv
  <2>3. PointerInv'
    BY <1>1, <2>1, InputParts DEF vars, procVars, desktopVars, IInv, PointerInv
  <2>. QED
    BY <2>1, <2>2, <2>3, InputParts, QuietParts DEF IInv
<1>2. CASE NoInput
  BY <1>1, <1>2 DEF NoInput
<1>3. CASE \E p \in Pids : StartProcess(p) \/ CreateWidget(p) \/ ProcessExit(p) \/ Get(p)
  BY <1>3, StartProcessIInv, CreateWidgetIInv, ProcessExitIInv, GetIInv
<1>4. CASE \E p \in Pids, h \in Handlers : createNewHandler(p, h)
  BY <1>4, CreateHandlerIInv
<1>5. CASE Push \/ Pop \/ PostEvent
  BY <1>5, PushIInv, PopIInv, PostEventIInv
<1>6. CASE (\E w \in widgets : DispatchTo(w)) \/ DispatchNowhere \/ LookupHandler
  BY <1>6, DispatchIInv
<1>. QED
  BY <1>1, <1>2, <1>3, <1>4, <1>5, <1>6 DEF Next

\* However interrupts, the desktop thread and the system calls of any number of processes
\* interleave, with handler addresses freed and used again under the desktop thread's pointer:
\* no input is duplicated, reordered in the ring or lost without being counted, what GET hands
\* out is what user space reads as long as the widget ID fits, and an accepted event waits
\* where the next GET of its process will find it.
THEOREM EventsAreSound == Spec => []EventsSound
BY InitIInv, NextIInv, IInvSound, PTL DEF Spec
===============================================================================

----------------------------- MODULE DeviceProofs ----------------------------
(***************************************************************************)
(* The way of a key press to the program that reads it, proved for any key *)
(* codes, any size of the standard-input ring, and any number of presses   *)
(* and programs; and the mixer with its sound card, proved for any number  *)
(* of streams, any half-buffer size, any lengths of sounds and any number  *)
(* of calls.                                                               *)
(***************************************************************************)
EXTENDS Terminal, Audio, LinkedListProofs, FiniteSetTheorems

\* The numbers of the characters in s grow, and none is above n.
InOrder(s, n) ==
    /\ s \in Seq(Nat)
    /\ \A i \in 1..Len(s) : s[i] <= n
    /\ \A i, j \in 1..Len(s) : i < j => s[i] < s[j]

Programs == [at : {"new", "name", "wait", "gone"}, cli : BOOLEAN]
Chars == [n : Nat, key : Keys \cup {0}]
Indices == 0..(STDIN_QUEUE_SIZE - 1)
Rings == [slots : [Indices -> Chars], head : Indices, tail : Indices]

\* The programs and their rings.  What a program has read, and after that what its ring
\* holds, is in order and made of characters pushed already, so that the next push
\* goes to the end of the order.
ChildInv ==
    /\ child \in Seq(Programs)
    /\ Len(child) <= MaxRuns
    /\ DOMAIN ring = DOMAIN child /\ ring \in Seq(Rings)
    /\ DOMAIN got = DOMAIN child /\ got \in Seq(Seq(Nat))
    /\ count.push \in Nat
    /\ \A p \in DOMAIN got : InOrder(got[p] \o RingSeq(ring[p]), count.push)

\* Where the two threads can be, what they have asked about and where they go back to.
MainPlaces == [at : Polling, pid : Pids \cup {None}, next : {"poll"}]
EventPlaces == [at : {"idle"} \cup Polling \cup Handling, pid : Pids \cup {None},
                next : {"route", "done"}]
PlacesOf(t) == IF t = "main" THEN MainPlaces ELSE EventPlaces

ThreadInv ==
    /\ th \in [Threads -> MainPlaces \cup EventPlaces]
    /\ \A t \in Threads : th[t] \in PlacesOf(t)
    /\ fg \in Pids \cup {None} /\ bg \in Pids \cup {None}

\* A press is counted once: it has been dispatched, waits in edges, or is a key held
\* that the event thread's last snapshot does not show.
KeyInv ==
    /\ normal \subseteq Keys /\ ext \subseteq Keys /\ prevKeys \subseteq Keys /\ edges \subseteq Keys
    /\ count \in [press : Nat, dispatch : Nat, push : Nat]
    /\ th["event"].at # "idle" => edges # {}
    /\ count.dispatch + Cardinality(edges) + Cardinality(keyStates \ prevKeys)
          <= count.press + (IF th["event"].at = "idle" THEN 0 ELSE 1)

IInv == ChildInv /\ ThreadInv /\ KeyInv
------------------------------------------------------------------------------
(* The ring.                                                                 *)

\* An index that has gone once over the end.
Wrap(x) == IF x < STDIN_QUEUE_SIZE THEN x ELSE x - STDIN_QUEUE_SIZE

LEMMA WrapIsModulo ==
    ASSUME NEW x \in Nat, x < 2 * STDIN_QUEUE_SIZE
    PROVE  x % STDIN_QUEUE_SIZE = Wrap(x) /\ Wrap(x) \in Indices
<1>1. STDIN_QUEUE_SIZE \in Nat /\ STDIN_QUEUE_SIZE >= 2
  BY TerminalAssumptions
<1>2. CASE x < STDIN_QUEUE_SIZE
  <2>1. (0 * STDIN_QUEUE_SIZE + x) % STDIN_QUEUE_SIZE = x
    BY <1>1, <1>2
  <2>. QED
    BY <1>1, <1>2, <2>1 DEF Wrap, Indices
<1>3. CASE ~(x < STDIN_QUEUE_SIZE)
  <2>. DEFINE r == x - STDIN_QUEUE_SIZE
  <2>1. r \in Nat /\ r < STDIN_QUEUE_SIZE /\ x = 1 * STDIN_QUEUE_SIZE + r
    BY <1>1, <1>3
  <2>2. (1 * STDIN_QUEUE_SIZE + r) % STDIN_QUEUE_SIZE = r
    BY <1>1, <2>1
  <2>. QED
    BY <1>1, <1>3, <2>1, <2>2 DEF Wrap, Indices
<1>. QED
  BY <1>2, <1>3

LEMMA RingFacts ==
    ASSUME NEW r \in Rings
    PROVE  /\ RingSize(r) = Wrap(r.head + STDIN_QUEUE_SIZE - r.tail)
           /\ RingSize(r) \in Indices
           /\ RingSeq(r) \in Seq(Nat) /\ Len(RingSeq(r)) = RingSize(r)
           /\ \A i \in 1..RingSize(r) : RingSeq(r)[i] = r.slots[Wrap(r.tail + i - 1)].n
<1>1. STDIN_QUEUE_SIZE \in Nat /\ STDIN_QUEUE_SIZE >= 2
  BY TerminalAssumptions
<1>2. r.head \in Indices /\ r.tail \in Indices /\ r.slots \in [Indices -> Chars]
  BY DEF Rings
<1>3. /\ r.head + STDIN_QUEUE_SIZE - r.tail \in Nat
      /\ r.head + STDIN_QUEUE_SIZE - r.tail < 2 * STDIN_QUEUE_SIZE
  BY <1>1, <1>2 DEF Indices
<1>4. /\ RingSize(r) = Wrap(r.head + STDIN_QUEUE_SIZE - r.tail)
      /\ RingSize(r) \in Indices
  BY <1>3, WrapIsModulo DEF RingSize
<1>5. RingSize(r) \in Nat /\ RingSize(r) < STDIN_QUEUE_SIZE
  BY <1>1, <1>4 DEF Indices
<1>6. ASSUME NEW i \in 1..RingSize(r)
      PROVE  /\ (r.tail + i - 1) % STDIN_QUEUE_SIZE = Wrap(r.tail + i - 1)
             /\ r.slots[Wrap(r.tail + i - 1)].n \in Nat
  <2>1. r.tail + i - 1 \in Nat /\ r.tail + i - 1 < 2 * STDIN_QUEUE_SIZE
    BY <1>1, <1>2, <1>5, <1>6 DEF Indices
  <2>2. (r.tail + i - 1) % STDIN_QUEUE_SIZE = Wrap(r.tail + i - 1)
        /\ Wrap(r.tail + i - 1) \in Indices
    BY <2>1, WrapIsModulo
  <2>3. r.slots[Wrap(r.tail + i - 1)] \in Chars
    BY <1>2, <2>2
  <2>. QED
    BY <2>2, <2>3 DEF Chars
<1>. DEFINE s == RingSeq(r)
<1>7. s = [i \in 1..RingSize(r) |-> r.slots[Wrap(r.tail + i - 1)].n]
  BY <1>6 DEF RingSeq
<1>. HIDE DEF s
<1>8. s \in Seq(Nat) /\ Len(s) = RingSize(r)
  BY <1>5, <1>6, <1>7
<1>9. \A i \in 1..RingSize(r) : s[i] = r.slots[Wrap(r.tail + i - 1)].n
  BY <1>7
<1>. QED
  BY <1>4, <1>8, <1>9 DEF s

\* The indices around a push at h into a ring of n characters from t on.
LEMMA PushIndices ==
    ASSUME NEW h \in Indices, NEW t \in Indices,
           NEW n, n = Wrap(h + STDIN_QUEUE_SIZE - t),
           NEW d, d = (IF Wrap(h + 1) = t THEN 1 ELSE 0)
    PROVE  /\ n \in Nat /\ n < STDIN_QUEUE_SIZE /\ d \in {0, 1} /\ n >= d
           /\ Wrap(Wrap(h + 1) + STDIN_QUEUE_SIZE - Wrap(t + d)) = n + 1 - d
           /\ \A i \in 1..n : Wrap(t + i - 1) # h
           /\ \A i \in 1..(n - d + 1) : Wrap(Wrap(t + d) + i - 1) = Wrap(t + (i + d) - 1)
           /\ Wrap(t + n) = h
<1>. DEFINE Q == STDIN_QUEUE_SIZE
<1>1. Q \in Nat /\ Q >= 2 /\ h \in Nat /\ h < Q /\ t \in Nat /\ t < Q
  BY TerminalAssumptions DEF Indices
<1>. HIDE DEF Q
<1>2. \A x : Wrap(x) = IF x < Q THEN x ELSE x - Q
  BY DEF Wrap, Q
<1>3. n = IF h < t THEN h + Q - t ELSE h - t
  BY <1>1, <1>2 DEF Q
<1>4. n \in Nat /\ n < Q
  BY <1>1, <1>3
<1>5. \A i \in 1..n : Wrap(t + i - 1) # h
  BY <1>1, <1>2, <1>3
<1>6. Wrap(t + n) = h
  BY <1>1, <1>2, <1>3
<1>7. CASE Wrap(h + 1) = t
  <2>1. d = 1
    BY <1>7
  <2>2. n = Q - 1
    BY <1>1, <1>2, <1>3, <1>7
  <2>3. Wrap(t + 1) \in Nat /\ Wrap(t + 1) = IF t = Q - 1 THEN 0 ELSE t + 1
    BY <1>1, <1>2
  <2>4. Wrap(t + Q - Wrap(t + 1)) = n
    BY <1>1, <1>2, <2>2, <2>3
  <2>5. \A i \in 1..n : Wrap(Wrap(t + 1) + i - 1) = Wrap(t + (i + 1) - 1)
    BY <1>1, <1>2, <2>2, <2>3
  <2>6. n >= 1
    BY <1>1, <2>2
  <2>7. n + 1 - 1 = n /\ n - 1 + 1 = n
    BY <1>4
  <2>. QED
    BY <1>4, <1>5, <1>6, <1>7, <2>1, <2>4, <2>5, <2>6, <2>7 DEF Q
<1>8. CASE Wrap(h + 1) # t
  <2>1. d = 0 /\ t + d = t /\ Wrap(t) = t
    BY <1>1, <1>2, <1>8
  <2>2. Wrap(h + 1) = IF h = Q - 1 THEN 0 ELSE h + 1
    BY <1>1, <1>2
  <2>3. Wrap(Wrap(h + 1) + Q - t) = n + 1
    BY <1>1, <1>2, <1>3, <1>8, <2>2
  <2>4. \A i \in 1..(n + 1) : Wrap(t + i - 1) = Wrap(t + (i + 0) - 1)
    BY <1>1, <1>4
  <2>5. n + 1 - 0 = n + 1 /\ n - 0 + 1 = n + 1
    BY <1>4
  <2>. QED
    BY <1>4, <1>5, <1>6, <2>1, <2>3, <2>4, <2>5 DEF Q
<1>. QED
  BY <1>7, <1>8

\* A push appends, and a push into a full ring drops the oldest character first.
LEMMA PushFacts ==
    ASSUME NEW r \in Rings, NEW c \in Chars
    PROVE  /\ Push(r, c) \in Rings
           /\ \E d \in {0, 1} :
                 /\ Len(RingSeq(Push(r, c))) = Len(RingSeq(r)) + 1 - d
                 /\ Len(RingSeq(r)) >= d
                 /\ \A i \in 1..(Len(RingSeq(r)) - d) :
                       RingSeq(Push(r, c))[i] = RingSeq(r)[i + d]
                 /\ RingSeq(Push(r, c))[Len(RingSeq(r)) + 1 - d] = c.n
<1>. DEFINE Q == STDIN_QUEUE_SIZE
            next == Wrap(r.head + 1)
            new == Push(r, c)
            d == IF next = r.tail THEN 1 ELSE 0
            n == RingSize(r)
<1>1. Q \in Nat /\ Q >= 2
  BY TerminalAssumptions
<1>2. /\ r.head \in Indices /\ r.tail \in Indices /\ r.slots \in [Indices -> Chars]
      /\ r.head \in Nat /\ r.head < Q /\ r.tail \in Nat /\ r.tail < Q
  BY <1>1 DEF Rings, Indices
<1>3. next = (r.head + 1) % Q /\ next \in Indices
  BY <1>1, <1>2, WrapIsModulo
<1>4. Wrap(r.tail + 1) = (r.tail + 1) % Q /\ Wrap(r.tail + 1) \in Indices
  BY <1>1, <1>2, WrapIsModulo
<1>5. new = [slots |-> [r.slots EXCEPT ![r.head] = c], head |-> next,
             tail |-> IF next = r.tail THEN Wrap(r.tail + 1) ELSE r.tail]
  BY <1>3, <1>4 DEF Push
<1>. HIDE DEF new
<1>6. /\ new.slots = [r.slots EXCEPT ![r.head] = c] /\ new.head = next
      /\ new.tail = IF next = r.tail THEN Wrap(r.tail + 1) ELSE r.tail
  BY <1>5
<1>7. new.slots \in [Indices -> Chars]
  BY <1>2, <1>6
<1>8. new \in Rings
  BY <1>2, <1>3, <1>4, <1>5, <1>7 DEF Rings
<1>9. /\ n = Wrap(r.head + Q - r.tail) /\ n \in Nat /\ n < Q
      /\ Len(RingSeq(r)) = n
      /\ \A i \in 1..n : RingSeq(r)[i] = r.slots[Wrap(r.tail + i - 1)].n
  BY <1>1, RingFacts DEF Indices
<1>10. /\ RingSize(new) = Wrap(new.head + Q - new.tail)
       /\ Len(RingSeq(new)) = RingSize(new)
       /\ \A i \in 1..RingSize(new) : RingSeq(new)[i] = new.slots[Wrap(new.tail + i - 1)].n
  BY <1>8, RingFacts
<1>. HIDE DEF n
<1>11. /\ d \in {0, 1} /\ n >= d
       /\ Wrap(next + Q - Wrap(r.tail + d)) = n + 1 - d
       /\ \A i \in 1..n : Wrap(r.tail + i - 1) # r.head
       /\ \A i \in 1..(n - d + 1) : Wrap(Wrap(r.tail + d) + i - 1) = Wrap(r.tail + (i + d) - 1)
       /\ Wrap(r.tail + n) = r.head
  <2>1. d = (IF Wrap(r.head + 1) = r.tail THEN 1 ELSE 0) /\ next = Wrap(r.head + 1)
    OBVIOUS
  <2>. DEFINE h == r.head  t == r.tail
  <2>2. h \in Indices /\ t \in Indices /\ n = Wrap(h + STDIN_QUEUE_SIZE - t)
        /\ d = (IF Wrap(h + 1) = t THEN 1 ELSE 0)
    BY <1>2, <1>9, <2>1
  <2>. HIDE DEF h, t, d, next
  <2>3. /\ n \in Nat /\ n < STDIN_QUEUE_SIZE /\ d \in {0, 1} /\ n >= d
        /\ Wrap(Wrap(h + 1) + STDIN_QUEUE_SIZE - Wrap(t + d)) = n + 1 - d
        /\ \A i \in 1..n : Wrap(t + i - 1) # h
        /\ \A i \in 1..(n - d + 1) : Wrap(Wrap(t + d) + i - 1) = Wrap(t + (i + d) - 1)
        /\ Wrap(t + n) = h
    BY ONLY <2>2, PushIndices
  <2>. QED
    BY <2>1, <2>3 DEF h, t
<1>12. new.tail = Wrap(r.tail + d)
  BY <1>1, <1>2, <1>6 DEF Wrap
<1>. HIDE DEF d, next
<1>13. RingSize(new) = n + 1 - d
  BY <1>6, <1>10, <1>11, <1>12
<1>14. ASSUME NEW i \in 1..(n - d)
       PROVE  RingSeq(new)[i] = RingSeq(r)[i + d]
  <2>1. i \in 1..RingSize(new) /\ i + d \in 1..n /\ i \in 1..(n - d + 1)
    BY <1>9, <1>11, <1>13
  <2>2. Wrap(new.tail + i - 1) = Wrap(r.tail + (i + d) - 1)
    BY <1>11, <1>12, <2>1
  <2>3. Wrap(r.tail + (i + d) - 1) # r.head
    BY <1>11, <2>1
  <2>4. Wrap(r.tail + (i + d) - 1) \in Indices
    <3>1. r.tail + (i + d) - 1 \in Nat /\ r.tail + (i + d) - 1 < 2 * Q
      BY <1>1, <1>2, <1>9, <2>1
    <3>. QED
      BY <3>1, WrapIsModulo
  <2>5. new.slots[Wrap(r.tail + (i + d) - 1)] = r.slots[Wrap(r.tail + (i + d) - 1)]
    BY <1>2, <1>6, <2>3, <2>4
  <2>6. RingSeq(new)[i] = new.slots[Wrap(new.tail + i - 1)].n
    BY <1>10, <2>1
  <2>7. RingSeq(r)[i + d] = r.slots[Wrap(r.tail + (i + d) - 1)].n
    BY <1>9, <2>1
  <2>. QED
    BY <2>2, <2>5, <2>6, <2>7
<1>15. RingSeq(new)[n + 1 - d] = c.n
  <2>1. n + 1 - d \in 1..RingSize(new) /\ n + 1 - d \in 1..(n - d + 1)
    BY <1>9, <1>11, <1>13
  <2>2. r.tail + ((n + 1 - d) + d) - 1 = r.tail + n
    BY <1>2, <1>9, <1>11
  <2>3. Wrap(new.tail + (n + 1 - d) - 1) = r.head
    <3>1. Wrap(new.tail + (n + 1 - d) - 1) = Wrap(r.tail + ((n + 1 - d) + d) - 1)
      BY <1>11, <1>12, <2>1
    <3>. QED
      BY <1>11, <2>2, <3>1
  <2>4. new.slots[r.head] = c
    BY <1>2, <1>6
  <2>5. RingSeq(new)[n + 1 - d] = new.slots[Wrap(new.tail + (n + 1 - d) - 1)].n
    BY <1>10, <2>1
  <2>. QED
    BY <2>3, <2>4, <2>5
<1>16. /\ Len(RingSeq(new)) = Len(RingSeq(r)) + 1 - d /\ Len(RingSeq(r)) >= d
       /\ RingSeq(new)[Len(RingSeq(r)) + 1 - d] = c.n
       /\ \A i \in 1..(Len(RingSeq(r)) - d) : RingSeq(new)[i] = RingSeq(r)[i + d]
  BY <1>9, <1>10, <1>11, <1>13, <1>14, <1>15
<1>. QED
  BY <1>8, <1>11, <1>16 DEF new

\* A read takes the oldest character.
LEMMA PopFacts ==
    ASSUME NEW r \in Rings, r.head # r.tail
    PROVE  /\ PopRing(r) \in Rings
           /\ r.slots[r.tail] \in Chars
           /\ Len(RingSeq(r)) >= 1 /\ RingSeq(r)[1] = r.slots[r.tail].n
           /\ Len(RingSeq(PopRing(r))) = Len(RingSeq(r)) - 1
           /\ \A i \in 1..(Len(RingSeq(r)) - 1) : RingSeq(PopRing(r))[i] = RingSeq(r)[i + 1]
<1>. DEFINE Q == STDIN_QUEUE_SIZE
            new == PopRing(r)
            n == RingSize(r)
<1>1. Q \in Nat /\ Q >= 2
  BY TerminalAssumptions
<1>2. /\ r.head \in Indices /\ r.tail \in Indices /\ r.slots \in [Indices -> Chars]
      /\ r.head \in Nat /\ r.head < Q /\ r.tail \in Nat /\ r.tail < Q
  BY <1>1 DEF Rings, Indices
<1>3. Wrap(r.tail + 1) = (r.tail + 1) % Q /\ Wrap(r.tail + 1) \in Indices
  BY <1>1, <1>2, WrapIsModulo
<1>4. new = [r EXCEPT !.tail = Wrap(@ + 1)]
  BY <1>3 DEF PopRing
<1>. HIDE DEF new
<1>5. /\ new \in Rings /\ new.slots = r.slots /\ new.head = r.head
      /\ new.tail = Wrap(r.tail + 1)
  BY <1>3, <1>4 DEF Rings
<1>6. /\ n = Wrap(r.head + Q - r.tail) /\ n \in Nat /\ n < Q
      /\ Len(RingSeq(r)) = n
      /\ \A i \in 1..n : RingSeq(r)[i] = r.slots[Wrap(r.tail + i - 1)].n
  BY <1>1, RingFacts DEF Indices
<1>7. /\ RingSize(new) = Wrap(new.head + Q - new.tail)
      /\ Len(RingSeq(new)) = RingSize(new)
      /\ \A i \in 1..RingSize(new) : RingSeq(new)[i] = new.slots[Wrap(new.tail + i - 1)].n
  BY <1>5, RingFacts
<1>. HIDE DEF n
<1>8. n >= 1 /\ RingSize(new) = n - 1
  <2>1. n = IF r.head < r.tail THEN r.head + Q - r.tail ELSE r.head - r.tail
    BY <1>1, <1>2, <1>6 DEF Wrap
  <2>2. new.tail = IF r.tail = Q - 1 THEN 0 ELSE r.tail + 1
    BY <1>1, <1>2, <1>5 DEF Wrap
  <2>3. RingSize(new) = Wrap(r.head + Q - new.tail)
    BY <1>5, <1>7
  <2>. QED
    BY <1>1, <1>2, <2>1, <2>2, <2>3 DEF Wrap
<1>9. RingSeq(r)[1] = r.slots[r.tail].n
  <2>1. Wrap(r.tail + 1 - 1) = r.tail
    BY <1>1, <1>2 DEF Wrap
  <2>. QED
    BY <1>6, <1>8, <2>1
<1>10. ASSUME NEW i \in 1..(n - 1)
       PROVE  RingSeq(new)[i] = RingSeq(r)[i + 1]
  <2>. DEFINE t == r.tail
  <2>0. t \in Nat /\ t < Q /\ Q \in Nat /\ i \in Nat /\ i >= 1 /\ i < Q /\ new.tail = Wrap(t + 1)
    BY <1>1, <1>2, <1>5, <1>6, <1>10
  <2>. HIDE DEF t, Q
  <2>1. Wrap(new.tail + i - 1) = Wrap(r.tail + (i + 1) - 1)
    <3>1. \A x \in Int : Wrap(x) = IF x < Q THEN x ELSE x - Q
      BY DEF Wrap, Q
    <3>2. CASE t + 1 < Q
      <4>1. new.tail = t + 1
        BY <2>0, <3>1, <3>2
      <4>2. new.tail + i - 1 = t + (i + 1) - 1
        BY <2>0, <4>1
      <4>. QED
        BY <4>2 DEF t
    <3>3. CASE ~(t + 1 < Q)
      <4>1. t = Q - 1 /\ new.tail = 0
        BY <2>0, <3>1, <3>3
      <4>2. /\ new.tail + i - 1 = i - 1 /\ i - 1 < Q /\ i - 1 \in Int
            /\ t + (i + 1) - 1 = Q + i - 1
        BY <2>0, <4>1
      <4>3. Wrap(i - 1) = i - 1
        BY <2>0, <3>1, <4>2
      <4>4. Wrap(Q + i - 1) = i - 1
        <5>. DEFINE y == Q + i - 1
        <5>1. y \in Int /\ ~(y < Q) /\ y - Q = i - 1
          BY <2>0
        <5>. HIDE DEF y
        <5>2. Wrap(y) = i - 1
          BY <3>1, <5>1
        <5>. QED
          BY <5>2 DEF y
      <4>. QED
        BY <4>2, <4>3, <4>4 DEF t
    <3>. QED
      BY <3>2, <3>3
  <2>2. i \in 1..RingSize(new) /\ i + 1 \in 1..n
    BY <1>6, <1>8, <1>10
  <2>3. RingSeq(new)[i] = r.slots[Wrap(new.tail + i - 1)].n
    BY <1>5, <1>7, <2>2
  <2>4. RingSeq(r)[i + 1] = r.slots[Wrap(r.tail + (i + 1) - 1)].n
    BY <1>6, <2>2
  <2>. QED
    BY <2>1, <2>3, <2>4
<1>11. r.slots[r.tail] \in Chars
  BY <1>2
<1>. QED
  BY <1>5, <1>6, <1>7, <1>8, <1>9, <1>10, <1>11 DEF new

\* A ring that is new or has been emptied holds nothing.
LEMMA EmptyFacts ==
    ASSUME NEW r \in Rings, r.head = 0, r.tail = 0
    PROVE  RingSeq(r) = <<>>
<1>1. STDIN_QUEUE_SIZE \in Nat /\ STDIN_QUEUE_SIZE >= 2
  BY TerminalAssumptions
<1>2. RingSize(r) = 0
  BY <1>1, RingFacts DEF Wrap
<1>. QED
  BY <1>2, RingFacts

LEMMA EmptyRingFacts == EmptyRing \in Rings /\ RingSeq(EmptyRing) = <<>>
<1>1. STDIN_QUEUE_SIZE \in Nat /\ STDIN_QUEUE_SIZE >= 2
  BY TerminalAssumptions
<1>2. /\ [i \in 0..STDIN_QUEUE_SIZE - 1 |-> [n |-> 0, key |-> 0]] \in [Indices -> Chars]
      /\ 0 \in Indices
  BY <1>1 DEF Indices, Chars
<1>3. EmptyRing \in Rings /\ EmptyRing.head = 0 /\ EmptyRing.tail = 0
  BY <1>2 DEF EmptyRing, Rings
<1>. QED
  BY <1>3, EmptyFacts

------------------------------------------------------------------------------
(* The order of the characters.                                              *)

\* The elements of two sequences one after the other.
LEMMA Catenation ==
    ASSUME NEW S, NEW g \in Seq(S), NEW s \in Seq(S)
    PROVE  /\ g \o s \in Seq(S) /\ Len(g \o s) = Len(g) + Len(s)
           /\ Len(g) \in Nat /\ Len(s) \in Nat
           /\ \A i \in 1..Len(g) : (g \o s)[i] = g[i]
           /\ \A i \in 1..Len(s) : (g \o s)[Len(g) + i] = s[i]
           /\ \A i \in (Len(g) + 1)..(Len(g) + Len(s)) : (g \o s)[i] = s[i - Len(g)]
  OBVIOUS

LEMMA SameSequence ==
    ASSUME NEW S, NEW s \in Seq(S), NEW t \in Seq(S), Len(s) = Len(t),
           \A i \in 1..Len(s) : s[i] = t[i]
    PROVE  s = t
  OBVIOUS

LEMMA OrderGrows ==
    ASSUME NEW s, NEW n \in Nat, InOrder(s, n), NEW m \in Nat, n <= m
    PROVE  InOrder(s, m)
<1>1. \A i \in 1..Len(s) : s[i] \in Nat
  BY DEF InOrder
<1>. QED
  BY <1>1 DEF InOrder

LEMMA OrderOfPrefix ==
    ASSUME NEW g \in Seq(Nat), NEW s \in Seq(Nat), NEW n \in Nat, InOrder(g \o s, n)
    PROVE  InOrder(g \o <<>>, n)
<1>1. g \o <<>> = g
  OBVIOUS
<1>2. Len(g) \in Nat /\ \A i \in 1..Len(g) : i \in 1..Len(g \o s) /\ (g \o s)[i] = g[i]
  BY Catenation
<1>. QED
  BY <1>1, <1>2 DEF InOrder

\* What a push drops is the oldest character, which leaves the others in order.
LEMMA OrderAfterPush ==
    ASSUME NEW g \in Seq(Nat), NEW r \in Rings, NEW n \in Nat, NEW c \in Chars, c.n = n + 1,
           InOrder(g \o RingSeq(r), n)
    PROVE  InOrder(g \o RingSeq(Push(r, c)), n + 1)
<1>. DEFINE old == RingSeq(r)
            new == RingSeq(Push(r, c))
            s == g \o old
            t == g \o new
<1>1. PICK d \in {0, 1} :
         /\ Len(new) = Len(old) + 1 - d /\ Len(old) >= d
         /\ \A i \in 1..(Len(old) - d) : new[i] = old[i + d]
         /\ new[Len(old) + 1 - d] = c.n
  BY PushFacts
<1>2. old \in Seq(Nat) /\ new \in Seq(Nat) /\ InOrder(s, n)
  BY RingFacts, PushFacts
<1>. HIDE DEF old, new
<1>3. /\ s \in Seq(Nat) /\ Len(s) = Len(g) + Len(old) /\ Len(g) \in Nat /\ Len(old) \in Nat
      /\ \A i \in 1..Len(g) : s[i] = g[i]
      /\ \A i \in (Len(g) + 1)..(Len(g) + Len(old)) : s[i] = old[i - Len(g)]
  BY <1>2, Catenation
<1>4. /\ t \in Seq(Nat) /\ Len(t) = Len(g) + Len(new) /\ Len(new) \in Nat
      /\ \A i \in 1..Len(g) : t[i] = g[i]
      /\ \A i \in (Len(g) + 1)..(Len(g) + Len(new)) : t[i] = new[i - Len(g)]
  BY <1>2, Catenation
<1>5. /\ \A i \in 1..Len(s) : s[i] \in Nat /\ s[i] <= n
      /\ \A i, j \in 1..Len(s) : i < j => s[i] < s[j]
  <2>. HIDE DEF s
  <2>. QED
    BY <1>2, <1>3 DEF InOrder
<1>. DEFINE Src(i) == IF i <= Len(g) THEN i ELSE i + d
<1>. HIDE DEF s, t
<1>6. Len(t) = Len(s) + 1 - d /\ Len(t) \in Nat /\ Len(t) >= 1 /\ Len(s) \in Nat
  <2>1. d \in Int /\ 0 <= d /\ d <= 1 /\ Len(new) = Len(old) + 1 - d /\ Len(old) >= d
    BY <1>1
  <2>2. Len(s) = Len(g) + Len(old) /\ Len(g) \in Nat /\ Len(old) \in Nat
    BY <1>3
  <2>3. Len(t) = Len(g) + Len(new) /\ Len(new) \in Nat
    BY <1>4
  <2>. QED
    BY <2>1, <2>2, <2>3
<1>7. t[Len(t)] = n + 1
  <2>1. Len(t) \in (Len(g) + 1)..(Len(g) + Len(new)) /\ Len(t) - Len(g) = Len(old) + 1 - d
    BY <1>1, <1>3, <1>4
  <2>. QED
    BY <1>1, <1>4, <2>1
<1>8. ASSUME NEW i \in 1..(Len(t) - 1)
      PROVE  Src(i) \in 1..Len(s) /\ t[i] = s[Src(i)]
  <2>1. CASE i <= Len(g)
    BY <1>3, <1>4, <1>6, <2>1
  <2>2. CASE ~(i <= Len(g))
    <3>1. /\ i \in (Len(g) + 1)..(Len(g) + Len(new))
          /\ i + d \in (Len(g) + 1)..(Len(g) + Len(old))
          /\ i - Len(g) \in 1..(Len(old) - d) /\ (i - Len(g)) + d = (i + d) - Len(g)
      <4>1. d \in Int /\ 0 <= d /\ d <= 1 /\ Len(new) = Len(old) + 1 - d /\ Len(old) >= d
        BY <1>1
      <4>2. Len(g) \in Nat /\ Len(old) \in Nat /\ Len(t) = Len(g) + Len(new)
        BY <1>3, <1>4
      <4>3. i \in Int /\ i > Len(g) /\ i <= Len(t) - 1
        BY <1>6, <2>2, <4>2
      <4>. QED
        BY <4>1, <4>2, <4>3
    <3>2. t[i] = new[i - Len(g)] /\ s[i + d] = old[(i + d) - Len(g)]
      BY <1>3, <1>4, <3>1
    <3>3. new[i - Len(g)] = old[(i - Len(g)) + d]
      BY <1>1, <3>1
    <3>4. Src(i) = i + d /\ (i + d) - Len(g) = (i - Len(g)) + d
      BY <2>2, <3>1
    <3>5. t[i] = s[Src(i)]
      BY <3>2, <3>3, <3>4
    <3>6. i + d \in 1..Len(s)
      <4>1. Len(s) = Len(g) + Len(old) /\ Len(g) \in Nat
        BY <1>3
      <4>. QED
        BY <3>1, <4>1
    <3>. QED
      BY <3>4, <3>5, <3>6
  <2>. QED
    BY <2>1, <2>2
<1>9. ASSUME NEW i \in 1..Len(t)
      PROVE  t[i] <= n + 1
  <2>1. CASE i = Len(t)
    BY <1>7, <2>1
  <2>2. CASE i # Len(t)
    <3>1. i \in 1..(Len(t) - 1)
      BY <1>6, <2>2
    <3>2. t[i] = s[Src(i)] /\ Src(i) \in 1..Len(s)
      BY <1>8, <3>1
    <3>. HIDE DEF Src
    <3>. QED
      BY <1>5, <3>2
  <2>. QED
    BY <2>1, <2>2
<1>10. ASSUME NEW i \in 1..Len(t), NEW j \in 1..Len(t), i < j
       PROVE  t[i] < t[j]
  <2>1. i \in 1..(Len(t) - 1) /\ i \in Nat /\ j \in Nat
    BY <1>6, <1>10
  <2>2. t[i] = s[Src(i)] /\ Src(i) \in 1..Len(s)
    BY <1>8, <2>1
  <2>3. CASE j = Len(t)
    <3>. HIDE DEF Src
    <3>. QED
      BY <1>5, <1>7, <2>2, <2>3
  <2>4. CASE j # Len(t)
    <3>1. j \in 1..(Len(t) - 1)
      BY <1>6, <2>4
    <3>2. t[j] = s[Src(j)] /\ Src(j) \in 1..Len(s)
      BY <1>8, <3>1
    <3>3. Src(i) < Src(j)
      <4>1. d \in Int /\ 0 <= d /\ Len(g) \in Nat
        BY <1>1, <1>3
      <4>. QED
        BY <1>10, <2>1, <4>1
    <3>. HIDE DEF Src
    <3>. QED
      BY <1>5, <2>2, <3>2, <3>3
  <2>. QED
    BY <2>3, <2>4
<1>11. InOrder(t, n + 1)
  BY <1>4, <1>9, <1>10 DEF InOrder, t
<1>. QED
  BY <1>11 DEF t, new

\* A read moves the oldest character from the ring to the end of what has been read.
LEMMA ReadMoves ==
    ASSUME NEW g \in Seq(Nat), NEW r \in Rings, r.head # r.tail
    PROVE  Append(g, r.slots[r.tail].n) \o RingSeq(PopRing(r)) = g \o RingSeq(r)
<1>. DEFINE x == r.slots[r.tail].n
            old == RingSeq(r)
            new == RingSeq(PopRing(r))
            a == Append(g, x)
<1>1. /\ PopRing(r) \in Rings /\ r.slots[r.tail] \in Chars
      /\ Len(old) >= 1 /\ old[1] = x /\ Len(new) = Len(old) - 1
      /\ \A i \in 1..(Len(old) - 1) : new[i] = old[i + 1]
  BY PopFacts
<1>2. x \in Nat
  BY <1>1 DEF Chars
<1>3. old \in Seq(Nat) /\ new \in Seq(Nat)
  BY <1>1, RingFacts
<1>. HIDE DEF old, new, x
<1>4. a \in Seq(Nat) /\ Len(a) = Len(g) + 1 /\ a[Len(g) + 1] = x
      /\ \A i \in 1..Len(g) : a[i] = g[i]
  BY <1>2
<1>. HIDE DEF a
<1>5. /\ a \o new \in Seq(Nat) /\ Len(a \o new) = Len(a) + Len(new)
      /\ Len(a) \in Nat /\ Len(new) \in Nat
      /\ \A i \in 1..Len(a) : (a \o new)[i] = a[i]
      /\ \A i \in (Len(a) + 1)..(Len(a) + Len(new)) : (a \o new)[i] = new[i - Len(a)]
  <2>1. a \in Seq(Nat) /\ new \in Seq(Nat)
    BY <1>3, <1>4
  <2>. QED
    BY <2>1, Catenation
<1>6. /\ g \o old \in Seq(Nat) /\ Len(g \o old) = Len(g) + Len(old)
      /\ Len(g) \in Nat /\ Len(old) \in Nat
      /\ \A i \in 1..Len(g) : (g \o old)[i] = g[i]
      /\ \A i \in (Len(g) + 1)..(Len(g) + Len(old)) : (g \o old)[i] = old[i - Len(g)]
  BY <1>3, Catenation
<1>7. Len(a \o new) = Len(g \o old)
  BY <1>1, <1>4, <1>5, <1>6
<1>8. ASSUME NEW i \in 1..Len(g \o old)
      PROVE  (a \o new)[i] = (g \o old)[i]
  <2>1. CASE i <= Len(g)
    BY <1>4, <1>5, <1>6, <2>1
  <2>2. CASE i = Len(g) + 1
    BY <1>1, <1>4, <1>5, <1>6, <2>2
  <2>3. CASE i > Len(g) + 1
    <3>1. /\ i \in (Len(a) + 1)..(Len(a) + Len(new))
          /\ i \in (Len(g) + 1)..(Len(g) + Len(old))
          /\ i - Len(a) \in 1..(Len(old) - 1) /\ (i - Len(a)) + 1 = i - Len(g)
      <4>1. Len(a) = Len(g) + 1 /\ Len(new) = Len(old) - 1 /\ Len(g) \in Nat /\ Len(old) \in Nat
        BY <1>1, <1>4, <1>6
      <4>2. i \in Int /\ i > Len(g) + 1 /\ i <= Len(g) + Len(old)
        BY <1>6, <2>3
      <4>. QED
        BY ONLY <4>1, <4>2
    <3>2. new[i - Len(a)] = old[(i - Len(a)) + 1]
      BY <1>1, <3>1
    <3>. QED
      BY <1>5, <1>6, <3>1, <3>2
  <2>4. i <= Len(g) \/ i = Len(g) + 1 \/ i > Len(g) + 1
    <3>1. \A k, l \in Int : k <= l \/ k = l + 1 \/ k > l + 1
      OBVIOUS
    <3>2. i \in Int /\ Len(g) \in Int
      BY <1>6
    <3>. QED
      BY <3>1, <3>2
  <2>. QED
    BY ONLY <2>1, <2>2, <2>3, <2>4
<1>9. a \o new = g \o old
  <2>1. /\ a \o new \in Seq(Nat) /\ g \o old \in Seq(Nat)
        /\ \A i \in 1..Len(a \o new) : (a \o new)[i] = (g \o old)[i]
    BY <1>5, <1>6, <1>7, <1>8
  <2>. QED
    BY <1>7, <2>1, SameSequence
<1>. QED
  BY <1>9 DEF a, new, old, x

------------------------------------------------------------------------------
(* The programs and their rings, action by action.                           *)

\* A sequence with one element exchanged.
LEMMA Exchange ==
    ASSUME NEW S, NEW s \in Seq(S), NEW p \in DOMAIN s, NEW x \in S
    PROVE  /\ [s EXCEPT ![p] = x] \in Seq(S)
           /\ DOMAIN [s EXCEPT ![p] = x] = DOMAIN s
           /\ Len([s EXCEPT ![p] = x]) = Len(s)
           /\ [s EXCEPT ![p] = x][p] = x
           /\ \A q \in DOMAIN s : q # p => [s EXCEPT ![p] = x][q] = s[q]
  OBVIOUS

LEMMA Extension ==
    ASSUME NEW S, NEW s \in Seq(S), NEW x \in S
    PROVE  /\ Append(s, x) \in Seq(S) /\ Len(Append(s, x)) = Len(s) + 1
           /\ DOMAIN Append(s, x) = 1..(Len(s) + 1) /\ DOMAIN s = 1..Len(s) /\ Len(s) \in Nat
           /\ Append(s, x)[Len(s) + 1] = x
           /\ \A q \in DOMAIN s : Append(s, x)[q] = s[q]
  OBVIOUS

LEMMA ChildSame ==
    ASSUME ChildInv, childVars' = childVars, count'.push = count.push
    PROVE  ChildInv'
<1>1. child' = child /\ ring' = ring /\ got' = got
  BY DEF childVars
<1>. QED
  BY <1>1 DEF ChildInv

LEMMA ChildFacts ==
    ASSUME ChildInv, NEW p \in DOMAIN child
    PROVE  /\ child \in Seq(Programs) /\ child[p] \in Programs
           /\ ring \in Seq(Rings) /\ p \in DOMAIN ring /\ ring[p] \in Rings
           /\ got \in Seq(Seq(Nat)) /\ p \in DOMAIN got /\ got[p] \in Seq(Nat)
           /\ count.push \in Nat /\ InOrder(got[p] \o RingSeq(ring[p]), count.push)
<1>1. /\ child \in Seq(Programs) /\ ring \in Seq(Rings) /\ got \in Seq(Seq(Nat))
      /\ p \in DOMAIN ring /\ p \in DOMAIN got /\ count.push \in Nat
      /\ InOrder(got[p] \o RingSeq(ring[p]), count.push)
  BY DEF ChildInv
<1>2. child[p] \in Programs
  BY <1>1
<1>3. ring[p] \in Rings
  BY <1>1
<1>4. got[p] \in Seq(Nat)
  BY <1>1
<1>. QED
  BY <1>1, <1>2, <1>3, <1>4

------------------------------------------------------------------------------
(* The presses.                                                              *)

LEMMA KeysFinite ==
    ASSUME NEW K, K \subseteq Keys
    PROVE  IsFiniteSet(K) /\ Cardinality(K) \in Nat
<1>1. IsFiniteSet({Char})
  BY FS_Singleton
<1>2. IsFiniteSet({Char} \cup {Enter})
  BY <1>1, FS_AddElement
<1>3. IsFiniteSet({Char} \cup {Enter} \cup {F11})
  BY <1>2, FS_AddElement
<1>4. Keys = {Char} \cup {Enter} \cup {F11}
  BY DEF Keys
<1>5. IsFiniteSet(Keys)
  BY <1>3, <1>4
<1>6. IsFiniteSet(K)
  BY <1>5, FS_Subset
<1>. QED
  BY <1>6, FS_CardinalityType

LEMMA FirstFacts ==
    ASSUME edges \subseteq Keys, edges # {}
    PROVE  First \in edges
<1>1. edges \subseteq Nat
  BY TerminalAssumptions DEF Keys
<1>2. \E k \in edges : \A j \in edges : k <= j
  BY <1>1, LeastNat
<1>. QED
  BY <1>2 DEF First

------------------------------------------------------------------------------
(* The programs.                                                             *)

LEMMA ForwardChild ==
    ASSUME ChildInv, KeyInv, HandleForward
    PROVE  ChildInv'
<1>1. PICK p \in {th["event"].pid, fg} :
         IF Alive(p)
         THEN /\ count' = [count EXCEPT !.push = count.push + 1]
              /\ ring' = [ring EXCEPT ![p] = Push(@, [n |-> count.push + 1, key |-> First])]
         ELSE UNCHANGED <<ring, count>>
  BY DEF HandleForward
<1>2. child' = child /\ got' = got
  BY DEF HandleForward
<1>3. CASE Alive(p)
  <2>. DEFINE c == [n |-> count.push + 1, key |-> First]
  <2>1. /\ p \in DOMAIN child
        /\ count' = [count EXCEPT !.push = count.push + 1]
        /\ ring' = [ring EXCEPT ![p] = Push(@, c)]
    BY <1>1, <1>3 DEF Alive
  <2>2. /\ ring \in Seq(Rings) /\ p \in DOMAIN ring /\ ring[p] \in Rings
        /\ p \in DOMAIN got /\ got[p] \in Seq(Nat)
        /\ count.push \in Nat /\ InOrder(got[p] \o RingSeq(ring[p]), count.push)
    BY <2>1, ChildFacts
  <2>3. c \in Chars /\ c.n = count.push + 1
    <3>1. edges # {} /\ edges \subseteq Keys
      BY DEF HandleForward, KeyInv
    <3>2. First \in Keys
      BY <3>1, FirstFacts
    <3>. QED
      BY <2>2, <3>2 DEF Chars
  <2>. HIDE DEF c
  <2>4. count'.push = count.push + 1
    BY <2>1 DEF KeyInv
  <2>5. Push(ring[p], c) \in Rings
    BY <2>2, <2>3, PushFacts
  <2>6. ring' = [ring EXCEPT ![p] = Push(ring[p], c)]
    BY <2>1
  <2>7. /\ ring' \in Seq(Rings) /\ DOMAIN ring' = DOMAIN ring
        /\ ring'[p] = Push(ring[p], c)
        /\ \A q \in DOMAIN ring : q # p => ring'[q] = ring[q]
    BY <2>2, <2>5, <2>6, Exchange
  <2>8. ASSUME NEW q \in DOMAIN got
        PROVE  InOrder(got[q] \o RingSeq(ring'[q]), count.push + 1)
    <3>1. CASE q = p
      BY <2>2, <2>3, <2>7, <3>1, OrderAfterPush
    <3>2. CASE q # p
      <4>1. ring'[q] = ring[q] /\ InOrder(got[q] \o RingSeq(ring[q]), count.push)
        BY <2>7, <3>2 DEF ChildInv
      <4>2. count.push + 1 \in Nat /\ count.push <= count.push + 1
        BY <2>2
      <4>3. InOrder(got[q] \o RingSeq(ring[q]), count.push + 1)
        BY <2>2, <4>1, <4>2, OrderGrows
      <4>. QED
        BY <4>1, <4>3
    <3>. QED
      BY <3>1, <3>2
  <2>9. count'.push \in Nat
    BY <2>2, <2>4
  <2>. QED
    BY <1>2, <2>1, <2>4, <2>7, <2>8, <2>9 DEF ChildInv
<1>4. CASE ~Alive(p)
  <2>1. ring' = ring /\ count' = count
    BY <1>1, <1>4
  <2>. QED
    BY <1>2, <2>1, ChildSame DEF childVars
<1>. QED
  BY <1>3, <1>4

LEMMA RunChild ==
    ASSUME ChildInv, KeyInv, ThreadInv, HandleRun
    PROVE  ChildInv'
<1>1. PICK cli \in BOOLEAN : child' = Append(child, [at |-> "new", cli |-> cli])
  BY DEF HandleRun
<1>2. /\ Len(child) < MaxRuns /\ count' = count
      /\ ring' = Append(ring, EmptyRing) /\ got' = Append(got, <<>>)
  BY DEF HandleRun
<1>3. /\ child \in Seq(Programs) /\ ring \in Seq(Rings) /\ got \in Seq(Seq(Nat))
      /\ DOMAIN ring = DOMAIN child /\ DOMAIN got = DOMAIN child /\ count.push \in Nat
      /\ \A p \in DOMAIN got : InOrder(got[p] \o RingSeq(ring[p]), count.push)
  BY DEF ChildInv
<1>4. [at |-> "new", cli |-> cli] \in Programs /\ <<>> \in Seq(Nat)
  BY DEF Programs
<1>5. /\ child' \in Seq(Programs) /\ Len(child') = Len(child) + 1
      /\ DOMAIN child' = 1..(Len(child) + 1) /\ DOMAIN child = 1..Len(child) /\ Len(child) \in Nat
  BY <1>1, <1>3, <1>4, Extension
<1>6. /\ ring' \in Seq(Rings) /\ DOMAIN ring' = 1..(Len(ring) + 1)
      /\ DOMAIN ring = 1..Len(ring) /\ Len(ring) \in Nat
      /\ ring'[Len(ring) + 1] = EmptyRing
      /\ \A q \in DOMAIN ring : ring'[q] = ring[q]
  BY <1>2, <1>3, EmptyRingFacts, Extension
<1>7. /\ got' \in Seq(Seq(Nat)) /\ DOMAIN got' = 1..(Len(got) + 1)
      /\ DOMAIN got = 1..Len(got) /\ Len(got) \in Nat
      /\ got'[Len(got) + 1] = <<>>
      /\ \A q \in DOMAIN got : got'[q] = got[q]
  BY <1>2, <1>3, <1>4, Extension
<1>8. Len(ring) = Len(child) /\ Len(got) = Len(child)
  <2>1. \A a, b \in Nat : 1..a = 1..b => a = b
    <3>. SUFFICES ASSUME NEW a \in Nat, NEW b \in Nat, 1..a = 1..b, a < b
                  PROVE  FALSE
      OBVIOUS
    <3>1. b \in 1..b /\ b \notin 1..a
      OBVIOUS
    <3>. QED
      BY <3>1
  <2>. QED
    BY <1>3, <1>5, <1>6, <1>7, <2>1
<1>9. ASSUME NEW q \in DOMAIN got'
      PROVE  InOrder(got'[q] \o RingSeq(ring'[q]), count.push)
  <2>1. CASE q = Len(child) + 1
    <3>1. got'[q] = <<>> /\ RingSeq(ring'[q]) = <<>>
      BY <1>6, <1>7, <1>8, <2>1, EmptyRingFacts
    <3>2. got'[q] \o RingSeq(ring'[q]) = <<>>
      BY <3>1
    <3>. QED
      BY <3>2 DEF InOrder
  <2>2. CASE q # Len(child) + 1
    <3>1. q \in 1..(Len(child) + 1)
      BY <1>7, <1>8
    <3>2. q \in 1..Len(child)
      BY <1>5, <2>2, <3>1
    <3>3. q \in DOMAIN got /\ q \in DOMAIN ring
      BY <1>6, <1>7, <1>8, <3>2
    <3>. QED
      BY <1>3, <1>6, <1>7, <3>3
  <2>. QED
    BY <2>1, <2>2
<1>10. DOMAIN ring' = DOMAIN child' /\ DOMAIN got' = DOMAIN child'
  BY <1>5, <1>6, <1>7, <1>8
<1>11. Len(child') <= MaxRuns
  <2>1. MaxRuns \in Nat
    BY TerminalAssumptions
  <2>. QED
    BY <1>2, <1>5, <2>1
<1>. QED
  BY <1>2, <1>3, <1>5, <1>6, <1>7, <1>9, <1>10, <1>11 DEF ChildInv

\* Hsys_initCli() empties the ring: what had been pushed is lost, what is read next is newer.
LEMMA InitChild ==
    ASSUME ChildInv, NEW p \in Pids, ChildInit(p)
    PROVE  ChildInv'
<1>. DEFINE r == [ring[p] EXCEPT !.head = 0, !.tail = 0]
<1>1. /\ p \in DOMAIN child /\ ring' = [ring EXCEPT ![p] = r]
      /\ child' = [child EXCEPT ![p] = [child[p] EXCEPT !.at = "name"]]
      /\ got' = got /\ count' = count
  BY DEF ChildInit, Alive
<1>2. /\ child \in Seq(Programs) /\ child[p] \in Programs
      /\ ring \in Seq(Rings) /\ p \in DOMAIN ring /\ ring[p] \in Rings
      /\ got \in Seq(Seq(Nat)) /\ p \in DOMAIN got /\ got[p] \in Seq(Nat)
      /\ count.push \in Nat /\ InOrder(got[p] \o RingSeq(ring[p]), count.push)
  BY <1>1, ChildFacts
<1>3. 0 \in Indices
  BY TerminalAssumptions DEF Indices
<1>4. r \in Rings /\ r.head = 0 /\ r.tail = 0
  BY <1>2, <1>3 DEF Rings
<1>. HIDE DEF r
<1>5. RingSeq(r) = <<>>
  BY <1>4, EmptyFacts
<1>6. /\ ring' \in Seq(Rings) /\ DOMAIN ring' = DOMAIN ring /\ ring'[p] = r
      /\ \A q \in DOMAIN ring : q # p => ring'[q] = ring[q]
  BY <1>1, <1>2, <1>4, Exchange
<1>7. [child[p] EXCEPT !.at = "name"] \in Programs
  BY <1>2 DEF Programs
<1>8. /\ child' \in Seq(Programs) /\ DOMAIN child' = DOMAIN child /\ Len(child') = Len(child)
  BY <1>1, <1>2, <1>7, Exchange
<1>9. ASSUME NEW q \in DOMAIN got
      PROVE  InOrder(got[q] \o RingSeq(ring'[q]), count.push)
  <2>1. CASE q = p
    <3>1. RingSeq(ring[p]) \in Seq(Nat)
      BY <1>2, RingFacts
    <3>. QED
      BY <1>2, <1>5, <1>6, <2>1, <3>1, OrderOfPrefix
  <2>2. CASE q # p
    BY <1>6, <2>2 DEF ChildInv
  <2>. QED
    BY <2>1, <2>2
<1>. QED
  BY <1>1, <1>6, <1>8, <1>9 DEF ChildInv

LEMMA ReadChild ==
    ASSUME ChildInv, NEW p \in Pids, ChildRead(p)
    PROVE  ChildInv'
<1>. DEFINE c == ring[p].slots[ring[p].tail]
            at == IF c.key # Enter THEN child[p].at
                  ELSE IF child[p].at = "name" THEN "wait" ELSE "gone"
<1>1. /\ p \in DOMAIN child /\ ring[p].head # ring[p].tail
      /\ ring' = [ring EXCEPT ![p] = PopRing(ring[p])]
      /\ child' = [child EXCEPT ![p] = [child[p] EXCEPT !.at = at]]
      /\ got' = [got EXCEPT ![p] = Append(got[p], c.n)]
      /\ count' = count
  BY DEF ChildRead, Alive
<1>2. /\ child \in Seq(Programs) /\ child[p] \in Programs
      /\ ring \in Seq(Rings) /\ p \in DOMAIN ring /\ ring[p] \in Rings
      /\ got \in Seq(Seq(Nat)) /\ p \in DOMAIN got /\ got[p] \in Seq(Nat)
      /\ count.push \in Nat /\ InOrder(got[p] \o RingSeq(ring[p]), count.push)
  BY <1>1, ChildFacts
<1>3. PopRing(ring[p]) \in Rings /\ c \in Chars
  BY <1>1, <1>2, PopFacts
<1>4. Append(got[p], c.n) \in Seq(Nat)
  <2>1. c.n \in Nat
    BY <1>3 DEF Chars
  <2>. HIDE DEF c
  <2>. QED
    BY <1>2, <2>1
<1>5. Append(got[p], c.n) \o RingSeq(PopRing(ring[p])) = got[p] \o RingSeq(ring[p])
  BY <1>1, <1>2, ReadMoves
<1>6. at \in {"new", "name", "wait", "gone"}
  BY <1>2 DEF Programs
<1>. HIDE DEF c, at
<1>7. [child[p] EXCEPT !.at = at] \in Programs
  BY <1>2, <1>6 DEF Programs
<1>8. child' \in Seq(Programs) /\ DOMAIN child' = DOMAIN child /\ Len(child') = Len(child)
  BY <1>1, <1>2, <1>7, Exchange
<1>9. /\ ring' \in Seq(Rings) /\ DOMAIN ring' = DOMAIN ring /\ ring'[p] = PopRing(ring[p])
      /\ \A q \in DOMAIN ring : q # p => ring'[q] = ring[q]
  BY <1>1, <1>2, <1>3, Exchange
<1>10. /\ got' \in Seq(Seq(Nat)) /\ DOMAIN got' = DOMAIN got /\ got'[p] = Append(got[p], c.n)
       /\ \A q \in DOMAIN got : q # p => got'[q] = got[q]
  BY <1>1, <1>2, <1>4, Exchange
<1>11. ASSUME NEW q \in DOMAIN got
       PROVE  InOrder(got'[q] \o RingSeq(ring'[q]), count.push)
  <2>1. CASE q = p
    BY <1>2, <1>5, <1>9, <1>10, <2>1
  <2>2. CASE q # p
    BY <1>9, <1>10, <2>2 DEF ChildInv
  <2>. QED
    BY <2>1, <2>2
<1>. QED
  BY <1>1, <1>8, <1>9, <1>10, <1>11 DEF ChildInv

LEMMA DiesChild ==
    ASSUME ChildInv, NEW p \in Pids, ChildDies(p)
    PROVE  ChildInv'
<1>1. /\ p \in DOMAIN child /\ ring' = ring /\ got' = got /\ count' = count
      /\ child' = [child EXCEPT ![p] = [child[p] EXCEPT !.at = "gone"]]
  BY DEF ChildDies, Alive
<1>2. child \in Seq(Programs) /\ child[p] \in Programs
  BY <1>1, ChildFacts
<1>3. [child[p] EXCEPT !.at = "gone"] \in Programs
  BY <1>2 DEF Programs
<1>4. child' \in Seq(Programs) /\ DOMAIN child' = DOMAIN child /\ Len(child') = Len(child)
  BY <1>1, <1>2, <1>3, Exchange
<1>. QED
  BY <1>1, <1>4 DEF ChildInv

------------------------------------------------------------------------------
(* The threads.                                                              *)

LEMMA Moved ==
    ASSUME ThreadInv, NEW t \in Threads, NEW r \in PlacesOf(t), th' = [th EXCEPT ![t] = r]
    PROVE  /\ th' \in [Threads -> MainPlaces \cup EventPlaces]
           /\ \A u \in Threads : th'[u] \in PlacesOf(u)
           /\ th'[t] = r /\ \A u \in Threads : u # t => th'[u] = th[u]
<1>1. /\ th \in [Threads -> MainPlaces \cup EventPlaces]
      /\ \A u \in Threads : th[u] \in PlacesOf(u)
  BY DEF ThreadInv
<1>2. r \in MainPlaces \cup EventPlaces
  BY DEF PlacesOf
<1>3. th'[t] = r /\ \A u \in Threads : u # t => th'[u] = th[u]
  BY <1>1
<1>4. \A u \in Threads : th'[u] \in PlacesOf(u)
  BY <1>1, <1>3
<1>. QED
  BY <1>1, <1>2, <1>3, <1>4

\* A step of PollForegroundProcess() stays in it or goes back to its caller.
LEMMA PollStep ==
    ASSUME ThreadInv, NEW t \in Threads, Poll(t)
    PROVE  /\ ThreadInv'
           /\ th[t].at # "idle" /\ th'[t].at # "idle"
           /\ \A u \in Threads : u # t => th'[u] = th[u]
<1>0. /\ th[t] \in PlacesOf(t) /\ fg \in Pids \cup {None} /\ bg \in Pids \cup {None}
      /\ None \in Pids \cup {None}
  BY DEF ThreadInv
<1>1. th[t].at \in Polling
  BY DEF Poll, ReadForeground, ReadBackground, Ask, Report, Polling, Asking
<1>2. /\ fg' \in Pids \cup {None} /\ bg' \in Pids \cup {None}
      /\ \E r \in PlacesOf(t) : r.at # "idle" /\ th' = [th EXCEPT ![t] = r]
  <2>1. ASSUME NEW r, r = [th[t] EXCEPT !.at = th[t].next, !.pid = None]
        PROVE  r \in PlacesOf(t) /\ r.at # "idle"
    BY <1>0, <2>1 DEF PlacesOf, MainPlaces, EventPlaces, Polling, Handling
  <2>2. ASSUME NEW a \in Polling, NEW p \in Pids \cup {None},
               NEW r, r = [th[t] EXCEPT !.at = a, !.pid = p]
        PROVE  r \in PlacesOf(t) /\ r.at # "idle"
    BY <1>0, <2>2 DEF PlacesOf, MainPlaces, EventPlaces, Polling, Asking
  <2>3. ASSUME NEW a \in Polling, NEW r, r = [th[t] EXCEPT !.at = a]
        PROVE  r \in PlacesOf(t) /\ r.at # "idle"
    BY <1>0, <2>3 DEF PlacesOf, MainPlaces, EventPlaces, Polling, Asking
  <2>4. {"askFg", "askBg", "lostFg", "lostBg", "pollBg"} \subseteq Polling
    BY DEF Polling, Asking
  <2>5. CASE ReadForeground(t)
    <3>1. fg' = fg /\ bg' = bg
      BY <2>5 DEF ReadForeground, pidVars
    <3>2. \/ th' = [th EXCEPT ![t] = [th[t] EXCEPT !.at = "askFg", !.pid = fg]]
          \/ th' = [th EXCEPT ![t] = [th[t] EXCEPT !.at = "pollBg"]]
      BY <2>5 DEF ReadForeground
    <3>. QED
      BY <1>0, <2>2, <2>3, <2>4, <3>1, <3>2
  <2>6. CASE ReadBackground(t)
    <3>1. fg' = fg /\ bg' = bg
      BY <2>6 DEF ReadBackground, pidVars
    <3>2. \/ th' = [th EXCEPT ![t] = [th[t] EXCEPT !.at = "askBg", !.pid = bg]]
          \/ th' = [th EXCEPT ![t] = [th[t] EXCEPT !.at = th[t].next, !.pid = None]]
      BY <2>6 DEF ReadBackground, Return
    <3>. QED
      BY <1>0, <2>1, <2>2, <2>4, <3>1, <3>2
  <2>7. CASE Ask(t)
    <3>1. fg' = fg /\ bg' = bg
      BY <2>7 DEF Ask, pidVars
    <3>2. \/ th' = [th EXCEPT ![t] = [th[t] EXCEPT !.at = th[t].next, !.pid = None]]
          \/ th' = [th EXCEPT ![t] = [th[t] EXCEPT !.at = "lostFg"]]
          \/ th' = [th EXCEPT ![t] = [th[t] EXCEPT !.at = "lostBg"]]
      BY <2>7 DEF Ask, Return, Goto
    <3>. QED
      BY <1>0, <2>1, <2>3, <2>4, <3>1, <3>2
  <2>8. CASE Report(t)
    <3>1. fg' \in {fg, None} /\ bg' \in {bg, None}
      BY <2>8 DEF Report
    <3>2. th' = [th EXCEPT ![t] = [th[t] EXCEPT !.at = th[t].next, !.pid = None]]
      BY <2>8 DEF Report, Return
    <3>. QED
      BY <1>0, <2>1, <3>1, <3>2
  <2>. QED
    BY <2>5, <2>6, <2>7, <2>8 DEF Poll
<1>3. th[t].at # "idle"
  BY <1>1 DEF Polling, Asking
<1>. QED
  BY <1>2, <1>3, Moved DEF ThreadInv

\* A step of the event thread outside of PollForegroundProcess().
LEMMA EventStep ==
    ASSUME ChildInv, ThreadInv,
           \/ Dispatch \/ Dispatched
           \/ HandleForeground \/ HandleForward \/ HandleEdit \/ HandleEnter \/ HandleRun \/ HandleRan
    PROVE  /\ ThreadInv'
           /\ Dispatched => th["event"].at # "idle" /\ th'["event"].at = "idle"
           /\ ~Dispatched => th'["event"].at # "idle"
           /\ ~Dispatched /\ ~Dispatch => th["event"].at # "idle"
<1>0. /\ "event" \in Threads /\ th["event"] \in EventPlaces
      /\ fg \in Pids \cup {None} /\ bg \in Pids \cup {None} /\ None \in Pids \cup {None}
  BY DEF ThreadInv, Threads, PlacesOf
<1>1. PlacesOf("event") = EventPlaces
  BY DEF PlacesOf
<1>2. {"idle", "poll", "route", "push", "ran", "done"} \subseteq {"idle"} \cup Polling \cup Handling
  BY DEF Polling, Handling
<1>3. ASSUME NEW a \in {"idle"} \cup Polling \cup Handling
      PROVE  /\ [th["event"] EXCEPT !.at = a] \in EventPlaces
             /\ [th["event"] EXCEPT !.at = a].at = a
  BY <1>0 DEF EventPlaces
<1>4. ASSUME NEW a \in {"idle"} \cup Polling \cup Handling, NEW p \in Pids \cup {None}
      PROVE  /\ [th["event"] EXCEPT !.at = a, !.pid = p] \in EventPlaces
             /\ [th["event"] EXCEPT !.at = a, !.pid = p].at = a
  BY <1>0 DEF EventPlaces
<1>5. ASSUME NEW n \in {"route", "done"}
      PROVE  [at |-> "poll", pid |-> None, next |-> n] \in EventPlaces
  BY <1>0, <1>2 DEF EventPlaces
<1>. DEFINE Going(a) == /\ fg' \in Pids \cup {None} /\ bg' \in Pids \cup {None}
                        /\ \E r \in EventPlaces : r.at = a /\ th' = [th EXCEPT !["event"] = r]
<1>6. ASSUME NEW a, Going(a)
      PROVE  ThreadInv' /\ th'["event"].at = a
  BY <1>0, <1>1, <1>6, Moved DEF ThreadInv
<1>7. ASSUME Dispatch PROVE ThreadInv' /\ th'["event"].at = "poll" /\ th["event"].at = "idle"
  <2>1. Going("poll")
    BY <1>0, <1>5, <1>7 DEF Dispatch, pidVars
  <2>. QED
    BY <1>6, <1>7, <2>1 DEF Dispatch
<1>8. ASSUME Dispatched PROVE ThreadInv' /\ th["event"].at = "done" /\ th'["event"].at = "idle"
  <2>1. Going("idle")
    BY <1>0, <1>2, <1>3, <1>8 DEF Dispatched, Goto, pidVars
  <2>. QED
    BY <1>6, <1>8, <2>1 DEF Dispatched
<1>. DEFINE Goal == ThreadInv' /\ th["event"].at # "idle" /\ th'["event"].at # "idle"
<1>9. ASSUME HandleForeground PROVE Goal
  <2>1. Going("done") \/ Going("push")
    <3>1. fg' = fg /\ bg' = bg
      BY <1>9 DEF HandleForeground, pidVars
    <3>2. \/ th' = [th EXCEPT !["event"] = [th["event"] EXCEPT !.at = "done"]]
          \/ th' = [th EXCEPT !["event"] = [th["event"] EXCEPT !.at = "push", !.pid = fg]]
      BY <1>9 DEF HandleForeground, Goto
    <3>. QED
      BY <1>0, <1>2, <1>3, <1>4, <3>1, <3>2
  <2>. QED
    BY <1>6, <1>9, <2>1 DEF HandleForeground
<1>10. ASSUME HandleForward PROVE Goal
  <2>1. Going("done") \/ Going("poll")
    <3>1. fg' = fg /\ bg' = bg
      BY <1>10 DEF HandleForward, pidVars
    <3>2. \/ th' = [th EXCEPT !["event"] = [th["event"] EXCEPT !.at = "done"]]
          \/ th' = [th EXCEPT !["event"] = [at |-> "poll", pid |-> None, next |-> "done"]]
      BY <1>10 DEF HandleForward, Goto
    <3>. QED
      BY <1>0, <1>2, <1>3, <1>5, <3>1, <3>2
  <2>. QED
    BY <1>6, <1>10, <2>1 DEF HandleForward
<1>11. ASSUME HandleEdit \/ HandleEnter PROVE Goal
  <2>1. Going("done")
    BY <1>0, <1>2, <1>3, <1>11 DEF HandleEdit, HandleEnter, Goto, pidVars
  <2>. QED
    BY <1>6, <1>11, <2>1 DEF HandleEdit, HandleEnter
<1>12. ASSUME HandleRun PROVE Goal
  <2>1. Len(child) + 1 \in Pids
    <3>1. Len(child) \in Nat /\ MaxRuns \in Nat /\ Len(child) < MaxRuns
      BY <1>12, TerminalAssumptions DEF ChildInv, HandleRun
    <3>. QED
      BY <3>1 DEF Pids
  <2>2. Going("ran")
    <3>1. /\ fg' = fg /\ bg' = bg
          /\ th' = [th EXCEPT !["event"] = [th["event"] EXCEPT !.at = "ran", !.pid = Len(child) + 1]]
      BY <1>12 DEF HandleRun, pidVars
    <3>. QED
      BY <1>0, <1>2, <1>4, <2>1, <3>1
  <2>. QED
    BY <1>6, <1>12, <2>2 DEF HandleRun
<1>13. ASSUME HandleRan PROVE Goal
  <2>1. Going("done")
    <3>1. fg' \in {fg, th["event"].pid} /\ bg' \in {bg, th["event"].pid}
      BY <1>13 DEF HandleRan
    <3>2. th["event"].pid \in Pids \cup {None}
      BY <1>0 DEF EventPlaces
    <3>3. th' = [th EXCEPT !["event"] = [th["event"] EXCEPT !.at = "done"]]
      BY <1>13 DEF HandleRan, Goto
    <3>. QED
      BY <1>0, <1>2, <1>3, <3>1, <3>2, <3>3
  <2>. QED
    BY <1>6, <1>13, <2>1 DEF HandleRan
<1>. QED
  BY <1>7, <1>8, <1>9, <1>10, <1>11, <1>12, <1>13

LEMMA ThreadStep ==
    ASSUME ChildInv, ThreadInv, Next
    PROVE  ThreadInv'
<1>1. ASSUME th' = th, fg' = fg, bg' = bg PROVE ThreadInv'
  BY <1>1 DEF ThreadInv
<1>2. ASSUME NEW k \in Keys, KeyDown(k) \/ KeyUp(k) PROVE ThreadInv'
  BY <1>1, <1>2 DEF KeyDown, KeyUp, pidVars
<1>3. ASSUME PollKeys PROVE ThreadInv'
  BY <1>1, <1>3 DEF PollKeys, pidVars
<1>4. ASSUME NEW p \in Pids, ChildInit(p) \/ ChildRead(p) \/ ChildDies(p) PROVE ThreadInv'
  BY <1>1, <1>4 DEF ChildInit, ChildRead, ChildDies, pidVars
<1>5. "event" \in Threads /\ "main" \in Threads
  BY DEF Threads
<1>. QED
  BY <1>2, <1>3, <1>4, <1>5, PollStep, EventStep DEF Next, Event, Main
------------------------------------------------------------------------------
(* The count of the presses.                                                 *)

\* A larger set of keys has as many members or more, and one more key is one more at most.
LEMMA KeysCount ==
    ASSUME NEW K, K \subseteq Keys, NEW L, L \subseteq Keys
    PROVE  /\ K \subseteq L => Cardinality(K) <= Cardinality(L)
           /\ \A k : K \subseteq L \cup {k} => Cardinality(K) <= Cardinality(L) + 1
           /\ \A k \in L : Cardinality(L \ {k}) = Cardinality(L) - 1
<1>1. IsFiniteSet(L) /\ Cardinality(L) \in Nat /\ Cardinality(K) \in Nat
  BY KeysFinite
<1>2. K \subseteq L => Cardinality(K) <= Cardinality(L)
  BY <1>1, FS_Subset
<1>3. ASSUME NEW k, K \subseteq L \cup {k}
      PROVE  Cardinality(K) <= Cardinality(L) + 1
  <2>1. /\ IsFiniteSet(L \cup {k}) /\ Cardinality(L \cup {k}) \in Nat
        /\ Cardinality(L \cup {k}) = IF k \in L THEN Cardinality(L) ELSE Cardinality(L) + 1
    BY <1>1, FS_AddElement, FS_CardinalityType
  <2>2. Cardinality(K) <= Cardinality(L \cup {k})
    BY <1>3, <2>1, FS_Subset
  <2>. QED
    BY <1>1, <2>1, <2>2
<1>4. \A k \in L : Cardinality(L \ {k}) = Cardinality(L) - 1
  BY <1>1, FS_RemoveElement
<1>. QED
  BY <1>2, <1>3, <1>4
Counts == [press : Nat, dispatch : Nat, push : Nat]

\* KeyInv as facts about numbers.
LEMMA KeyFacts ==
    ASSUME KeyInv
    PROVE  /\ count \in Counts /\ count.press \in Nat /\ count.dispatch \in Nat /\ count.push \in Nat
           /\ Cardinality(edges) \in Nat /\ Cardinality(keyStates \ prevKeys) \in Nat
           /\ keyStates \subseteq Keys /\ prevKeys \subseteq Keys /\ edges \subseteq Keys
<1>1. /\ count \in Counts /\ keyStates \subseteq Keys /\ keyStates \ prevKeys \subseteq Keys
      /\ edges \subseteq Keys /\ prevKeys \subseteq Keys
  BY DEF KeyInv, keyStates, Counts
<1>2. /\ count.press \in Nat /\ count.dispatch \in Nat /\ count.push \in Nat
  BY <1>1 DEF Counts
<1>. QED
  BY <1>1, <1>2, KeysFinite

\* A step that leaves the keys alone and the event thread where it is, or at another
\* place inside a dispatch.
LEMMA KeySame ==
    ASSUME KeyInv, kbdVars' = kbdVars, prevKeys' = prevKeys, edges' = edges,
           (th'["event"].at = "idle") <=> (th["event"].at = "idle"),
           count' \in Counts, count'.press = count.press, count'.dispatch = count.dispatch
    PROVE  KeyInv'
<1>1. normal' = normal /\ ext' = ext
  BY DEF kbdVars
<1>2. keyStates' = keyStates
  BY <1>1 DEF keyStates
<1>. QED
  BY <1>1, <1>2 DEF KeyInv, Counts

\* The end of a dispatch: the key leaves edges.
LEMMA DispatchedStep ==
    ASSUME KeyInv, ChildInv, ThreadInv, Dispatched
    PROVE  KeyInv'
<1>0. th["event"].at # "idle" /\ th'["event"].at = "idle"
  BY EventStep
<1>1. /\ normal' = normal /\ ext' = ext /\ prevKeys' = prevKeys /\ count' = count
      /\ edges' = edges \ {First}
  BY DEF Dispatched, kbdVars
<1>2. keyStates' = keyStates
  BY <1>1 DEF keyStates
<1>3. edges \subseteq Keys /\ edges # {}
  BY <1>0 DEF KeyInv
<1>4. First \in edges
  BY <1>3, FirstFacts
<1>5. Cardinality(edges') = Cardinality(edges) - 1
  BY <1>1, <1>3, <1>4, KeysCount
<1>6. count.dispatch + Cardinality(edges) + Cardinality(keyStates \ prevKeys) <= count.press + 1
  BY <1>0 DEF KeyInv
<1>7. count'.dispatch + Cardinality(edges') + Cardinality(keyStates' \ prevKeys') <= count'.press + 0
  <2>1. /\ Cardinality(edges) \in Nat /\ Cardinality(keyStates \ prevKeys) \in Nat
        /\ count.dispatch \in Nat /\ count.press \in Nat
    BY KeyFacts
  <2>2. Cardinality(keyStates' \ prevKeys') = Cardinality(keyStates \ prevKeys)
    BY <1>1, <1>2
  <2>. QED
    BY <1>1, <1>5, <1>6, <2>1, <2>2
<1>8. edges' \subseteq Keys
  BY <1>1, <1>3
<1>. QED
  BY <1>0, <1>1, <1>7, <1>8 DEF KeyInv

LEMMA KeyDownStep ==
    ASSUME KeyInv, NEW k \in Keys, KeyDown(k)
    PROVE  KeyInv'
<1>1. /\ normal' \subseteq normal \cup {k} /\ ext' \subseteq ext \cup {k}
      /\ prevKeys' = prevKeys /\ edges' = edges /\ th' = th
      /\ count' = [count EXCEPT !.press = @ + 1]
  BY DEF KeyDown
<1>2. /\ count' \in Counts /\ count'.press = count.press + 1
      /\ count'.dispatch = count.dispatch
  BY <1>1, KeyFacts DEF Counts
<1>3. normal' \subseteq Keys /\ ext' \subseteq Keys
  BY <1>1 DEF KeyInv
<1>4. keyStates' \ prevKeys' \subseteq (keyStates \ prevKeys) \cup {k}
  BY <1>1 DEF keyStates
<1>5. keyStates' \ prevKeys' \subseteq Keys /\ keyStates \ prevKeys \subseteq Keys
  BY <1>3, KeyFacts DEF keyStates
<1>6. Cardinality(keyStates' \ prevKeys') <= Cardinality(keyStates \ prevKeys) + 1
  BY <1>4, <1>5, KeysCount
<1>7. count'.dispatch + Cardinality(edges') + Cardinality(keyStates' \ prevKeys')
         <= count'.press + (IF th'["event"].at = "idle" THEN 0 ELSE 1)
  <2>1. /\ Cardinality(edges) \in Nat /\ Cardinality(keyStates \ prevKeys) \in Nat
        /\ Cardinality(keyStates' \ prevKeys') \in Nat
        /\ count.dispatch \in Nat /\ count.press \in Nat
    BY <1>5, KeyFacts, KeysFinite
  <2>2. count.dispatch + Cardinality(edges) + Cardinality(keyStates \ prevKeys)
           <= count.press + (IF th["event"].at = "idle" THEN 0 ELSE 1)
    BY DEF KeyInv
  <2>3. Cardinality(edges') = Cardinality(edges)
    BY <1>1
  <2>. QED
    BY <1>1, <1>2, <1>6, <2>1, <2>2, <2>3
<1>. QED
  BY <1>1, <1>2, <1>3, <1>7 DEF KeyInv, Counts

LEMMA KeyUpStep ==
    ASSUME KeyInv, NEW k \in Keys, KeyUp(k)
    PROVE  KeyInv'
<1>1. /\ normal' \subseteq normal /\ ext' \subseteq ext
      /\ prevKeys' = prevKeys /\ edges' = edges /\ th' = th
      /\ count' = count
  BY DEF KeyUp
<1>2. normal' \subseteq Keys /\ ext' \subseteq Keys
  BY <1>1 DEF KeyInv
<1>3. /\ keyStates' \ prevKeys' \subseteq keyStates \ prevKeys
      /\ keyStates' \ prevKeys' \subseteq Keys /\ keyStates \ prevKeys \subseteq Keys
  BY <1>1, <1>2, KeyFacts DEF keyStates
<1>4. Cardinality(keyStates' \ prevKeys') <= Cardinality(keyStates \ prevKeys)
  BY <1>3, KeysCount
<1>5. count'.dispatch + Cardinality(edges') + Cardinality(keyStates' \ prevKeys')
         <= count'.press + (IF th'["event"].at = "idle" THEN 0 ELSE 1)
  <2>1. /\ Cardinality(edges) \in Nat /\ Cardinality(keyStates \ prevKeys) \in Nat
        /\ Cardinality(keyStates' \ prevKeys') \in Nat
        /\ count.dispatch \in Nat /\ count.press \in Nat
    BY <1>3, KeyFacts, KeysFinite
  <2>2. count.dispatch + Cardinality(edges) + Cardinality(keyStates \ prevKeys)
           <= count.press + (IF th["event"].at = "idle" THEN 0 ELSE 1)
    BY DEF KeyInv
  <2>3. Cardinality(edges') = Cardinality(edges)
    BY <1>1
  <2>. QED
    BY <1>1, <1>4, <2>1, <2>2, <2>3
<1>. QED
  BY <1>1, <1>2, <1>5 DEF KeyInv

\* The difference of two snapshots goes into edges, and is no difference any more.
LEMMA PollKeysStep ==
    ASSUME KeyInv, PollKeys
    PROVE  KeyInv'
<1>1. /\ th["event"].at = "idle" /\ edges = {} /\ edges' = keyStates \ prevKeys
      /\ prevKeys' = keyStates /\ normal' = normal /\ ext' = ext /\ th' = th
      /\ count' = count
  BY DEF PollKeys, kbdVars
<1>2. keyStates' = keyStates
  BY <1>1 DEF keyStates
<1>3. Cardinality(keyStates' \ prevKeys') = 0 /\ Cardinality(edges) = 0
  <2>1. keyStates' \ prevKeys' = {}
    BY <1>1, <1>2
  <2>. QED
    BY <1>1, <2>1, FS_EmptySet
<1>4. Cardinality(edges') = Cardinality(keyStates \ prevKeys)
  BY <1>1
<1>5. count'.dispatch + Cardinality(edges') + Cardinality(keyStates' \ prevKeys')
         <= count'.press + (IF th'["event"].at = "idle" THEN 0 ELSE 1)
  <2>1. /\ Cardinality(keyStates \ prevKeys) \in Nat
        /\ count.dispatch \in Nat /\ count.press \in Nat
    BY KeyFacts
  <2>2. count.dispatch + 0 + Cardinality(keyStates \ prevKeys) <= count.press + 0
    BY <1>1, <1>3 DEF KeyInv
  <2>. QED
    BY <1>1, <1>3, <1>4, <2>1, <2>2
<1>6. edges' \subseteq Keys /\ prevKeys' \subseteq Keys
  BY <1>1, KeyFacts
<1>. QED
  BY <1>1, <1>5, <1>6 DEF KeyInv

LEMMA DispatchStep ==
    ASSUME KeyInv, ChildInv, ThreadInv, Dispatch
    PROVE  KeyInv'
<1>1. /\ th["event"].at = "idle" /\ edges # {} /\ normal' = normal /\ ext' = ext
      /\ prevKeys' = prevKeys /\ edges' = edges
      /\ count' = [count EXCEPT !.dispatch = @ + 1]
  BY DEF Dispatch, kbdVars
<1>2. th'["event"].at # "idle"
  <2>1. ~Dispatched
    BY DEF Dispatch, Dispatched
  <2>. QED
    BY <2>1, EventStep
<1>3. /\ count' \in Counts /\ count'.dispatch = count.dispatch + 1
      /\ count'.press = count.press
  BY <1>1, KeyFacts DEF Counts
<1>4. keyStates' = keyStates
  BY <1>1 DEF keyStates
<1>5. count'.dispatch + Cardinality(edges') + Cardinality(keyStates' \ prevKeys')
         <= count'.press + 1
  <2>1. /\ Cardinality(edges) \in Nat /\ Cardinality(keyStates \ prevKeys) \in Nat
        /\ count.dispatch \in Nat /\ count.press \in Nat
    BY KeyFacts
  <2>2. count.dispatch + Cardinality(edges) + Cardinality(keyStates \ prevKeys)
           <= count.press + 0
    BY <1>1 DEF KeyInv
  <2>3. /\ Cardinality(edges') = Cardinality(edges)
        /\ Cardinality(keyStates' \ prevKeys') = Cardinality(keyStates \ prevKeys)
    BY <1>1, <1>4
  <2>. QED
    BY <1>3, <2>1, <2>2, <2>3
<1>. QED
  BY <1>1, <1>2, <1>3, <1>5 DEF KeyInv, Counts

LEMMA KeyStep ==
    ASSUME KeyInv, ChildInv, ThreadInv, Next
    PROVE  KeyInv'
<1>0. count \in Counts /\ "event" \in Threads /\ "main" \in Threads /\ "event" # "main"
  BY KeyFacts DEF Threads
<1>1. ASSUME NEW t \in Threads, Poll(t) PROVE KeyInv'
  <2>1. kbdVars' = kbdVars /\ prevKeys' = prevKeys /\ edges' = edges /\ count' = count
    BY <1>1 DEF Poll, ReadForeground, ReadBackground, Ask, Report
  <2>2. (th'["event"].at = "idle") <=> (th["event"].at = "idle")
    <3>1. CASE t = "event"
      BY <1>1, <3>1, PollStep
    <3>2. CASE t # "event"
      <4>1. th'["event"] = th["event"]
        BY <1>0, <1>1, <3>2, PollStep
      <4>. QED
        BY <4>1
    <3>. QED
      BY <3>1, <3>2
  <2>. QED
    BY <1>0, <2>1, <2>2, KeySame
<1>2. ASSUME HandleForeground \/ HandleEdit \/ HandleEnter \/ HandleRun \/ HandleRan PROVE KeyInv'
  <2>1. kbdVars' = kbdVars /\ prevKeys' = prevKeys /\ edges' = edges /\ count' = count
    BY <1>2 DEF HandleForeground, HandleEdit, HandleEnter, HandleRun, HandleRan
  <2>2. ~Dispatch /\ ~Dispatched
    BY <1>2 DEF HandleForeground, HandleEdit, HandleEnter, HandleRun, HandleRan, Dispatch, Dispatched
  <2>. QED
    BY <1>0, <1>2, <2>1, <2>2, EventStep, KeySame
<1>3. ASSUME HandleForward PROVE KeyInv'
  <2>1. kbdVars' = kbdVars /\ prevKeys' = prevKeys /\ edges' = edges
    BY <1>3 DEF HandleForward
  <2>2. count' = count \/ count' = [count EXCEPT !.push = count.push + 1]
    BY <1>3 DEF HandleForward
  <2>3. count' \in Counts /\ count'.press = count.press /\ count'.dispatch = count.dispatch
    BY <2>2, KeyFacts DEF Counts
  <2>4. ~Dispatch /\ ~Dispatched
    BY <1>3 DEF HandleForward, Dispatch, Dispatched
  <2>. QED
    BY <1>3, <2>1, <2>3, <2>4, EventStep, KeySame
<1>4. ASSUME NEW p \in Pids, ChildInit(p) \/ ChildRead(p) \/ ChildDies(p) PROVE KeyInv'
  <2>1. /\ th' = th /\ kbdVars' = kbdVars /\ prevKeys' = prevKeys
        /\ edges' = edges /\ count' = count
    BY <1>4 DEF ChildInit, ChildRead, ChildDies
  <2>. QED
    BY <1>0, <2>1, KeySame
<1>. QED
  BY <1>0, <1>1, <1>2, <1>3, <1>4, KeyDownStep, KeyUpStep, PollKeysStep, DispatchStep, DispatchedStep
     DEF Next, Event, Main

LEMMA ChildStep ==
    ASSUME ChildInv, KeyInv, ThreadInv, Next
    PROVE  ChildInv'
<1>0. count \in Counts
  BY KeyFacts
<1>1. ASSUME NEW k \in Keys, KeyDown(k) \/ KeyUp(k) PROVE ChildInv'
  <2>1. childVars' = childVars /\ (count' = count \/ count' = [count EXCEPT !.press = @ + 1])
    BY <1>1 DEF KeyDown, KeyUp
  <2>2. count'.push = count.push
    BY <1>0, <2>1 DEF Counts
  <2>. QED
    BY <2>1, <2>2, ChildSame
<1>2. ASSUME Dispatch PROVE ChildInv'
  <2>1. childVars' = childVars /\ count' = [count EXCEPT !.dispatch = @ + 1]
    BY <1>2 DEF Dispatch
  <2>2. count'.push = count.push
    BY <1>0, <2>1 DEF Counts
  <2>. QED
    BY <2>1, <2>2, ChildSame
<1>3. ASSUME PollKeys \/ Dispatched \/ HandleForeground \/ HandleEdit \/ HandleEnter \/ HandleRan
      PROVE  ChildInv'
  <2>1. childVars' = childVars /\ count' = count
    BY <1>3 DEF PollKeys, Dispatched, HandleForeground, HandleEdit, HandleEnter, HandleRan
  <2>. QED
    BY <2>1, ChildSame
<1>4. ASSUME NEW t \in Threads, Poll(t) PROVE ChildInv'
  <2>1. childVars' = childVars /\ count' = count
    BY <1>4 DEF Poll, ReadForeground, ReadBackground, Ask, Report
  <2>. QED
    BY <2>1, ChildSame
<1>5. "event" \in Threads /\ "main" \in Threads
  BY DEF Threads
<1>. QED
  BY <1>1, <1>2, <1>3, <1>4, <1>5, ForwardChild, RunChild, InitChild, ReadChild, DiesChild
     DEF Next, Event, Main

------------------------------------------------------------------------------
(* The theorems.                                                             *)

LEMMA InitIInv == Init => IInv
<1>. SUFFICES ASSUME Init PROVE IInv
  OBVIOUS
<1>1. MaxRuns \in Nat /\ MaxRuns >= 1
  BY TerminalAssumptions
<1>2. ThreadInv
  <2>1. /\ th["main"] = [at |-> "poll", pid |-> None, next |-> "poll"]
        /\ th["event"] = [at |-> "idle", pid |-> None, next |-> "route"]
        /\ th = [t \in Threads |-> th[t]]
    BY DEF Init, Threads
  <2>2. th["main"] \in MainPlaces /\ th["event"] \in EventPlaces
    BY <2>1 DEF MainPlaces, EventPlaces, Polling
  <2>3. fg \in Pids \cup {None} /\ bg \in Pids \cup {None}
    BY <1>1 DEF Init, Pids
  <2>4. \A t \in Threads : th[t] \in PlacesOf(t) /\ th[t] \in MainPlaces \cup EventPlaces
    BY <2>2 DEF PlacesOf, Threads
  <2>. QED
    BY <2>1, <2>3, <2>4 DEF ThreadInv
<1>3. KeyInv
  <2>1. /\ normal = {} /\ ext = {} /\ prevKeys = {} /\ edges = {} /\ th["event"].at = "idle"
        /\ count = [press |-> 0, dispatch |-> 0, push |-> 0]
    BY DEF Init, Threads
  <2>2. Cardinality({}) = 0
    BY FS_EmptySet
  <2>3. Cardinality(edges) = 0
    BY <2>1, <2>2
  <2>4. Cardinality(keyStates \ prevKeys) = 0
    <3>1. keyStates \ prevKeys = {}
      BY <2>1 DEF keyStates
    <3>. QED
      BY <2>2, <3>1
  <2>. QED
    BY <2>1, <2>3, <2>4 DEF KeyInv
<1>4. ChildInv
  <2>1. count.push = 0
    BY DEF Init
  <2>2. CASE child = <<>> /\ ring = <<>> /\ got = <<>>
    BY <1>1, <2>1, <2>2 DEF ChildInv
  <2>3. CASE child = <<[at |-> "new", cli |-> TRUE]>> /\ ring = <<EmptyRing>> /\ got = <<<<>>>>
    <3>1. child \in Seq(Programs) /\ Len(child) = 1 /\ DOMAIN child = {1}
      BY <2>3 DEF Programs
    <3>2. ring \in Seq(Rings) /\ DOMAIN ring = {1} /\ ring[1] = EmptyRing
      BY <2>3, EmptyRingFacts
    <3>3. got \in Seq(Seq(Nat)) /\ DOMAIN got = {1} /\ got[1] = <<>>
      BY <2>3
    <3>4. got[1] \o RingSeq(ring[1]) = <<>>
      BY <3>2, <3>3, EmptyRingFacts
    <3>5. InOrder(<<>>, 0)
      BY DEF InOrder
    <3>6. InOrder(got[1] \o RingSeq(ring[1]), count.push)
      BY <2>1, <3>4, <3>5
    <3>7. \A p \in DOMAIN got : InOrder(got[p] \o RingSeq(ring[p]), count.push)
      BY <3>3, <3>6
    <3>8. Len(child) <= MaxRuns /\ DOMAIN ring = DOMAIN child /\ DOMAIN got = DOMAIN child
          /\ count.push \in Nat
      BY <1>1, <2>1, <3>1, <3>2, <3>3
    <3>. QED
      BY <3>1, <3>2, <3>3, <3>7, <3>8 DEF ChildInv
  <2>. QED
    BY <2>2, <2>3 DEF Init
<1>. QED
  BY <1>2, <1>3, <1>4 DEF IInv

LEMMA IInvStep == IInv /\ [Next]_vars => IInv'
<1>. SUFFICES ASSUME IInv, [Next]_vars PROVE IInv'
  OBVIOUS
<1>1. ChildInv /\ ThreadInv /\ KeyInv
  BY DEF IInv
<1>2. CASE Next
  BY <1>1, <1>2, ChildStep, ThreadStep, KeyStep DEF IInv
<1>3. CASE UNCHANGED vars
  <2>1. /\ kbdVars' = kbdVars /\ childVars' = childVars /\ pidVars' = pidVars
        /\ prevKeys' = prevKeys /\ edges' = edges /\ th' = th /\ count' = count
    BY <1>3 DEF vars
  <2>2. ChildInv'
    BY <1>1, <2>1, ChildSame
  <2>3. ThreadInv'
    BY <1>1, <2>1 DEF ThreadInv, pidVars
  <2>4. KeyInv'
    BY <1>1, <2>1, KeyFacts, KeySame
  <2>. QED
    BY <2>2, <2>3, <2>4 DEF IInv
<1>. QED
  BY <1>2, <1>3

LEMMA InvariantReads == IInv => ReadInOrder
  BY DEF IInv, ChildInv, ReadInOrder, InOrder

LEMMA InvariantPresses == IInv => DispatchedOnce
<1>. SUFFICES ASSUME IInv PROVE DispatchedOnce
  OBVIOUS
<1>1. KeyInv
  BY DEF IInv
<1>2. /\ count.press \in Nat /\ count.dispatch \in Nat
      /\ Cardinality(edges) \in Nat /\ Cardinality(keyStates \ prevKeys) \in Nat
  BY <1>1, KeyFacts
<1>3. count.dispatch + Cardinality(edges) + Cardinality(keyStates \ prevKeys)
          <= count.press + (IF th["event"].at = "idle" THEN 0 ELSE 1)
  BY <1>1 DEF KeyInv
<1>. QED
  BY <1>2, <1>3 DEF DispatchedOnce

LEMMA InvariantTypes == IInv => TypeOK
<1>. SUFFICES ASSUME IInv PROVE TypeOK
  OBVIOUS
<1>1. ChildInv /\ ThreadInv /\ KeyInv
  BY DEF IInv
<1>2. /\ th["main"] \in MainPlaces /\ th["event"] \in EventPlaces
      /\ fg \in Pids \cup {None} /\ bg \in Pids \cup {None}
  BY <1>1 DEF ThreadInv, Threads, PlacesOf
<1>3. ASSUME NEW p \in DOMAIN child
      PROVE  /\ child[p].at \in {"new", "name", "wait", "gone"}
             /\ ring[p].head \in DOMAIN ring[p].slots /\ ring[p].tail \in DOMAIN ring[p].slots
  <2>1. child[p] \in Programs /\ ring[p] \in Rings
    BY <1>1, <1>3, ChildFacts
  <2>. QED
    BY <2>1 DEF Programs, Rings
<1>4. DOMAIN ring = DOMAIN child /\ DOMAIN got = DOMAIN child
  BY <1>1 DEF ChildInv
<1>. QED
  BY <1>1, <1>2, <1>3, <1>4 DEF TypeOK, KeyInv, MainPlaces, EventPlaces

\* A program reads the characters the terminal pushes to it in the order they were typed
\* and none twice, although PushProcessStdin() moves the reader's tail when the ring is
\* full and Hsys_initCli empties the ring under the writer (syscalls.cpp).
THEOREM ReadsInOrder == Spec => []ReadInOrder
  BY InitIInv, IInvStep, InvariantReads, PTL DEF Spec

\* A key press that the keyboard driver counts is dispatched by the event thread of
\* libhx86 (desktop.cpp) at most once, however long the key and its twin behind the 0xE0
\* prefix are held and in whatever order they are let go.
THEOREM PressesDispatchedOnce == Spec => []DispatchedOnce
  BY InitIInv, IInvStep, InvariantPresses, PTL DEF Spec

\* The ids the terminal's two threads share are a started program's or none, each thread is
\* where PollForegroundProcess() or HandleScancode() can be, and the indices of every
\* standard-input ring stay inside it (Terminal/prog.cpp, syscalls.cpp).
THEOREM TerminalTypes == Spec => []TypeOK
  BY InitIInv, IInvStep, InvariantTypes, PTL DEF Spec

------------------------------------------------------------------------------
(* The mixer and its driver.                                                  *)

\* The ring of the card.  Halves are queued in turn, so the one to fill next is the one that was
\* not queued last; the software count is above the queue by the completions it has not heard
\* of, and at least one of them is behind a status bit that is set.
RingInv ==
    /\ occupied \in 0..2 /\ active \in {0, 1}
    /\ queue \in Seq({0, 1}) /\ Len(queue) <= 2
    /\ Len(queue) = 1 => queue[1] = 1 - active
    /\ Len(queue) = 2 => queue[1] = active /\ queue[2] = 1 - active
    /\ Len(queue) <= occupied
    /\ bcis => Len(queue) < occupied
    /\ NeverStalls

\* The card is started once, at the end of the first call of PlayBuffer that gets there; until
\* then it completes nothing.  After a refused frame the queue is full and stays so until the
\* card is started, so there is no second one.
StartInv ==
    /\ {dma, mixBuffer, running, bcis} \subseteq BOOLEAN
    /\ player \in {"idle", "prefill", "mix", "start"}
    /\ timer \in {"idle", "fill"}
    /\ running => player = "idle"
    /\ ~running => ~bcis
    /\ lost \in {0, 1}
    /\ lost = 1 => \/ running \/ player = "start"
                   \/ player = "prefill" /\ occupied = 2

\* A slot is used again while its last copy waits for Update only where no frame can be mixed
\* before that copy is freed: the one entry per slot is not overwritten.
ReuseInv ==
    /\ \A s \in Slots : streams[s].active /\ pending[s] # NULL =>
         /\ timer = "idle" /\ player # "mix"
         /\ player = "prefill" => occupied = 2
    /\ ~running /\ player = "idle" /\ timer = "idle" /\ (\E s \in Slots : pending[s] # NULL)
         => occupied = 2

StreamType == [data : Copies \cup {NULL}, length : Lengths \cup {0},
               position : 0..Longest, active : BOOLEAN, looping : BOOLEAN]

\* A stream that is mixed has a copy and is at a place in it; another one holds nothing.
GoodStream(st) ==
    IF st.active THEN st.data \in Copies /\ st.length \in Lengths /\ st.position <= st.length
                 ELSE st.data = NULL

StreamInv ==
    /\ streams \in [Slots -> StreamType]
    /\ pending \in [Slots -> Copies \cup {NULL}]
    /\ heap \subseteq 1..plays /\ plays \in 0..MaxPlays
    /\ \A s \in Slots : GoodStream(streams[s])
    /\ CopiesHeldOnce

\* What has been handed to the card is what has been mixed, as long as no frame was refused.
PlayedInv ==
    /\ queued \in [Copies -> Nat]
    /\ \A c \in Copies : c > plays => queued[c] = 0
    /\ (lost = 0 /\ dma) => \A s \in Slots :
         streams[s].active /\ ~streams[s].looping => queued[streams[s].data] = streams[s].position

AudioInv == RingInv /\ StartInv /\ ReuseInv /\ StreamInv /\ PlayedInv

\* The longest sound is one of them and none is longer.
LEMMA LongestFacts == Longest \in Nat /\ \A k \in Lengths : k \in 1..Longest
<1>1. \E n \in Lengths : \A k \in Lengths : k <= n
  BY AudioAssumptions
<1>2. Longest \in Lengths /\ \A k \in Lengths : k <= Longest
  BY <1>1, Zenon DEF Longest
<1>. QED
  BY <1>2, AudioAssumptions

\* The invariant gives what the run checks.
LEMMA AudioInvSound == AudioInv => MixerSound
<1>. SUFFICES ASSUME AudioInv PROVE MixerSound
  OBVIOUS
<1>1. AudioTypeOK
  BY DEF AudioInv, RingInv, StartInv, StreamInv, PlayedInv, StreamType, AudioTypeOK
<1>2. NextHalfFree
  <2>1. Len(queue) \in Nat /\ Len(queue) <= occupied /\ occupied \in 0..2 /\ active \in {0, 1}
    BY DEF AudioInv, RingInv
  <2>2. ASSUME occupied < 2, NEW i \in 1..Len(queue) PROVE queue[i] # active
    <3>1. Len(queue) = 1 /\ i = 1
      BY <2>1, <2>2
    <3>. QED
      BY <2>1, <3>1 DEF AudioInv, RingInv
  <2>. QED
    BY <2>1, <2>2 DEF NextHalfFree
<1>3. NeverStalls /\ StreamsSound
  BY DEF AudioInv, RingInv, StartInv, StreamInv, PlayedInv, StreamsSound, OneFrameLost
<1>. QED
  BY <1>1, <1>2, <1>3 DEF MixerSound, QueueSound

\* The invariant holds once the mixer is constructed.
LEMMA AudioInitInv == AudioInit => AudioInv
<1>. SUFFICES ASSUME AudioInit PROVE AudioInv
  OBVIOUS
<1>1. RingInv
  BY DEF AudioInit, RingInv, NeverStalls
<1>2. StartInv
  <2>1. {dma, mixBuffer, running, bcis} \subseteq BOOLEAN
    BY DEF AudioInit
  <2>. QED
    BY <2>1 DEF AudioInit, StartInv
<1>3. \A s \in Slots : streams[s] = Silent /\ pending[s] = NULL
  BY DEF AudioInit
<1>4. ReuseInv
  BY <1>3 DEF ReuseInv, Silent
<1>5. StreamInv
  <2>1. Silent \in StreamType
    BY LongestFacts DEF Silent, StreamType
  <2>2. streams \in [Slots -> StreamType] /\ pending \in [Slots -> Copies \cup {NULL}]
    BY <2>1 DEF AudioInit
  <2>3. \A s \in Slots : GoodStream(streams[s])
    BY <1>3 DEF GoodStream, Silent
  <2>4. Held \subseteq {NULL}
    BY <1>3 DEF Held, Silent
  <2>5. CopiesHeldOnce
    BY <1>3, <2>4 DEF AudioInit, CopiesHeldOnce, Silent
  <2>. QED
    BY <2>2, <2>3, <2>5, AudioAssumptions DEF AudioInit, StreamInv
<1>6. PlayedInv
  BY <1>3 DEF AudioInit, PlayedInv, Silent
<1>. QED
  BY <1>1, <1>2, <1>4, <1>5, <1>6 DEF AudioInv

\* What one frame makes of a stream: an active one moves on within its copy.
LEMMA AdvanceFacts ==
    ASSUME NEW st \in StreamType, GoodStream(st), st.active
    PROVE  /\ Advance(st) \in StreamType
           /\ Advance(st).data = st.data /\ Advance(st).looping = st.looping
           /\ Advance(st).active => GoodStream(Advance(st))
           /\ ~st.looping => /\ Advance(st).position >= st.position
                             /\ Advance(st).position - st.position \in Nat
                             /\ Advance(st).position \in Nat /\ st.position \in Nat
<1>1. /\ st.length \in Nat \ {0} /\ st.length <= Longest /\ Longest \in Nat
      /\ st.position \in Nat /\ st.position <= st.length /\ FrameSamples \in Nat \ {0}
      /\ st.length \in Lengths
  <2>1. st.data \in Copies /\ st.length \in Lengths /\ st.position <= st.length
    BY DEF GoodStream
  <2>2. st.position \in 0..Longest
    BY DEF StreamType
  <2>3. FrameSamples \in Nat \ {0} /\ Longest \in Nat
    BY AudioAssumptions, LongestFacts
  <2>4. st.length \in 1..Longest
    BY <2>1, LongestFacts
  <2>. QED
    BY <2>1, <2>2, <2>3, <2>4
<1>2. CASE st.looping
  <2>1. ((st.position + FrameSamples - 1) % st.length) + 1 \in 1..st.length
    BY <1>1
  <2>2. Advance(st) = [st EXCEPT !.position = ((st.position + FrameSamples - 1) % st.length) + 1]
    BY <1>2 DEF Advance
  <2>3. /\ Advance(st).data = st.data /\ Advance(st).looping = st.looping
        /\ Advance(st).length = st.length /\ Advance(st).active = st.active
        /\ Advance(st).position \in 1..st.length
    BY <2>1, <2>2 DEF StreamType
  <2>4. Advance(st) \in StreamType
    BY <1>1, <2>1, <2>2 DEF StreamType
  <2>. QED
    BY <1>1, <1>2, <2>3, <2>4 DEF GoodStream
<1>3. CASE ~st.looping
  <2>. DEFINE p == IF st.length < st.position + FrameSamples
                   THEN st.length ELSE st.position + FrameSamples
  <2>1. p \in 0..st.length /\ p >= st.position
    BY <1>1
  <2>2. Advance(st) = [st EXCEPT !.position = p,
                                 !.active = st.length >= st.position + FrameSamples]
    BY <1>3 DEF Advance
  <2>3. (st.length >= st.position + FrameSamples) \in BOOLEAN
    OBVIOUS
  <2>4. /\ Advance(st).data = st.data /\ Advance(st).looping = st.looping
        /\ Advance(st).length = st.length /\ Advance(st).position = p
    BY <2>2 DEF StreamType
  <2>5. Advance(st) \in StreamType
    <3>1. p \in 0..Longest
      BY <1>1, <2>1
    <3>. HIDE DEF p
    <3>. QED
      BY <2>2, <2>3, <3>1 DEF StreamType
  <2>. QED
    BY <1>1, <1>3, <2>1, <2>4, <2>5 DEF GoodStream
<1>. QED
  BY <1>2, <1>3 DEF StreamType

\* Streams are told apart by the copies they mix.
LEMMA OneStreamPerCopy ==
    ASSUME StreamInv, NEW s \in Slots, NEW t \in Slots,
           streams[s].active, streams[t].data = streams[s].data
    PROVE  s = t
<1>1. streams[s].data # NULL
  BY AudioAssumptions DEF StreamInv, GoodStream, Copies
<1>. QED
  BY <1>1 DEF StreamInv, CopiesHeldOnce

\* What a frame makes of the streams: each one is left alone, moved on or cleared, and the copy
\* of one that is cleared goes to the entry of its slot.
LEMMA FrameFacts ==
    ASSUME StreamInv, ProcessAudio, NEW s \in Slots
    PROVE  /\ ~streams[s].active => streams'[s] = streams[s] /\ pending'[s] = pending[s]
           /\ streams[s].active /\ ~Ended(streams[s]) =>
                streams'[s] = Advance(streams[s]) /\ pending'[s] = pending[s]
           /\ streams[s].active /\ Ended(streams[s]) =>
                /\ streams'[s] = [Silent EXCEPT !.looping = streams[s].looping]
                /\ pending'[s] = streams[s].data
BY DEF ProcessAudio, Ended

\* A frame keeps the streams and their copies in order, provided that no entry it may fill is
\* in use.
LEMMA FrameStreams ==
    ASSUME StreamInv, ProcessAudio, heap' = heap, plays' = plays,
           \A s \in Slots : streams[s].active => pending[s] = NULL
    PROVE  StreamInv' /\ \A s \in Slots : streams'[s].active => pending'[s] = NULL
<1>1. ASSUME NEW s \in Slots
      PROVE  /\ streams'[s] \in StreamType /\ GoodStream(streams'[s])
             /\ pending'[s] \in Copies \cup {NULL}
             /\ streams'[s].active => pending'[s] = NULL
             /\ \/ streams'[s].data = streams[s].data /\ pending'[s] = pending[s]
                \/ /\ streams'[s].data = NULL /\ pending'[s] = streams[s].data
                   /\ pending[s] = NULL
  <2>0. streams[s] \in StreamType /\ GoodStream(streams[s]) /\ pending[s] \in Copies \cup {NULL}
    BY DEF StreamInv
  <2>1. CASE ~streams[s].active
    BY <2>0, <2>1, FrameFacts
  <2>2. CASE streams[s].active /\ ~Ended(streams[s])
    BY <2>0, <2>2, FrameFacts, AdvanceFacts DEF Ended
  <2>3. CASE streams[s].active /\ Ended(streams[s])
    <3>. DEFINE e == [Silent EXCEPT !.looping = streams[s].looping]
    <3>1. streams[s].looping \in BOOLEAN
      BY <2>0 DEF StreamType
    <3>2. e \in StreamType /\ e.data = NULL /\ e.active = FALSE
      <4>1. Silent \in StreamType
        BY LongestFacts DEF Silent, StreamType
      <4>2. e \in StreamType /\ e.data = Silent.data /\ e.active = Silent.active
        BY <3>1, <4>1 DEF StreamType
      <4>. QED
        BY <4>2 DEF Silent
    <3>3. streams'[s] = e /\ pending'[s] = streams[s].data
      BY <2>3, FrameFacts
    <3>4. streams[s].data \in Copies /\ pending[s] = NULL
      BY <2>0, <2>3 DEF GoodStream
    <3>. HIDE DEF e
    <3>. QED
      BY <3>2, <3>3, <3>4 DEF GoodStream
  <2>. QED
    BY <2>1, <2>2, <2>3
<1>2. streams' \in [Slots -> StreamType] /\ pending' \in [Slots -> Copies \cup {NULL}]
  <2>1. DOMAIN streams' = Slots /\ DOMAIN pending' = Slots
        /\ streams' = [s \in Slots |-> streams'[s]] /\ pending' = [s \in Slots |-> pending'[s]]
    BY DEF ProcessAudio
  <2>. QED
    BY <1>1, <2>1
<1>3. CopiesHeldOnce'
  <2>1. Held' \ {NULL} = Held \ {NULL}
    <3>1. ASSUME NEW s \in Slots
          PROVE  {streams'[s].data, pending'[s]} \ {NULL} = {streams[s].data, pending[s]} \ {NULL}
      BY <1>1
    <3>2. ASSUME NEW c PROVE c \in Held' \ {NULL} <=> c \in Held \ {NULL}
      <4>1. /\ c \in Held <=> \E s \in Slots : c \in {streams[s].data, pending[s]}
            /\ c \in Held' <=> \E s \in Slots : c \in {streams'[s].data, pending'[s]}
        BY DEF Held
      <4>. QED
        BY <3>1, <4>1
    <3>. QED
      BY <3>2
  <2>2. ASSUME NEW s \in Slots, NEW t \in Slots
        PROVE  /\ s # t => (streams'[s].data = NULL \/ streams'[s].data # streams'[t].data)
                            /\ (pending'[s] = NULL \/ pending'[s] # pending'[t])
               /\ streams'[s].data = NULL \/ streams'[s].data # pending'[t]
    <3>1. /\ s # t => (streams[s].data = NULL \/ streams[s].data # streams[t].data)
                       /\ (pending[s] = NULL \/ pending[s] # pending[t])
          /\ streams[s].data = NULL \/ streams[s].data # pending[t]
          /\ streams[t].data = NULL \/ streams[t].data # pending[s]
          /\ streams[s].data = NULL \/ streams[s].data # pending[s]
      BY DEF StreamInv, CopiesHeldOnce
    <3>. QED
      BY <1>1, <3>1
  <2>3. heap = Held \ {NULL}
    BY DEF StreamInv, CopiesHeldOnce
  <2>. QED
    BY <2>1, <2>2, <2>3 DEF CopiesHeldOnce
<1>. QED
  BY <1>1, <1>2, <1>3 DEF StreamInv

\* The samples counted for a copy are those its stream has moved over, unless the frame is
\* refused.
LEMMA FramePlayed ==
    ASSUME StreamInv, PlayedInv, RingInv, ProcessAudio, StreamInv', dma' = dma, plays' = plays,
           dma \in BOOLEAN, lost \in {0, 1}
    PROVE  PlayedInv'
<1>. DEFINE mixes(c) == dma /\ occupied < 2 /\ \E s \in Slots : streams[s].active /\ streams[s].data = c
            st(c) == streams[CHOOSE s \in Slots : streams[s].active /\ streams[s].data = c]
            next(c) == IF mixes(c)
                       THEN IF st(c).looping THEN queued[c]
                            ELSE queued[c] + (Advance(st(c)).position - st(c).position)
                       ELSE queued[c]
<1>1. queued' = [c \in Copies |-> next(c)]
  BY DEF ProcessAudio
<1>2. ASSUME NEW c \in Copies, NEW s \in Slots, streams[s].active, streams[s].data = c
      PROVE  st(c) = streams[s]
  <2>. DEFINE r == CHOOSE r \in Slots : streams[r].active /\ streams[r].data = c
  <2>1. r \in Slots /\ streams[r].active /\ streams[r].data = c
    BY <1>2
  <2>2. r = s
    BY <1>2, <2>1, OneStreamPerCopy
  <2>. QED
    BY <2>2
<1>3. \A s \in Slots : streams[s] \in StreamType /\ GoodStream(streams[s])
  BY DEF StreamInv
<1>4. ASSUME NEW c \in Copies PROVE next(c) \in Nat
  <2>1. queued[c] \in Nat
    BY DEF PlayedInv
  <2>2. CASE mixes(c) /\ ~st(c).looping
    <3>1. PICK s \in Slots : streams[s].active /\ streams[s].data = c
      BY <2>2
    <3>2. st(c) = streams[s]
      BY <1>2, <3>1
    <3>3. Advance(streams[s]).position - streams[s].position \in Nat
      BY <1>3, <2>2, <3>1, <3>2, AdvanceFacts
    <3>. QED
      BY <2>1, <2>2, <3>2, <3>3
  <2>. QED
    BY <2>1, <2>2
<1>5. queued' \in [Copies -> Nat]
  BY <1>1, <1>4
<1>6. ASSUME NEW c \in Copies, c > plays PROVE queued'[c] = 0
  <2>1. queued[c] = 0
    BY <1>6 DEF PlayedInv
  <2>2. \A s \in Slots : streams[s].active => streams[s].data # c
    <3>1. ASSUME NEW s \in Slots, streams[s].active, streams[s].data = c PROVE FALSE
      <4>1. c \in Held \ {NULL}
        BY <3>1, AudioAssumptions DEF Held, Copies
      <4>2. c \in 1..plays
        BY <4>1 DEF StreamInv, CopiesHeldOnce
      <4>. QED
        BY <1>6, <4>2 DEF StreamInv
    <3>. QED
      BY <3>1
  <2>. QED
    BY <1>1, <2>1, <2>2
<1>7. ASSUME lost' = 0, dma, NEW s \in Slots, streams'[s].active, ~streams'[s].looping
      PROVE  queued'[streams'[s].data] = streams'[s].position
  <2>1. occupied < 2 /\ lost = 0
    BY <1>7 DEF ProcessAudio, WriteData, RingInv
  <2>2. streams[s].active /\ streams'[s] = Advance(streams[s])
    <3>1. streams[s].active
      BY <1>7, FrameFacts
    <3>2. ~Ended(streams[s])
      <4>1. Ended(streams[s]) => streams'[s] = [Silent EXCEPT !.looping = streams[s].looping]
        BY <3>1, FrameFacts
      <4>2. [Silent EXCEPT !.looping = streams[s].looping].active = FALSE
        BY DEF Silent
      <4>. QED
        BY <1>7, <4>1, <4>2
    <3>. QED
      BY <3>1, <3>2, FrameFacts
  <2>. DEFINE c == streams[s].data
  <2>3. c \in Copies
    BY <1>3, <2>2 DEF GoodStream
  <2>4. /\ streams'[s].data = c /\ ~streams[s].looping
        /\ streams'[s].position \in Nat /\ streams[s].position \in Nat
    BY <1>3, <1>7, <2>2, AdvanceFacts
  <2>5. mixes(c) /\ st(c) = streams[s]
    BY <1>2, <1>7, <2>1, <2>2, <2>3
  <2>6. queued[c] = streams[s].position
    BY <1>7, <2>1, <2>2, <2>4 DEF PlayedInv
  <2>7. queued'[c] = queued[c] + (Advance(streams[s]).position - streams[s].position)
    BY <1>1, <2>3, <2>4, <2>5
  <2>. QED
    BY <2>2, <2>4, <2>6, <2>7
<1>. QED
  BY <1>5, <1>6, <1>7 DEF PlayedInv

\* A half is queued behind the other one, and only when the count says there is room.
LEMMA FrameRing ==
    ASSUME RingInv, ProcessAudio, bcis' = bcis
    PROVE  RingInv'
<1>1. CASE dma /\ occupied < 2
  <2>1. /\ queue' = Append(queue, active) /\ active' = 1 - active
        /\ occupied' = occupied + 1
    BY <1>1 DEF ProcessAudio, WriteData
  <2>2. /\ occupied \in {0, 1} /\ active \in {0, 1} /\ queue \in Seq({0, 1})
        /\ Len(queue) \in {0, 1} /\ Len(queue) <= occupied
        /\ Len(queue) = 1 => queue[1] = 1 - active
        /\ bcis => Len(queue) < occupied
    <3>1. occupied \in 0..2 /\ occupied < 2 /\ Len(queue) <= occupied /\ queue \in Seq({0, 1})
      BY <1>1 DEF RingInv
    <3>2. Len(queue) \in Nat
      BY <3>1
    <3>3. occupied \in {0, 1} /\ Len(queue) \in {0, 1}
      <4>1. \A n \in Nat, k \in 0..2 : k < 2 /\ n <= k => k \in {0, 1} /\ n \in {0, 1}
        OBVIOUS
      <4>. QED
        BY <3>1, <3>2, <4>1
    <3>. QED
      BY <3>1, <3>3 DEF RingInv
  <2>3. /\ queue' \in Seq({0, 1}) /\ Len(queue') = Len(queue) + 1
        /\ queue'[Len(queue) + 1] = active
        /\ Len(queue) = 1 => queue'[1] = queue[1]
    BY <2>1, <2>2
  <2>4. queue' # <<>>
    BY <2>2, <2>3
  <2>. QED
    BY <2>1, <2>2, <2>3, <2>4 DEF RingInv, NeverStalls
<1>2. CASE ~(dma /\ occupied < 2)
  BY <1>2 DEF ProcessAudio, WriteData, RingInv, NeverStalls
<1>. QED
  BY <1>1, <1>2

\* The task's call of ProcessAudio.
LEMMA PrefillMixInv == AudioInv /\ PrefillMix => AudioInv'
<1>. SUFFICES ASSUME AudioInv, PrefillMix PROVE AudioInv'
  OBVIOUS
<1>. USE DEF AudioInv
<1>1. /\ timer = "idle" /\ player = "mix" /\ ProcessAudio /\ player' = "prefill"
      /\ UNCHANGED <<dma, mixBuffer, heap, running, bcis, timer, plays>>
  BY DEF PrefillMix, Enabled
<1>2. \A s \in Slots : streams[s].active => pending[s] = NULL
  BY <1>1 DEF ReuseInv
<1>3. StreamInv' /\ \A s \in Slots : streams'[s].active => pending'[s] = NULL
  BY <1>1, <1>2, FrameStreams
<1>4. PlayedInv'
  BY <1>1, <1>3, FramePlayed DEF StartInv
<1>5. RingInv'
  BY <1>1, FrameRing
<1>6. StartInv'
  <2>1. lost = 0 /\ ~running
    BY <1>1 DEF StartInv
  <2>2. lost' = 0 \/ (lost' = 1 /\ occupied' = 2)
    BY <1>1, <2>1 DEF ProcessAudio, WriteData, RingInv
  <2>3. {dma', mixBuffer', running', bcis'} \subseteq BOOLEAN
    BY <1>1 DEF StartInv
  <2>4. lost' \in {0, 1}
    BY <2>1, <2>2 DEF StartInv
  <2>5. (~running => ~bcis) /\ (running => player = "idle")
    BY DEF StartInv
  <2>. QED
    BY <1>1, <2>1, <2>2, <2>3, <2>4, <2>5 DEF StartInv
<1>7. ReuseInv'
  BY <1>1, <1>3 DEF ReuseInv
<1>. QED
  BY <1>3, <1>4, <1>5, <1>6, <1>7

\* The interrupt's call of ProcessAudio.
LEMMA UpdateFillInv == AudioInv /\ UpdateFill => AudioInv'
<1>. SUFFICES ASSUME AudioInv, UpdateFill PROVE AudioInv'
  OBVIOUS
<1>. USE DEF AudioInv
<1>1. /\ timer = "fill" /\ occupied < 2 /\ ProcessAudio
      /\ UNCHANGED <<dma, mixBuffer, heap, running, bcis, player, timer, plays>>
  BY DEF UpdateFill, IsReadyForData
<1>2. \A s \in Slots : streams[s].active => pending[s] = NULL
  BY <1>1 DEF ReuseInv
<1>3. StreamInv' /\ \A s \in Slots : streams'[s].active => pending'[s] = NULL
  BY <1>1, <1>2, FrameStreams
<1>4. PlayedInv'
  BY <1>1, <1>3, FramePlayed DEF StartInv
<1>5. RingInv'
  BY <1>1, FrameRing
<1>6. StartInv'
  <2>1. lost' = lost
    BY <1>1 DEF ProcessAudio, WriteData
  <2>2. lost = 1 => running \/ player = "start"
    BY <1>1 DEF StartInv
  <2>3. {dma', mixBuffer', running', bcis'} \subseteq BOOLEAN
    BY <1>1 DEF StartInv
  <2>4. lost' \in {0, 1}
    BY <2>1, <2>2 DEF StartInv
  <2>5. (~running => ~bcis) /\ (running => player = "idle")
    BY DEF StartInv
  <2>. QED
    BY <1>1, <2>1, <2>2, <2>3, <2>4, <2>5 DEF StartInv
<1>7. ReuseInv'
  BY <1>1, <1>3 DEF ReuseInv
<1>. QED
  BY <1>3, <1>4, <1>5, <1>6, <1>7

\* The locked region of PlayBuffer: the copy it makes is a new one, and a slot whose last copy
\* still waits for Update is used only after the card was started or with a full queue.
LEMMA PlayBufferInv == AudioInv /\ PlayBuffer => AudioInv'
<1>. SUFFICES ASSUME AudioInv, PlayBuffer PROVE AudioInv'
  OBVIOUS
<1>. USE DEF AudioInv
<1>1. /\ timer = "idle" /\ player = "idle" /\ plays < MaxPlays
      /\ player' = IF running THEN "idle" ELSE "prefill"
      /\ UNCHANGED <<dma, mixBuffer, pending, occupied, active, queue, running, bcis, timer,
                     queued, lost>>
  BY DEF PlayBuffer, Enabled
<1>2. RingInv'
  BY <1>1 DEF RingInv, NeverStalls
<1>3. StartInv'
  <2>1. {dma', mixBuffer', running', bcis'} \subseteq BOOLEAN
    BY <1>1 DEF StartInv
  <2>2. lost = 1 => running
    BY <1>1 DEF StartInv
  <2>. QED
    BY <1>1, <2>1, <2>2 DEF StartInv
<1>4. ReuseInv'
  <2>1. ~running /\ (\E s \in Slots : pending[s] # NULL) => occupied = 2
    BY <1>1 DEF ReuseInv
  <2>. QED
    BY <1>1, <2>1 DEF ReuseInv
<1>5. CASE \A s \in Slots : streams[s].active
  <2>1. UNCHANGED <<heap, plays, streams>>
    BY <1>5 DEF PlayBuffer, FirstInactive
  <2>2. StreamInv'
    BY <1>1, <2>1 DEF StreamInv, CopiesHeldOnce, Held
  <2>3. PlayedInv'
    BY <1>1, <2>1 DEF PlayedInv
  <2>. QED
    BY <1>2, <1>3, <1>4, <2>2, <2>3
<1>6. ASSUME NEW len \in Lengths, NEW loop \in BOOLEAN, NEW s \in Slots, FirstInactive(s),
             heap' = heap \cup {plays + 1}, plays' = plays + 1,
             streams' = [streams EXCEPT ![s] =
                 [data |-> plays + 1, length |-> len, position |-> 0,
                  active |-> TRUE, looping |-> loop]]
      PROVE  AudioInv'
  <2>. DEFINE e == [data |-> plays + 1, length |-> len, position |-> 0,
                    active |-> TRUE, looping |-> loop]
  <2>1. plays \in Nat /\ MaxPlays \in Nat /\ plays + 1 \in Copies /\ plays + 1 # NULL
        /\ heap \subseteq 1..plays /\ plays + 1 \notin heap /\ NULL \notin Copies
    BY <1>1, AudioAssumptions DEF StreamInv, Copies
  <2>2. e \in StreamType /\ GoodStream(e) /\ e.data = plays + 1 /\ e.position = 0
    BY <2>1, LongestFacts, AudioAssumptions DEF StreamType, GoodStream
  <2>3. /\ streams' \in [Slots -> StreamType] /\ streams'[s] = e
        /\ \A t \in Slots \ {s} : streams'[t] = streams[t]
    BY <1>6, <2>2 DEF StreamInv
  <2>4. streams[s].data = NULL
    BY <1>6 DEF FirstInactive, StreamInv, GoodStream
  <2>. HIDE DEF e
  <2>5. heap = Held \ {NULL}
    BY DEF StreamInv, CopiesHeldOnce
  <2>6. \A t \in Slots : streams[t].data # plays + 1 /\ pending[t] # plays + 1
    BY <2>1, <2>5 DEF Held
  <2>7. CopiesHeldOnce'
    <3>1. ASSUME NEW c PROVE c \in Held' \ {NULL} <=> c \in heap'
      <4>1. /\ c \in Held <=> \E t \in Slots : c = streams[t].data \/ c = pending[t]
            /\ c \in Held' <=> \E t \in Slots : c = streams'[t].data \/ c = pending[t]
        BY <1>1 DEF Held
      <4>2. CASE c = plays + 1
        BY <1>6, <2>1, <2>2, <2>3, <4>1, <4>2
      <4>3. CASE c # plays + 1
        BY <1>6, <2>2, <2>3, <2>4, <2>5, <4>1, <4>3
      <4>. QED
        BY <4>2, <4>3
    <3>2. ASSUME NEW t \in Slots, NEW u \in Slots
          PROVE  /\ t # u => (streams'[t].data = NULL \/ streams'[t].data # streams'[u].data)
                              /\ (pending'[t] = NULL \/ pending'[t] # pending'[u])
                 /\ streams'[t].data = NULL \/ streams'[t].data # pending'[u]
      <4>1. /\ t # u => (streams[t].data = NULL \/ streams[t].data # streams[u].data)
                         /\ (pending[t] = NULL \/ pending[t] # pending[u])
            /\ streams[t].data = NULL \/ streams[t].data # pending[u]
        BY DEF StreamInv, CopiesHeldOnce
      <4>. QED
        BY <1>1, <2>2, <2>3, <2>6, <4>1
    <3>. QED
      BY <3>1, <3>2 DEF CopiesHeldOnce
  <2>8. StreamInv'
    <3>1. \A t \in Slots : GoodStream(streams'[t])
      BY <2>2, <2>3 DEF StreamInv
    <3>2. plays' \in 0..MaxPlays /\ heap' \subseteq 1..plays'
      BY <1>1, <1>6, <2>1
    <3>. QED
      BY <1>1, <2>3, <2>7, <3>1, <3>2 DEF StreamInv
  <2>9. PlayedInv'
    <3>1. queued[plays + 1] = 0
      BY <2>1 DEF PlayedInv
    <3>2. \A c \in Copies : c > plays + 1 => queued[c] = 0
      <4>1. \A c \in Copies : c > plays + 1 => c > plays
        BY <2>1 DEF Copies
      <4>. QED
        BY <4>1 DEF PlayedInv
    <3>3. ASSUME lost = 0, dma, NEW t \in Slots, streams'[t].active, ~streams'[t].looping
          PROVE  queued[streams'[t].data] = streams'[t].position
      BY <2>2, <2>3, <3>1, <3>3 DEF PlayedInv
    <3>. QED
      BY <1>1, <1>6, <3>2, <3>3 DEF PlayedInv
  <2>. QED
    BY <1>2, <1>3, <1>4, <2>8, <2>9
<1>. QED
  BY <1>5, <1>6 DEF PlayBuffer

\* The deferred frees: what is freed is what only the entries held.
LEMMA UpdateFreeInv == AudioInv /\ UpdateFree => AudioInv'
<1>. SUFFICES ASSUME AudioInv, UpdateFree PROVE AudioInv'
  OBVIOUS
<1>. USE DEF AudioInv
<1>1. /\ timer = "idle" /\ timer' = "fill"
      /\ heap' = heap \ {pending[s] : s \in Slots} /\ pending' = [s \in Slots |-> NULL]
      /\ UNCHANGED <<dma, mixBuffer, streams, occupied, active, queue, running, bcis, player,
                     plays, queued, lost>>
  BY DEF UpdateFree, Enabled
<1>2. RingInv'
  BY <1>1 DEF RingInv, NeverStalls
<1>3. StartInv'
  <2>1. {dma', mixBuffer', running', bcis'} \subseteq BOOLEAN
    BY <1>1 DEF StartInv
  <2>. QED
    BY <1>1, <2>1 DEF StartInv
<1>4. ReuseInv' /\ PlayedInv'
  BY <1>1 DEF ReuseInv, PlayedInv
<1>5. StreamInv'
  <2>1. \A s, t \in Slots : streams[s].data = NULL \/ streams[s].data # pending[t]
    BY DEF StreamInv, CopiesHeldOnce
  <2>2. ASSUME NEW c PROVE c \in Held' \ {NULL} <=> c \in heap'
    <3>1. /\ c \in Held <=> \E s \in Slots : c = streams[s].data \/ c = pending[s]
          /\ c \in Held' <=> \E s \in Slots : c = streams[s].data \/ c = NULL
      BY <1>1 DEF Held
    <3>2. heap = Held \ {NULL}
      BY DEF StreamInv, CopiesHeldOnce
    <3>3. c \in {pending[s] : s \in Slots} <=> \E s \in Slots : c = pending[s]
      OBVIOUS
    <3>. QED
      BY <1>1, <2>1, <3>1, <3>2, <3>3
  <2>3. \A s, t \in Slots : s # t => (streams[s].data = NULL \/ streams[s].data # streams[t].data)
    BY DEF StreamInv, CopiesHeldOnce
  <2>4. \A s \in Slots : pending'[s] = NULL
    BY <1>1
  <2>5. CopiesHeldOnce'
    BY <1>1, <2>2, <2>3, <2>4 DEF CopiesHeldOnce
  <2>. QED
    BY <1>1, <2>5 DEF StreamInv
<1>. QED
  BY <1>2, <1>3, <1>4, <1>5

\* The steps that move no sample: the tests, the start of the card and what it reports.
LEMMA QuietInv ==
    ASSUME AudioInv, Prefill \/ Start \/ UpdateReturn \/ CardFinishes \/ OnInterrupt
    PROVE  AudioInv'
<1>. USE DEF AudioInv
<1>1. UNCHANGED <<dma, mixBuffer, streams, pending, heap, plays, queued, lost>>
  BY DEF Prefill, Start, UpdateReturn, CardFinishes, OnInterrupt, mixVars
<1>2. StreamInv' /\ PlayedInv'
  BY <1>1 DEF StreamInv, CopiesHeldOnce, Held, PlayedInv
<1>3. CASE Prefill
  <2>1. RingInv'
    BY <1>3 DEF Prefill, mixVars, RingInv, NeverStalls
  <2>2. {dma', mixBuffer', running', bcis'} \subseteq BOOLEAN
    BY <1>3 DEF Prefill, mixVars, StartInv
  <2>3. StartInv' /\ ReuseInv'
    BY <1>3, <2>2 DEF Prefill, IsReadyForData, mixVars, StartInv, ReuseInv
  <2>. QED
    BY <1>2, <2>1, <2>3
<1>4. CASE Start
  <2>1. RingInv'
    BY <1>4 DEF Start, mixVars, RingInv, NeverStalls
  <2>2. {dma', mixBuffer', running', bcis'} \subseteq BOOLEAN
    BY <1>4 DEF Start, mixVars, StartInv
  <2>3. StartInv' /\ ReuseInv'
    BY <1>4, <2>2 DEF Start, Enabled, mixVars, StartInv, ReuseInv
  <2>. QED
    BY <1>2, <2>1, <2>3
<1>5. CASE UpdateReturn
  <2>1. RingInv' /\ occupied = 2
    BY <1>5 DEF UpdateReturn, IsReadyForData, mixVars, RingInv, NeverStalls
  <2>2. {dma', mixBuffer', running', bcis'} \subseteq BOOLEAN
    BY <1>5 DEF UpdateReturn, mixVars, StartInv
  <2>3. StartInv' /\ ReuseInv'
    BY <1>5, <2>1, <2>2 DEF UpdateReturn, mixVars, StartInv, ReuseInv
  <2>. QED
    BY <1>2, <2>1, <2>3
<1>6. CASE CardFinishes
  <2>1. /\ running /\ queue # <<>> /\ queue' = Tail(queue) /\ bcis' = TRUE
        /\ UNCHANGED <<occupied, active, running, player, timer>>
    BY <1>6 DEF CardFinishes
  <2>2. RingInv'
    <3>1. /\ Len(queue) \in {1, 2} /\ queue \in Seq({0, 1}) /\ active \in {0, 1}
          /\ Len(queue) <= occupied /\ occupied \in 0..2
      <4>1. queue \in Seq({0, 1}) /\ Len(queue) <= 2
        BY DEF RingInv
      <4>2. Len(queue) \in Nat /\ Len(queue) # 0
        BY <2>1, <4>1
      <4>3. \A n \in Nat : n <= 2 /\ n # 0 => n \in {1, 2}
        OBVIOUS
      <4>. QED
        BY <4>1, <4>2, <4>3 DEF RingInv
    <3>2. /\ queue' \in Seq({0, 1}) /\ Len(queue') = Len(queue) - 1
          /\ Len(queue) = 2 => queue'[1] = queue[2]
      BY <2>1, <3>1
    <3>. QED
      BY <2>1, <3>1, <3>2 DEF RingInv, NeverStalls
  <2>3. {dma', mixBuffer', running', bcis'} \subseteq BOOLEAN
    BY <1>1, <2>1 DEF StartInv
  <2>4. StartInv' /\ ReuseInv'
    BY <1>1, <2>1, <2>3 DEF StartInv, ReuseInv
  <2>. QED
    BY <1>2, <2>2, <2>4
<1>7. CASE OnInterrupt
  <2>1. /\ bcis /\ bcis' = FALSE /\ UNCHANGED <<active, queue, running, player, timer>>
        /\ occupied' = IF occupied > 0 THEN occupied - 1 ELSE 0
    BY <1>7 DEF OnInterrupt
  <2>2. RingInv'
    <3>1. /\ Len(queue) \in Nat /\ Len(queue) < occupied /\ occupied \in 0..2
      BY <2>1 DEF RingInv
    <3>2. occupied' = occupied - 1 /\ occupied' \in 0..1
      BY <2>1, <3>1
    <3>. QED
      BY <2>1, <3>1, <3>2 DEF RingInv, NeverStalls
  <2>3. {dma', mixBuffer', running', bcis'} \subseteq BOOLEAN
    BY <1>1, <2>1 DEF StartInv
  <2>4. running /\ player = "idle"
    BY <2>1 DEF StartInv
  <2>5. StartInv' /\ ReuseInv'
    BY <1>1, <2>1, <2>3, <2>4 DEF StartInv, ReuseInv
  <2>. QED
    BY <1>2, <2>2, <2>5
<1>. QED
  BY <1>3, <1>4, <1>5, <1>6, <1>7

\* Every step keeps the invariant.
LEMMA AudioNextInv == AudioInv /\ [AudioNext]_audioVars => AudioInv'
<1>1. AudioInv /\ UNCHANGED audioVars => AudioInv'
  BY DEF audioVars, mixVars, AudioInv, RingInv, NeverStalls, StartInv, ReuseInv, StreamInv,
     CopiesHeldOnce, Held, PlayedInv
<1>. QED
  BY <1>1, PlayBufferInv, PrefillMixInv, UpdateFreeInv, UpdateFillInv, QuietInv DEF AudioNext

\* However calls of PlayBuffer, timer ticks and completions of the card interleave: no sample
\* copy is leaked, freed while it is mixed or freed twice; the half to fill is never one the
\* card has yet to play; the output never stalls behind a count that is too high; and at most
\* one frame is lost, the others being played sample for sample.
THEOREM MixerIsSound == AudioSpec => []MixerSound
BY AudioInitInv, AudioNextInv, AudioInvSound, PTL DEF AudioSpec
=============================================================================

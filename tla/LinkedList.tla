------------------------------ MODULE LinkedList ------------------------------
(***************************************************************************)
(* The kernel's LinkedList<T> (include/utils/linkedList.h) seen as a       *)
(* sequence, head first.  Every queue of the kernel is one of these lists, *)
(* and which end an operation works on is what makes a list a FIFO queue   *)
(* or a stack: Add() prepends, PushBack() appends, PopFront() takes the    *)
(* head and Remove() takes out only the FIRST matching element.            *)
(* ListImpl shows that the pointer code implements these operators.        *)
(***************************************************************************)
EXTENDS Integers, Sequences

\* The elements of a list, with no order and no multiplicity.
Elems(q) == {q[i] : i \in DOMAIN q}

\* No element occurs twice.
NoRepeat(q) == \A i, j \in DOMAIN q : q[i] = q[j] => i = j

\* LinkedList::Add(): prepend.
Add(q, x) == <<x>> \o q

\* Mutant: PushBack() prepends, as Add() does.
PushFront(q, x) == Add(q, x)

\* LinkedList::PushBack(): append.
PushBack(q, x) == Append(q, x)

\* The subsequence of q at the positions in P, in order: what a pass over
\* the list that keeps some of its nodes leaves behind.
SubSeqAt(q, P) ==
    LET f[i \in 0..Len(q)] ==
            IF i = 0 THEN <<>>
            ELSE IF i \in P THEN Append(f[i-1], q[i])
            ELSE f[i-1]
    IN  f[Len(q)]

\* Position i of q is the first one that holds its element.
FirstAt(q, i) == \A j \in 1..(i-1) : q[j] # q[i]

\* LinkedList::Remove(), once for each element of S: the first occurrence
\* of the element goes, any later one stays.
RemoveFirsts(q, S) == SubSeqAt(q, {i \in DOMAIN q : ~ (q[i] \in S /\ FirstAt(q, i))})

===============================================================================

------------------------------- MODULE ListImpl -------------------------------
(***************************************************************************)
(* The pointer code of LinkedList<T> (include/utils/linkedList.h), one     *)
(* action per statement, run by a kernel thread while a syscall handler    *)
(* pops the same list.                                                     *)
(*                                                                         *)
(* The thread runs with interrupts on, so the timer can switch to a        *)
(* process whose syscall runs between any two of the thread's statements.  *)
(* Guarded is TRUE for the lists whose users hold an InterruptGuard (the   *)
(* scheduler's queues, the deferred widget deletes) and FALSE for the      *)
(* event queue of a GUI process, to which the desktop thread adds with no  *)
(* guard while the process pops it through the GET syscall.                *)
(***************************************************************************)
EXTENDS Integers, Sequences, FiniteSets

CONSTANTS
    Nodes,       \* heap addresses a Node can be allocated at
    Items,       \* the values the list holds
    Null,        \* the null pointer
    Ops,         \* which operations the thread performs
    Guarded      \* the thread holds an InterruptGuard around each operation

ASSUME ListAssumption ==
    /\ IsFiniteSet(Nodes)
    /\ Null \notin Nodes
    /\ Ops \subseteq {"Add", "PushBack", "PopFront", "Remove"}
    /\ Guarded \in BOOLEAN

VARIABLES
    alloc,                    \* the allocated nodes
    data, next,               \* their fields
    head, tail, size,         \* the list
    pc, cur, prev, item       \* the thread: next statement and its locals

listVars == <<head, tail, size>>
vars == <<alloc, data, next, head, tail, size, pc, cur, prev, item>>

Pointers == Nodes \cup {Null}
Labels == {"idle", "add_next", "add_head", "add_tail", "push_link", "push_tail",
           "pop_head", "pop_tail", "remove_scan", "remove_tail", "delete", "grow", "shrink"}

TypeOK ==
    /\ alloc \subseteq Nodes
    /\ data \in [Nodes -> Items]
    /\ next \in [Nodes -> Pointers]
    /\ {head, tail, cur, prev} \subseteq Pointers
    /\ size \in Nat
    /\ pc \in Labels
    /\ item \in Items

Init ==
    /\ alloc = {}
    /\ data \in [Nodes -> Items] /\ \A m, n \in Nodes : data[m] = data[n]
    /\ next = [n \in Nodes |-> Null]
    /\ head = Null /\ tail = Null /\ size = 0
    /\ pc = "idle" /\ cur = Null /\ prev = Null
    /\ item \in Items

-------------------------------------------------------------------------------
\* new Node(x): data is set and next is null.
NewNode(x) ==
    \E n \in Nodes \ alloc :
        /\ alloc' = alloc \cup {n}
        /\ data' = [data EXCEPT ![n] = x]
        /\ next' = [next EXCEPT ![n] = Null]
        /\ cur' = n

Goto(l) == pc' = l

\* Add(x): newNode->next = head; head = newNode; if (!tail) tail = head; size++.
AddNew(x) ==
    /\ pc = "idle" /\ "Add" \in Ops
    /\ NewNode(x)
    /\ Goto("add_next")
    /\ UNCHANGED <<listVars, prev, item>>

AddNext ==
    /\ pc = "add_next"
    /\ next' = [next EXCEPT ![cur] = head]
    /\ Goto("add_head")
    /\ UNCHANGED <<alloc, data, listVars, cur, prev, item>>

AddHead ==
    /\ pc = "add_head"
    /\ head' = cur
    /\ Goto("add_tail")
    /\ UNCHANGED <<alloc, data, next, tail, size, cur, prev, item>>

AddTail ==
    /\ pc = "add_tail"
    /\ tail' = IF tail = Null THEN head ELSE tail
    /\ Goto("grow")
    /\ UNCHANGED <<alloc, data, next, head, size, cur, prev, item>>

\* PushBack(x): link the node behind the tail, or make it the whole list.
PushNew(x) ==
    /\ pc = "idle" /\ "PushBack" \in Ops
    /\ NewNode(x)
    /\ Goto("push_link")
    /\ UNCHANGED <<listVars, prev, item>>

\* Mutant: the node is linked behind the head.
PushLinkSecond ==
    /\ pc = "push_link"
    /\ IF tail = Null
       THEN /\ head' = cur /\ tail' = cur
            /\ Goto("grow")
            /\ UNCHANGED next
       ELSE /\ next' = [next EXCEPT ![head] = cur, ![cur] = next[head]]
            /\ Goto(IF head = tail THEN "push_tail" ELSE "grow")
            /\ UNCHANGED <<head, tail>>
    /\ UNCHANGED <<alloc, data, size, cur, prev, item>>

PushLink ==
    /\ pc = "push_link"
    /\ IF tail = Null
       THEN /\ head' = cur /\ tail' = cur
            /\ Goto("grow")
            /\ UNCHANGED next
       ELSE /\ next' = [next EXCEPT ![tail] = cur]
            /\ Goto("push_tail")
            /\ UNCHANGED <<head, tail>>
    /\ UNCHANGED <<alloc, data, size, cur, prev, item>>

PushTail ==
    /\ pc = "push_tail"
    /\ tail' = cur
    /\ Goto("grow")
    /\ UNCHANGED <<alloc, data, next, head, size, cur, prev, item>>

\* size++, the last statement of Add() and PushBack().
Grow ==
    /\ pc = "grow"
    /\ size' = size + 1
    /\ Goto("idle")
    /\ UNCHANGED <<alloc, data, next, head, tail, cur, prev, item>>

\* PopFront(): unlink the head, reset the tail of an emptied list, delete.
PopTemp ==
    /\ pc = "idle" /\ "PopFront" \in Ops
    /\ head # Null
    /\ cur' = head
    /\ Goto("pop_head")
    /\ UNCHANGED <<alloc, data, next, listVars, prev, item>>

PopHead ==
    /\ pc = "pop_head"
    /\ head' = next[head]
    /\ Goto("pop_tail")
    /\ UNCHANGED <<alloc, data, next, tail, size, cur, prev, item>>

PopTail ==
    /\ pc = "pop_tail"
    /\ tail' = IF head = Null THEN Null ELSE tail
    /\ Goto("delete")
    /\ UNCHANGED <<alloc, data, next, head, size, cur, prev, item>>

\* Remove() and Take() with a predicate that holds of x only: walk with prev one behind.
RemoveStart(x) ==
    /\ pc = "idle" /\ "Remove" \in Ops
    /\ head # Null
    /\ cur' = head /\ prev' = Null /\ item' = x
    /\ Goto("remove_scan")
    /\ UNCHANGED <<alloc, data, next, listVars>>

\* Mutant: a match at the head is not unlinked.
RemoveUnlinkNotHead ==
    /\ pc = "remove_scan" /\ cur # Null /\ data[cur] = item
    /\ next' = IF prev = Null THEN next ELSE [next EXCEPT ![prev] = next[cur]]
    /\ Goto("remove_tail")
    /\ UNCHANGED <<alloc, data, listVars, cur, prev, item>>

\* The node matches: unlink it from its predecessor or from the head.
RemoveUnlink ==
    /\ pc = "remove_scan" /\ cur # Null /\ data[cur] = item
    /\ IF prev = Null
       THEN head' = next[cur] /\ UNCHANGED next
       ELSE next' = [next EXCEPT ![prev] = next[cur]] /\ UNCHANGED head
    /\ Goto("remove_tail")
    /\ UNCHANGED <<alloc, data, tail, size, cur, prev, item>>

RemoveStep ==
    /\ pc = "remove_scan" /\ cur # Null /\ data[cur] # item
    /\ prev' = cur /\ cur' = next[cur]
    /\ UNCHANGED <<alloc, data, next, listVars, pc, item>>

\* Nothing matched.
RemoveNone ==
    /\ pc = "remove_scan" /\ cur = Null
    /\ Goto("idle")
    /\ UNCHANGED <<alloc, data, next, listVars, cur, prev, item>>

RemoveTail ==
    /\ pc = "remove_tail"
    /\ tail' = IF cur = tail THEN prev ELSE tail
    /\ Goto("delete")
    /\ UNCHANGED <<alloc, data, next, head, size, cur, prev, item>>

\* delete, at the end of PopFront() and Remove().
Delete ==
    /\ pc = "delete"
    /\ alloc' = alloc \ {cur}
    /\ Goto("shrink")
    /\ UNCHANGED <<data, next, listVars, cur, prev, item>>

\* size--.
Shrink ==
    /\ pc = "shrink"
    /\ size' = size - 1
    /\ Goto("idle")
    /\ UNCHANGED <<alloc, data, next, head, tail, cur, prev, item>>

\* HguiHandler::HandleEvent(GET): the syscall pops the list with IF=0, in one
\* step, whenever the thread has not masked interrupts.
HandleEventGet ==
    /\ Guarded => pc = "idle"
    /\ size > 0 /\ head \in alloc
    /\ head' = next[head]
    /\ tail' = IF next[head] = Null THEN Null ELSE tail
    /\ alloc' = alloc \ {head}
    /\ size' = size - 1
    /\ UNCHANGED <<data, next, pc, cur, prev, item>>

Next ==
    \/ \E x \in Items : AddNew(x) \/ PushNew(x) \/ RemoveStart(x)
    \/ AddNext \/ AddHead \/ AddTail \/ PushLink \/ PushTail \/ Grow
    \/ PopTemp \/ PopHead \/ PopTail
    \/ RemoveUnlink \/ RemoveStep \/ RemoveNone \/ RemoveTail
    \/ Delete \/ Shrink
    \/ HandleEventGet

Spec == Init /\ [][Next]_vars

-------------------------------------------------------------------------------
\* The pointer reached from the head in i steps.
Nth[i \in 0..Cardinality(Nodes)] ==
    IF i = 0 THEN head
    ELSE IF Nth[i-1] = Null THEN Null ELSE next[Nth[i-1]]

\* The number of nodes before the null pointer; no chain is longer than Nodes
\* unless it is a cycle.
IsLength(n) == Nth[n] = Null /\ \A i \in 0..(n-1) : Nth[i] # Null
Linear == \E n \in 0..Cardinality(Nodes) : IsLength(n)
Length == CHOOSE n \in 0..Cardinality(Nodes) : IsLength(n)

Chain == {Nth[i] : i \in 0..Cardinality(Nodes)} \ {Null}

\* The sequence the pointers represent.
Contents == [i \in 1..Length |-> data[Nth[i-1]]]

\* The node the thread has allocated and not yet linked, or unlinked and not yet
\* deleted.
InFlight ==
    IF pc \in {"add_next", "add_head", "push_link", "pop_tail", "remove_tail", "delete"}
    THEN {cur} ELSE {}

\* What the comment in Desktop::ProcessInput() relies on, "Only the ring indices
\* are shared": the chain the head starts is finite and made of allocated nodes,
\* so a thread can be interrupted by a reader of its list.
ChainAllocated == Linear /\ Chain \subseteq alloc

\* No statement order leaks a node or leaves a freed one linked: the heap holds
\* the chain and the node in flight.
NodesAccountedFor == Linear /\ alloc = Chain \cup InFlight

\* Between operations the tail is the last node of the chain and the size is its
\* length, whatever mix of operations emptied or refilled the list.
EndsConsistent ==
    pc = "idle" => /\ Linear
                   /\ size = Length
                   /\ tail = IF Length = 0 THEN Null ELSE Nth[Length-1]

\* The chain after any mix of Add, PushBack, Remove and PopFront, also between two
\* statements of one of them.
ChainSound == TypeOK /\ NodesAccountedFor /\ EndsConsistent

Abstract == INSTANCE ListSpec WITH list <- Contents

\* The statements implement the sequence operators that the other modules use
\* for every queue of the kernel.
ImplementsSequence == Abstract!Spec

===============================================================================

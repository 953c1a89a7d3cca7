------------------------------- MODULE ListSpec -------------------------------
(***************************************************************************)
(* What LinkedList<T> (include/utils/linkedList.h) promises its users: a   *)
(* sequence changed by the operators of module LinkedList, one operation   *)
(* at a time.                                                              *)
(***************************************************************************)
EXTENDS LinkedList

CONSTANTS Items    \* the values the list holds

VARIABLE list      \* the contents, head first

Init == list = <<>>

\* Remove() with a predicate that holds of x only.
RemoveItem(x) == list' = RemoveFirsts(list, {x})

PopFront == list # <<>> /\ list' = Tail(list)

Next ==
    \/ \E x \in Items : list' = Add(list, x) \/ list' = PushBack(list, x) \/ RemoveItem(x)
    \/ PopFront

Spec == Init /\ [][Next]_list

===============================================================================

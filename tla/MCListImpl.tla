------------------------------ MODULE MCListImpl ------------------------------
(* LinkedList<T> over a small heap.                                          *)
EXTENDS ListImpl, TLC

MCSymmetry == Permutations(Nodes)

===============================================================================

------------------------------ MODULE MCUserStack ------------------------------
(* Four threads in three processes, stacks of two pages and a guard page, and  *)
(* an address range that can run out.                                           *)
EXTENDS UserStack, TLC

MCSymmetry == Permutations(Threads) \cup Permutations(Procs)

===============================================================================

------------------------------ MODULE MCScheduler ------------------------------
(* Small instances of Scheduler for TLC. *)
EXTENDS Scheduler, TLC

\* Addresses are interchangeable.
MCSymmetry == Permutations(Threads \ {IdleThread}) \cup Permutations(Procs)

===============================================================================

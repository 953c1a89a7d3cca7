--------------------------- MODULE MCKernelTasks ----------------------------
(* A small instance of the kernel's threads for TLC. *)
EXTENDS KernelTasks
=============================================================================

---------------------------- MODULE MCFramebuffer ----------------------------
(* Three processes share two directory frames; two buffers, one of them at the *)
(* edge of a page table, overlap in one directory index.                       *)
EXTENDS Framebuffer, TLC

CONSTANTS b1, b2

MCCovers == b1 :> {1, 2} @@ b2 :> {2, 3}

MCSymmetry == Permutations(Pids) \cup Permutations(Dirs)

===============================================================================

-------------------------- MODULE MCPhysicalMemory --------------------------
EXTENDS PhysicalMemory, TLC
\* One segment; two that lie apart; two that meet in a page; one in the kernel's range.
MCImages == {<<<<0, 0>>>>, <<<<1, 1>>, <<0, 0>>>>, <<<<0, 1>>, <<1, 1>>>>, <<<<0, 0>>, <<NPages, NPages>>>>}
MCSymmetry == Permutations(Pcbs)
=============================================================================

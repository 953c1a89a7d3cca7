SPECIFICATION MemorySpec
CONSTANTS
    Pcbs = {p1, p2, p3}
    MaxBlocks = 13
    LowLimit = 12
    Kernel = {0, 1}
    Trampoline = 1
    NPages = 6
    PerTable = 2
    TrampolinePage = 5
    HeapPages = 2
    Images <- MCImages
    Preemptible = FALSE
SYMMETRY MCSymmetry
INVARIANTS
    MemorySound
PROPERTIES
    LostOnlyByLoader
    FailedBrkUndone

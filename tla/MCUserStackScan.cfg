SPECIFICATION Spec
CONSTANTS
    Threads = {t1, t2, t3}
    Procs = {p1, p2}
    NoSlot = NoSlot
    MaxSlots = 4
    StackPages = 3
    MaxFrames = 10
SYMMETRY MCSymmetry
PROPERTY
    PoolCheckedBeforeFresh

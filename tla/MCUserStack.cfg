SPECIFICATION Spec
CONSTANTS
    Threads = {t1, t2, t3, t4}
    Procs = {p1, p2, p3}
    NoSlot = NoSlot
    MaxSlots = 5
    StackPages = 3
    MaxFrames = 12
SYMMETRY MCSymmetry
INVARIANTS
    UserStacksSound

SPECIFICATION Spec
CONSTANTS
    Pids = {p1, p2, p3}
    Dirs = {d1, d2}
    b1 = b1
    b2 = b2
    Buffers = {b1, b2}
    Covers <- MCCovers
    NoPid = NoPid
    NoDir = NoDir
    NoBuffer = NoBuffer
SYMMETRY MCSymmetry
INVARIANT
    FlushReadsLiveBuffer

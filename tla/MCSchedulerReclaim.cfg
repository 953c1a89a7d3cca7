SPECIFICATION Spec
CONSTANTS
    Threads = {idle, t1, t2, t3}
    IdleThread = idle
    Procs = {p1, p2}
    KStacks = {0, 1, 2, 3}
    NoThread = NoThread
    NoProc = NoProc
    NoStack = NoStack
    KernelPD = KernelPD
    TickMod = 2
    SleepTimes = {1}
PROPERTY ReclaimedOffStack

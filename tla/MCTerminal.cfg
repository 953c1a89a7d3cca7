SPECIFICATION FairSpec
CONSTANTS
    Enter = 28
    Char = 30
    F11 = 87
    STDIN_QUEUE_SIZE = 2
    MaxPresses = 3
    MaxHeld = 2
    MaxRuns = 2
INVARIANTS
    ReadInOrder
    DispatchedOnce
PROPERTIES
    ExitNoticed
CHECK_DEADLOCK FALSE

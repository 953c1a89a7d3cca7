SPECIFICATION Spec
CONSTANTS
    Enter = 28
    Char = 30
    F11 = 87
    STDIN_QUEUE_SIZE = 2
    MaxPresses = 2
    MaxHeld = 2
    MaxRuns = 2
PROPERTIES
    ForegroundKept
CHECK_DEADLOCK FALSE


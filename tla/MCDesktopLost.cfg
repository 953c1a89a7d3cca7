SPECIFICATION Spec
CONSTANTS
    Widgets = {w1, w2}
    Pids = {p1}
    Kernel = Kernel
    Desktop = Desktop
    Own = Own
    Null = Null
    MaxTabs = 2
    MaxDisabled = 1
    LibraryOrder = TRUE
    Preemptible = FALSE
INVARIANT
    DesktopRegistered
CHECK_DEADLOCK FALSE

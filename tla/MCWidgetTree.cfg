SPECIFICATION Spec
CONSTANTS
    Widgets = {w1, w2, w3}
    Pids = {p1, p2}
    Kernel = Kernel
    Desktop = Desktop
    Own = Own
    Null = Null
    MaxTabs = 2
    MaxDisabled = 1
    LibraryOrder = TRUE
    Preemptible = FALSE
SYMMETRY MCSymmetry
INVARIANTS
    PointersSound
    RegistrySound
PROPERTIES
    ExitRestoresFocus
CHECK_DEADLOCK FALSE

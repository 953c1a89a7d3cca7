SPECIFICATION Spec
CONSTANTS
    Pids = {p1}
    Handlers = {h1}
    NoPid = NoPid
    NoHandler = NoHandler
    Capacity = 2
    FirstID = 1
    MaxID = 4
    MaxInputs = 2
    HalfWord = 4
INVARIANT
    UnpackedAsPosted

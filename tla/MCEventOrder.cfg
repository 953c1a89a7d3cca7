SPECIFICATION Spec
CONSTANTS
    Pids = {p1}
    Handlers = {h1}
    NoPid = NoPid
    NoHandler = NoHandler
    Capacity = 2
    FirstID = 1
    MaxID = 2
    MaxInputs = 2
    HalfWord = 8
INVARIANT
    DeliveredInOrder

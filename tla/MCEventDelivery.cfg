SPECIFICATION FairSpec
CONSTANTS
    Pids = {p1, p2}
    Handlers = {h1, h2}
    NoPid = NoPid
    NoHandler = NoHandler
    Capacity = 2
    FirstID = 1
    MaxID = 3
    MaxInputs = 3
    HalfWord = 4
INVARIANTS
    EventsSound
PROPERTIES
    InputsEventuallyTaken

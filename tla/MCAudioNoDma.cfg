SPECIFICATION FairAudioSpec
CONSTANTS
    Slots = {0, 1}
    FrameSamples = 2
    Lengths = {1, 4}
    MaxPlays = 1
    NULL = NULL
PROPERTIES
    UpdateReturns
CHECK_DEADLOCK FALSE

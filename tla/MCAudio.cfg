SPECIFICATION FairAudioSpec
CONSTANTS
    Slots = {0, 1}
    FrameSamples = 2
    Lengths = {1, 4}
    MaxPlays = 4
    NULL = NULL
INVARIANTS
    MixerSound
PROPERTIES
    SoundsEnd
CHECK_DEADLOCK FALSE

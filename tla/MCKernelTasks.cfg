SPECIFICATION FairSpec
CONSTANTS
    Actions = {restart, shutdown}
    NoAction = NoAction
    MaxPrompts = 3
    MaxInvalidations = 3
    MaxTakes = 2
INVARIANTS
    SplashSound
    PresentedWithoutPrompt
    OneLateFrame
PROPERTIES
    BootCompletes
    ConfirmedRuns
CHECK_DEADLOCK FALSE

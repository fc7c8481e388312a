SPECIFICATION FairSpec
CONSTANTS
    Symbols = {"solusdc", "wifusdc"}
    Environments <- SomePairs
    BackoffInitial = 1
    BackoffMax = 5
    MaxTexts = 2
    SessionCap = 4
INVARIANTS
    TypeOK
    FramesAreHandled
PROPERTIES
    BackoffDoubles
    CancelStops
    KeepsConnecting
CHECK_DEADLOCK FALSE

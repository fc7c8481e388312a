SPECIFICATION Spec
CONSTANTS
    Prices <- Band
    Stray <- Half
    MinPrice = 1
    MaxPrice = 1000
    GapPct = 10
    MaxDexAge = 0
    MaxCexAge = 0
    MaxLag = 1
    MaxSlot = 1
    MaxClock = 1
    MaxMoves = 1
INVARIANTS
    TypeOK
    CellsAgree
    TrackerCoversCells
    SnapshotIsFresh
    LegacyInSync
PROPERTIES
    SnapshotsMoveForward
    MarketIsHeard

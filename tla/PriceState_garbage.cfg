SPECIFICATION FairSpec
CONSTANTS
    Prices <- One
    Stray <- Half
    MinPrice = 1
    MaxPrice = 1000
    GapPct = 10
    MaxDexAge = 1
    MaxCexAge = 1
    MaxLag = 0
    MaxSlot = 1
    MaxClock = 0
    MaxMoves = 0
PROPERTIES
    GarbageDoesNotLast

SPECIFICATION Spec
CONSTANTS
    MinPaperTrades = 2
    MinWinRatePct = 60
    MaxSignalSlotAge = 2
    DetectorSlotAge = 3
    LiveCooldown = 2
    DummyBalance = 10
    TradeSize = 2
    StartUsdc = 3
    Amounts = {1, 2}
    MaxTrades = 1
    MaxPaper = 3
    MaxDrift = 1
INVARIANTS
    FailedLegIsFlattened
\* A behaviour may end: the process stops, or MaxTrades is reached.
CHECK_DEADLOCK FALSE

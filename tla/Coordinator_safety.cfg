SPECIFICATION FairSpec
CONSTANTS
    MinPaperTrades = 2
    MinWinRatePct = 60
    MaxSignalSlotAge = 2
    DetectorSlotAge = 3
    LiveCooldown = 2
    DummyBalance = 10
    TradeSize = 2
    StartUsdc = 3
    Amounts = {1, 2}
    MaxTrades = 2
    MaxPaper = 5
    MaxDrift = 1
INVARIANTS
    TypeOK
    OrdersAreLicensed
    ReportMatchesVenues
    StaleBalanceNeedsLostReply
PROPERTIES
    LiveSpacing
    SignalResolved
\* A behaviour may end: the process stops, or MaxTrades is reached.
CHECK_DEADLOCK FALSE

SPECIFICATION FairSpec
CONSTANTS
    Trade = 12
    Signals <- TwoWays
    Fills <- SomeFills
    Outs = {0, 3, 4, 12, 16}
    Impacts = {0, 2}
    MaxImpact = 1
    SlippagePct = 25
    NaN = NaN
INVARIANTS
    TypeOK
    GrossIsSettled
    ProfitIsReal
PROPERTIES
    LegsKeepContract
CHECK_DEADLOCK FALSE

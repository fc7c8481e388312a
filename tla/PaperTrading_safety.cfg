SPECIFICATION Spec
CONSTANTS
    Snaps <- MCSnaps
    Setups <- MCSetups
    TakerFee = 100
    MinLiquidity = 50000
    MaxAge = 3
    Cooldown = 2
    MaxChecks = 4
    MaxClock = 4
    Initial = 20000000
    HalfSpread = 5
    Cent = 100
    Infinity = 1000000
    CoordinatorAge = 2
    MaxLedger = 3
INVARIANTS
    TypeOK
    ChecksAccountedFor
    PaperNeverLoses
    ReportIsComplete
PROPERTIES
    SignalsSpaced
    LedgerKept
CHECK_DEADLOCK FALSE

SPECIFICATION Spec
CONSTANTS
    Initial = 10
    Nets <- FiveNets
    Cent = 1
    Infinity = 1000
    MaxLedger = 6
INVARIANTS
    TypeOK
    StatisticsAreTrue
    DrawdownIsDeepestFall

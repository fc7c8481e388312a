SPECIFICATION FairSpec
CONSTANTS
    Configs <- SmallConfigs
    Accounts <- SomeAccounts
    Unknown = "unknown"
    Slots = {1}
    MaxUpdates = 2
    AttemptCap = 11
INVARIANTS
    TypeOK
    NeverPanics
    PublishedAsLaidOut
    UpdatesAccountedFor
PROPERTIES
    NoHotReconnect
    ChannelIsARegister
    KeepsReconnecting
    PricesAreNoticed
CHECK_DEADLOCK FALSE

SPECIFICATION Spec
CONSTANTS
    Configs <- SmallConfigs
    Accounts <- SomeAccounts
    Unknown = "unknown"
    Slots = {1}
    MaxUpdates = 2
    AttemptCap = 11
INVARIANTS
    OrcaDiscriminator
CHECK_DEADLOCK FALSE

SPECIFICATION Spec
CONSTANTS
    Fallback = TRUE
    ThreadSafeBuild = TRUE
    Configs <- Tried
    Sizeof <- Sizes
    Requests = {0, 64, 65, 1025}
    Phases = {"INIT", "RUNTIME_TX"}
    MaxCreates = 2
    MaxInits = 2
    MaxUses = 5
INVARIANTS
    TypeOK
    EveryBlockOwned
    InitAllOrNothing
    AccountingExact
    PoolPartition
CHECK_DEADLOCK FALSE

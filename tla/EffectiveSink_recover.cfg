SPECIFICATION FairSpec
CONSTANTS
    Threads = {main, other}
    Main = main
    MaxMsgs = 2
    MaxFlushes = 1
    MaxSessions = 3
    Threshold = 1
    Fails = {"compress", "encrypt"}
    NoOne = NoOne
INVARIANTS
    Retained
    TornOnlyByCrash
    RecoveryIsolated
PROPERTIES
    ImplementsStore
    FlushReturns
    SlaveReleased
CHECK_DEADLOCK FALSE

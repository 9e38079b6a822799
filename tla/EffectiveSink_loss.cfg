SPECIFICATION Spec
CONSTANTS
    Threads = {main}
    Main = main
    MaxMsgs = 5
    MaxFlushes = 1
    MaxSessions = 1
    Threshold = 0
    Fails = {}
    NoOne = NoOne
INVARIANTS
    NoLoss
CHECK_DEADLOCK FALSE

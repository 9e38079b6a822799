SPECIFICATION Spec
CONSTANTS
    Threads = {main, other}
    Main = main
    MaxMsgs = 3
    MaxFlushes = 1
    MaxSessions = 1
    Threshold = 0
    Fails = {}
    NoOne = NoOne
INVARIANTS
    InOrder
    Decodable
    FlushPersists
CHECK_DEADLOCK FALSE

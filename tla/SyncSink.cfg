SPECIFICATION Spec
CONSTANTS
    Threads = {main, other}
    Main = main
    Sinks = {"mmap", "simple", "protobuf", "compress", "crypto"}
    MaxMsgs = 3
    MaxFlushes = 2
    MaxSessions = 3
    Threshold = 1
    SingleSize = 2
    Fails = {"compress", "crypto"}
    NoOne = NoOne
INVARIANTS
    ChunksFramed
    TornEndsChunk
    FlushPersists
    CacheBounded
PROPERTIES
    ImplementsStore
CHECK_DEADLOCK FALSE

SPECIFICATION FairSpec
CONSTANTS
    Sinks = {effective, mmap}
    Effective = effective
    Confs <- MCConfs
    ChunkSizes = {2}
    LargestChunk = 2
    Small = 2
    MaxChunks = 4
    MaxTime = 2
    MaxRestarts = 1
    Word = 16
    Kilo = 2
INVARIANTS
    FileBounded
PROPERTIES
    RotationFresh
    OpenFileKept
    Eliminated
CHECK_DEADLOCK FALSE

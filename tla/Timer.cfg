SPECIFICATION FairSpec
CONSTANTS
    Clients = {c1, c2}
    Loops = {l1, l2}
    Tags = {1}
    Jobs <- MCJobs
    NoJob = NoJob
    MaxCancels = 1
    Micro = 1
INVARIANTS
    OneCopy
    SleepsForTop
    RunsCounted
PROPERTIES
    NeverEarly
    AllRuns
    StopReturns
CHECK_DEADLOCK FALSE

SPECIFICATION FairSpec
CONSTANTS
    Workers = {w1, w2}
    Clients = {c1, c2}
    Tasks = {t1, t2}
    ThreadCounts = {1, 2}
    NoTask = NoTask
    NoOne = NoOne
INVARIANTS
    DispatchFIFO
    BarrierOrder
    QuietAfterStop
PROPERTIES
    TaskRuns
    ImplementsStrand

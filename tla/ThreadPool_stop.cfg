SPECIFICATION FairSpec
CONSTANTS
    Workers = {w1, w2}
    Clients = {c1}
    Tasks = {t1}
    ThreadCounts = {2}
    NoTask = NoTask
    NoOne = NoOne
PROPERTIES
    StopCompletes

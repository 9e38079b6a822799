SPECIFICATION Spec
CONSTANTS
    Threads = {t1, t2}
    h1 = h1
    h2 = h2
    s1 = s1
    s2 = s2
    Handles = {h1, h2}
    NoHandle = NoHandle
    Sinks <- MCSinks
    FromRange = {h2}
    Levels = {0, 2, 4}
    MaxCalls = 2
    MaxSets = 3
INVARIANTS
    AllOrNone
    ReplacedOnly
SYMMETRY Symmetric
CHECK_DEADLOCK FALSE

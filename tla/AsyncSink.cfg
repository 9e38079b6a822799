SPECIFICATION Spec
CONSTANTS
    Threads = {t1, t2}
    MaxCalls = 4
    Lens = {2, 4}
    Capacity = 4
    Small = 1
INVARIANTS
    FlushPersists
    SafeDestroy
PROPERTIES
    ImplementsStore
SYMMETRY Symmetric
CHECK_DEADLOCK FALSE

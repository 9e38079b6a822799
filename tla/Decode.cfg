SPECIFICATION DSpec
CONSTANTS
    Inputs <- MCInputs
    MaxSessions = 2
    MaxChunks = 3
    Alphabet = {"%", "l", "x"}
    MaxPattern = 5
    MaxMsgs = 4
INVARIANTS
    CleanRead
    DamageContained
    PatternMeaning
CHECK_DEADLOCK FALSE

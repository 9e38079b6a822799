SPECIFICATION Spec
CONSTANTS
    Cells = {0, 1, 2}
    Zero = 0
    Page = 4
    HeaderLen = 2
    DefaultCapacity = 3
    Blocks <- MCBlocks
    MaxSize = 7
    Fails = {"open", "ftruncate", "mmap"}
INVARIANTS
    CopyInBounds
PROPERTIES
    OnlyReopeningCuts
    ImplementsBuffer

SPECIFICATION Spec
CONSTANTS
    NDirect = 2
    NLevel = 1
    NPtr = 2
    NumBlocks = 5
    NumInodes = 3
    Names = {n1}
    EntriesPerBlock = 3
    NumFds = 1
    Modes <- Fuse
    MaxWrite = 1
    MaxSize = 3
    MaxKills = 0
INVARIANTS
    CountsReturn
CHECK_DEADLOCK FALSE

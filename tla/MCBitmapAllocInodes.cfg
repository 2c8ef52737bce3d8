SPECIFICATION Spec
CONSTANTS
    NumUnits = 6
    Reserved <- InodeZero
    InitCount = 6
    MaxFaults = 0
INVARIANT
    CountIsNumberOfClearBits

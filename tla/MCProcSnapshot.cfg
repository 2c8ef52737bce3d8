SPECIFICATION Spec
CONSTANTS
    MaxTasks = 6
    MaxPid = 4
INVARIANTS
    TypeOK
    LinkedBack
    StayersRight
    PrintedOnce

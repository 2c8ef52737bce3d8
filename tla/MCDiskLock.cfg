SPECIFICATION Spec
CONSTANTS
    Procs = {p1, p2}
    MaxFiles = 3
PROPERTIES
    LockExcludes
CHECK_DEADLOCK FALSE

SPECIFICATION Spec
CONSTANTS
    Procs = {p1, p2}
    v1 = v1
    v2 = v2
    Versions = {v1, v2}
    None = None
    Installed <- MCInstalled
    Options <- MCOptions
    MaxFaults = 2
    MaxStarts = 3
INVARIANTS
    TypeOK
    CurrentComplete
    LitterOnlyAfterInterruption
PROPERTIES
    PreviousIsReplaced
    ImplementsVersionStore
CHECK_DEADLOCK FALSE

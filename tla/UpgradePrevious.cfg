SPECIFICATION Spec
CONSTANTS
    Procs = {p1}
    v1 = v1
    v2 = v2
    Versions = {v1, v2}
    None = None
    Installed <- MCInstalled
    Options <- OneComponentOptions
    MaxFaults = 1
    MaxStarts = 3
INVARIANT
    PreviousUsable
CHECK_DEADLOCK FALSE

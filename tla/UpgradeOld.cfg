SPECIFICATION Spec
CONSTANTS
    Procs = {p1}
    v1 = v1
    v2 = v2
    Versions = {v1, v2}
    None = None
    Installed <- MCInstalled
    Options <- OneComponentOptions
    MaxFaults = 0
    MaxStarts = 4
INVARIANT
    AsideNeverBlocked
CHECK_DEADLOCK FALSE

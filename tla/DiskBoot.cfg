SPECIFICATION Spec
CONSTANTS
    K3sNames = {1, 2}
    Disks <- MCDisks
    MaxFaults = 2
    MaxCrashes = 3
INVARIANTS
    TypeOK
    TakeoverComplete
    ResetBeforeLocal
    PivotReady
PROPERTIES
    GrowHonoured
    KeepsContract
    BootCompletes
CHECK_DEADLOCK FALSE

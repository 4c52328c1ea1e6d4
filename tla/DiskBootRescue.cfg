SPECIFICATION Spec
CONSTANTS
    K3sNames = {1, 2}
    Disks <- InstalledDisks
    MaxFaults = 1
    MaxCrashes = 0
INVARIANT
    FailureReachesRescue
CHECK_DEADLOCK FALSE

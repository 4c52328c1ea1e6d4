SPECIFICATION Spec
CONSTANTS
    Cmdlines <- AutomaticCmdlines
    Machines <- MCMachines
    MaxTries = 1
    MaxFaults = 0
    MaxBoots = 1
INVARIANT
    NoInitrdConfigInLocal
CHECK_DEADLOCK FALSE

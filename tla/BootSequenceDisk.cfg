SPECIFICATION Spec
CONSTANTS
    Cmdlines <- DiskCmdlines
    Machines <- MCMachines
    MaxTries = 1
    MaxFaults = 0
    MaxBoots = 1
INVARIANT
    SecondPassLocal
CHECK_DEADLOCK FALSE

SPECIFICATION Spec
CONSTANTS
    Cmdlines <- MCCmdlines
    Machines <- MCMachines
    MaxTries = 2
    MaxFaults = 1
    MaxBoots = 2
INVARIANTS
    TypeOK
    RescueExplained
    ModeAgreed
    OwnImage
PROPERTIES
    BootEnds
CHECK_DEADLOCK FALSE

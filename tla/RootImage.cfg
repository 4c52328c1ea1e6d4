SPECIFICATION Spec
CONSTANTS
    Bytes = {"_", "s", "x"}
    Magic <- MCMagic
    BufSize = 2
    MaxText = 6
    Devs = {l0, l1, l2}
    Loop0 = l0
    NoDev = NoDev
    MaxFaults = 2
INVARIANTS
    TypeOK
    ScanSound
    ScanComplete
    ServesItsImage
    ReleasedAtExit
PROPERTIES
    AutoclearConfined
CHECK_DEADLOCK FALSE

SPECIFICATION Spec
CONSTANTS
    LbaMax = 8
    Wrap = 16
    SysBlock <- MCSysBlock
    Parts <- MCParts
    Own <- MCOwn
    Devtmpfs = {"nvme0n1", "nvme0n1p1", "sda", "sda1"}
    NoDev = NoDev
    MaxFaults = 2
    StateLabel = "K3OS_STATE"
    Machines <- MCMachines
    PNamed = {"nvme0n1"}
    SshFiles = {"sshd_config", "moduli"}
    Names = {"r1", "r2", "mac", "conf", "image"}
    RandNames = {"r1", "r2"}
    MacName = "mac"
    Absent = Absent
    Garbled = Garbled
INVARIANTS
    TypeOK
    LabelsNameTheirDevice
    FilledAtMark
    SshComplete
    NameKept
    NamesAgree
PROPERTIES
    GrowsOnDisk
    
    ComesUpAgain

SPECIFICATION Spec
CONSTANTS
    Fields <- MCFields
    Simple <- MCSimple
    Scalars <- MCScalars
    Maps <- MCMaps
    Items <- MCItems
    Key <- MCKey
    Procs = {"cc", "admin"}
    Machines <- MCMachines
    Given <- MCGiven
    Garbage = Garbage
    ConfD <- MCConfD
    FlagTokens <- MCFlags
    Urls = {"k2"}
    Variables <- MCVariables
    MaxTries = 2
    MaxFaults = 1
INVARIANTS
    TypeOK
    AnswersTakeEffect
    EnvironmentKept
    NothingLeftBehind
    FormatsWhatWasConfirmed
PROPERTIES
    LastSourceWins
    KeysOnlyLostByOverlap
    ComesToK3s
CHECK_DEADLOCK FALSE

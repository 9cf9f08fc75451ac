SPECIFICATION FairSpec
CONSTANTS
    a1 = a1
    NoName = NoName
    Managers = {"collector", "reprocessor"}
    Names = {a1}
    Levels = {0, 2, 3}
    ClearLevel = 1
    Threshold = 2
    TriggerWindows = 1
    ClearWindows = 2
    MaxIncidents = 2
    MaxCrashes = 1
INVARIANTS
    TypeOK
    ToldIsRemembered
PROPERTIES
    ContractSpec
    CollectorClearedIsShown
    OpenIsShown
    RecoveryClears

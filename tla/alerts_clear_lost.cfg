SPECIFICATION FairSpec
CONSTANTS
    a1 = a1
    NoName = NoName
    Managers = {"reprocessor"}
    Names = {a1}
    Levels = {0, 2}
    ClearLevel = 1
    Threshold = 2
    TriggerWindows = 1
    ClearWindows = 1
    MaxIncidents = 1
    MaxCrashes = 1
PROPERTIES
    ClearedIsShown

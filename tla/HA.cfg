CONSTANTS
    Nodes = {1, 2}
    VIPs = {v, w}
    Settings <- AllSettings
    MaxDelay = 1
    Window = 3
    MaxFaults = 2
SPECIFICATION LiveSpec
INVARIANTS MasterHolds OneMasterInTime NothingLeft
PROPERTY MasterAgain
CHECK_DEADLOCK FALSE

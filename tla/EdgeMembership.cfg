SPECIFICATION FairSpec
CONSTANTS
    Devices = {d1, d2, d3}
    MaxWorkers = 2
    HeartbeatTimer = 2
    MaxCrash = 1
    MaxLeave = 1
INVARIANTS
    TypeOK
    
    OnlyCrashesSilence
    GarbledOnlyIfCrowded
    OneConnectionEach
PROPERTIES
    ServedAreKnown
    DepartedForgotten
    EdgeForgotten
CHECK_DEADLOCK FALSE

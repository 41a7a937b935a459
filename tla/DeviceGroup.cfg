SPECIFICATION FairSpec
CONSTANTS
    Devices = {d1, d2, d3}
    Trigger = 1
    HeartbeatTimer = 2
    ConsensusTime = 2
    Mobile = {d3}
INVARIANTS
    TypeOK
    
    SilenceIsBounded
    EnoughMembers
    
PROPERTIES
    DepartedForgotten
    NeighboursFound
CHECK_DEADLOCK FALSE

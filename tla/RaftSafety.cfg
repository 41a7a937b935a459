SPECIFICATION Spec
CONSTANTS
    Node = {n1, n2}
    Value = {}
    Nobody = Nobody
    MaxTerm = 3
    MaxQueue = 2
    CanPause = {n1}
    CanLose = TRUE
INVARIANTS
    TypeOK
    LeaderIndexSafe
CHECK_DEADLOCK FALSE

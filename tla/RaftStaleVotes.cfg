SPECIFICATION Spec
CONSTANTS
    Node = {n1, n2}
    Value = {}
    Nobody = Nobody
    MaxTerm = 3
    MaxQueue = 1
    CanPause = {}
    CanLose = FALSE
INVARIANT LeaderHasMajority
CHECK_DEADLOCK FALSE

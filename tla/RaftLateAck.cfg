SPECIFICATION Spec
CONSTANTS
    Node = {n1, n2}
    Value = {v1}
    Nobody = Nobody
    MaxTerm = 2
    MaxQueue = 2
    CanPause = {}
    CanLose = FALSE
INVARIANT CommitReplicated
CHECK_DEADLOCK FALSE

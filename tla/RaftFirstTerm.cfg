SPECIFICATION Spec
CONSTANTS
    Node = {n1, n2, n3}
    Value = {v1}
    Nobody = Nobody
    MaxTerm = 2
    MaxQueue = 1
    CanPause = {}
    CanLose = FALSE
SYMMETRY Symmetry
INVARIANTS
    LeaderHasMajority
    ElectionSafety
    OneGrantPerTerm
    CommitReplicated
CHECK_DEADLOCK FALSE

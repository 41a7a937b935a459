SPECIFICATION Spec
CONSTANTS
    Node = {n1, n2}
    Value = {v1}
    Nobody = Nobody
    MaxTerm = 3
    MaxQueue = 1
    CanPause = {}
    CanLose = TRUE
SYMMETRY Symmetry
INVARIANTS
    
    ValueLoggedOnce

    
CHECK_DEADLOCK FALSE

SPECIFICATION FairSpec
CONSTANTS
    n1 = n1
    n2 = n2
    Node <- TwoNodes
    Order <- OthersFirst
    Attempts = 2
    Scripts <- OneSpeaks
INVARIANTS
    TypeOK
    
    OnlyEndsBreakTalkers
    SendsToAll

    
    
CHECK_DEADLOCK FALSE

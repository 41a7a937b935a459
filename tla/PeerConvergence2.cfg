SPECIFICATION FairSpec
CONSTANTS
    Peer <- TwoPeers
    Element <- OneElement
    Near <- AllNear
    Modulus = 256
    MaxInFlight = 3
    MaxOutage = 2
INVARIANTS
    SettledMeansAgreed
PROPERTIES
    Convergence
CHECK_DEADLOCK FALSE

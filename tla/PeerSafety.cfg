SPECIFICATION Spec
CONSTANTS
    Peer <- ThreePeers
    Element <- OneElement
    Near <- OneAway
    Modulus = 6
    MaxInFlight = 3
    MaxOutage = 1
INVARIANTS
    TypeOK
    RoundCountsAgreement
    OnlyStartedPeersAreAsked
    OnlyOutagesAbort
PROPERTY
    SharesWholeCopies
CHECK_DEADLOCK FALSE

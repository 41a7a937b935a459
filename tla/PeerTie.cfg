SPECIFICATION Spec
CONSTANTS
    Peer <- ThreePeers
    Element <- OneElement
    Near <- AllNear
    Modulus = 256
    MaxInFlight = 3
    MaxOutage = 0
INVARIANTS
    SettledMeansAgreed

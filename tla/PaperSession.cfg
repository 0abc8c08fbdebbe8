CONSTANTS
    Entries = {e1, e2}
    Exits = {x1, x2}
    Ttl = 2
    Prints = {p1}
    MaxCrashes = 2
    MakerAckLost = FALSE
    NoOrder = NoOrder
SYMMETRY IdSymmetry
SPECIFICATION Spec
INVARIANTS TypeOK SnapshotCanBeResumed ManagerAgreesWithVenue FundingAtMostOnce
PROPERTIES OneTradeAtATime ImplementsTradeCycle

CONSTANTS
    Entries = {e1}
    Exits = {x1, x2}
    EntryQty = 1
    MaxExposure = 1
    MaxReadFailures = 3
    SharedAccount = TRUE
    NoOrder = NoOrder
    PastOrder = PastOrder
SYMMETRY IdSymmetry
SPECIFICATION Spec
INVARIANTS TypeOK DoubtIsTracked
PROPERTIES EntriesOnlyWhenAllowed HaltLiftedOnlyWhenSettled OrdersFollowTheTable ImplementsTradeCycle
CHECK_DEADLOCK FALSE

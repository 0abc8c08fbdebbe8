CONSTANTS
    Entries = {e1}
    Exits = {x1}
    Ttl = 1
    Prints = {p1}
    MaxCrashes = 1
    MakerAckLost = FALSE
    NoOrder = NoOrder
SPECIFICATION Spec
PROPERTIES ConsumedWhileFlatIsNeverCharged

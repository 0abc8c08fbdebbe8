CONSTANTS
    Decisions = {entry}
    ReduceOnly = {}
    Orders = {o1}
    Qty = 3
    MaxAttempts = 2
    MaxInFlight = 2
    MaxTradeSum = 4
    AppendOutcomes = {"ok"}
    LateLanding = FALSE
    DuplicatesFirst = TRUE
    UnsureCancels = TRUE
    Crashes = TRUE
    NoDecision = NoDecision
    NoOrder = NoOrder
SPECIFICATION FairSpec
INVARIANTS TerminalMatchesVenue OpenFillsAreVenueFills
PROPERTIES DoubtIsResolved

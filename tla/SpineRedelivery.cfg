CONSTANTS
    Decisions = {entry}
    ReduceOnly = {}
    Orders = {o1}
    Qty = 2
    MaxAttempts = 2
    MaxInFlight = 1
    MaxTradeSum = 3
    AppendOutcomes = {"ok"}
    LateLanding = FALSE
    DuplicatesFirst = TRUE
    UnsureCancels = FALSE
    Crashes = TRUE
    NoDecision = NoDecision
    NoOrder = NoOrder
SPECIFICATION Spec
INVARIANTS FillsAreIdempotent

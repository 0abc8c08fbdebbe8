CONSTANTS
    Decisions = {entry, entry2}
    ReduceOnly = {}
    Orders = {o1, o2}
    Qty = 1
    MaxAttempts = 1
    MaxInFlight = 1
    MaxTradeSum = 0
    AppendOutcomes = {"ok"}
    LateLanding = FALSE
    DuplicatesFirst = TRUE
    UnsureCancels = TRUE
    Crashes = TRUE
    NoDecision = NoDecision
    NoOrder = NoOrder
SPECIFICATION Spec
PROPERTIES NoNewRiskWhileInDoubt

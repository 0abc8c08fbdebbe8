CONSTANTS
    Decisions = {entry, exit}
    ReduceOnly = {exit}
    Orders = {o1, o2}
    Qty = 1
    MaxAttempts = 2
    MaxInFlight = 1
    MaxTradeSum = 1
    AppendOutcomes = {"ok", "lost", "unsure"}
    LateLanding = FALSE
    DuplicatesFirst = TRUE
    UnsureCancels = FALSE
    Crashes = TRUE
    NoDecision = NoDecision
    NoOrder = NoOrder
SYMMETRY OrderSymmetry
SPECIFICATION Spec
INVARIANTS TypeOK JournaledBeforeVenue OneExposedAttempt NoOrderForgotten
PROPERTIES NoNewRiskWhileInDoubt ImplementsDecisionOnce


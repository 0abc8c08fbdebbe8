CONSTANTS
    Entries = {e1}
    Exits = {x1}
    EntryQty = 1
    MaxExposure = 1
    MaxReadFailures = 1
    SharedAccount = FALSE
    NoOrder = NoOrder
    PastOrder = PastOrder
SPECIFICATION FairSpec
PROPERTIES EveryTradeEnds UntrackedPositionHalts HaltIsNotPermanent
CHECK_DEADLOCK FALSE

CONSTANTS
    MaxRecords = 6
    WritesResume = TRUE
    QuarantineMayStop = FALSE
SPECIFICATION Spec
INVARIANTS NoSilentLoss
CHECK_DEADLOCK FALSE

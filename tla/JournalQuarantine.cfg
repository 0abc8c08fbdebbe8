CONSTANTS
    MaxRecords = 6
    WritesResume = FALSE
    QuarantineMayStop = TRUE
SPECIFICATION Spec
INVARIANTS NoSilentLoss
CHECK_DEADLOCK FALSE

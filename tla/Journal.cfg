CONSTANTS
    MaxRecords = 6
    WritesResume = FALSE
    QuarantineMayStop = TRUE
SPECIFICATION Spec
INVARIANTS JournalTypeOK OnlyACutQuarantineLoses
PROPERTIES ImplementsDurableLog
CHECK_DEADLOCK FALSE

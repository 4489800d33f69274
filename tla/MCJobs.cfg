SPECIFICATION Spec
CONSTANTS
    MaxStream = 3
    MaxPending = 1
    MaxEvents = 2
    MaxFails = 2
INVARIANTS
    TypeOK
    ActiveHasLoop
PROPERTIES
    NoNeedlessRestart
    GetsStreamAgain
    FinishedIsMarked
CHECK_DEADLOCK FALSE

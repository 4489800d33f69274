SPECIFICATION Spec
CONSTANTS
    MaxStream = 3
    MaxPending = 1
    MaxEvents = 2
    MaxFails = 0
PROPERTIES
    Converges
CHECK_DEADLOCK FALSE

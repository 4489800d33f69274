SPECIFICATION DSpec
CONSTANTS
    CirBufSize = 3
    Byte <- MCByte
    Writer <- MCWriter
    NoWriter = NoWriter
    MaxStreams = 1
    Stream <- MCStream
    NoStream = NoStream
    Loop = Loop
    Cwnd = 2
    Rwnd = 2
    AckStep = 2
    MaxPacket = 2
    MaxBytes = 2
    MaxSeq = 3
    Terminal = {"err"}
    CreateOk = {TRUE}
    WriteMayFail = FALSE
    MaxFaults = 0
    Fault = {}
INVARIANTS
    KeepsReceived
\* The job is done, and nothing is left to do.
CHECK_DEADLOCK FALSE

SPECIFICATION LiveSpec
CONSTANTS
    CirBufSize = 2
    Byte <- MCByte
    Writer <- MCWriter
    NoWriter = NoWriter
    MaxStreams = 4
    Stream <- MCStream
    NoStream = NoStream
    Loop = Loop
    Cwnd = 1
    Rwnd = 1
    AckStep = 1
    MaxPacket = 1
    MaxBytes = 3
    MaxSeq = 4
    Terminal = {"eof"}
    CreateOk = {TRUE}
    WriteMayFail = FALSE
    MaxFaults = 2
    Fault = {"drop"}
INVARIANTS
    SeamMeets
    NoPanic
PROPERTIES
    ImplementsOutputPipe
    EventuallyDone
\* The job is done, and nothing is left to do.
CHECK_DEADLOCK FALSE

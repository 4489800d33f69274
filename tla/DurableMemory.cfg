SPECIFICATION LiveSpec
CONSTANTS
    CirBufSize = 3
    Byte <- MCByte
    Writer <- MCWriter
    NoWriter = NoWriter
    MaxStreams = 4
    Stream <- MCStream
    NoStream = NoStream
    Loop = Loop
    Cwnd = 2
    Rwnd = 2
    AckStep = 2
    MaxPacket = 2
    MaxBytes = 4
    MaxSeq = 5
    Terminal = {"eof"}
    CreateOk = {FALSE}
    WriteMayFail = FALSE
    MaxFaults = 2
    Fault = {"drop", "restart"}
INVARIANTS
    KeepsUnacked
    NotOverrun
PROPERTIES
    OnlyAppends
    ImplementsOutputPipe
    EventuallyDone
\* The job is done, and nothing is left to do.
CHECK_DEADLOCK FALSE

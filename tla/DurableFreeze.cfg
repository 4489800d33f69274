SPECIFICATION OfflineSpec
CONSTANTS
    CirBufSize = 3
    Byte <- MCByte
    Writer <- MCWriter
    NoWriter = NoWriter
    MaxStreams = 2
    Stream <- MCStream
    NoStream = NoStream
    Loop = Loop
    Cwnd = 2
    Rwnd = 2
    AckStep = 2
    MaxPacket = 2
    MaxBytes = 4
    MaxSeq = 5
    Terminal = {"eof"}
    CreateOk = {TRUE}
    WriteMayFail = FALSE
    MaxFaults = 1
    Fault = {"drop"}
PROPERTIES
    BackpressureBreaks
\* The job is done, and nothing is left to do.
CHECK_DEADLOCK FALSE

SPECIFICATION DSpec
CONSTANTS
    CirBufSize = 2
    Byte <- MCByte
    Writer <- MCWriter
    NoWriter = NoWriter
    MaxStreams = 3
    Stream <- MCStream
    NoStream = NoStream
    Loop = Loop
    Cwnd = 2
    Rwnd = 2
    AckStep = 2
    MaxPacket = 1
    MaxBytes = 3
    MaxSeq = 4
    Terminal = {"eof", "err"}
    CreateOk = {TRUE, FALSE}
    WriteMayFail = TRUE
    MaxFaults = 1
    Fault = {"drop", "quit", "restart", "slow", "dead"}
INVARIANTS
    DTypeOK
    TypeOK
    FlowControl
    DiskInv
    Aligned
CHECK_DEADLOCK FALSE

SPECIFICATION Spec
CONSTANTS
    Session = {1, 2}
    MaxSeq = 4
    Capacity = 3
    File = {Job, Block}
    Job = Job
    Block = Block
    Byte <- Bytes
    EchoLen = 2
    MaxRead = 4
    NoByte = NoByte
    PartSize = 2
    MaxSize <- MCMaxSize
    MaxFlushErrors = 1
    MaxEvents = 4
INVARIANTS
    TypeOK
    NeverBlocks
    HeldHasTimer
    KeysOnce
    FileIsOutput
    MirrorMatches
PROPERTIES
    InOrder
    KeepsPromise
    KeysComeBack
    GetsSaved
CHECK_DEADLOCK FALSE

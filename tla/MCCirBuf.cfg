SPECIFICATION Spec
CONSTANTS
    CirBufSize = 3
    Byte = {b0, b1}
    Writer = {w1, w2}
    NoWriter = NoWriter
    Chunk <- MCChunk
    MaxTotal = 4
INVARIANTS
    TypeOK
    RingInv
    PeekReadsContents
PROPERTIES
    ImplementsFlowBuf
    WriteIsTheLoop
\* A second parked writer panics, and the process is gone.
CHECK_DEADLOCK FALSE

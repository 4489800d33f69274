------------------------------- MODULE CirBuf -------------------------------
(***************************************************************************)
(* pkg/jobmanager/cirbuf.go: the ring under a StreamManager.  Each action  *)
(* is one method, atomic because every method holds CirBuf.lock.  The byte *)
(* loop of WriteAvailable is given in closed form; MCCirBuf checks that it *)
(* computes what the loop computes.                                        *)
(***************************************************************************)
EXTENDS FlowBufOps

CONSTANTS Chunk, MaxTotal

ASSUME CirBufChunkAssumption ==
    Chunk \subseteq {d \in Seq(Byte) : Len(d) \in 1..CirBufSize}
ASSUME CirBufMaxTotalAssumption == MaxTotal \in Nat

VARIABLES
    buf,          \* the ring: position -> byte
    readPos,
    writePos,
    count,
    totalSize,
    syncMode,
    windowSize,
    waiter,       \* the writer whose channel sits in waiterChan
    panicked      \* WriteAvailable found waiterChan occupied

vars == <<buf, readPos, writePos, count, totalSize, syncMode, windowSize,
          waiter, panicked>>

Pos == 0..(CirBufSize - 1)

TypeOK ==
    /\ buf \in [Pos -> Byte]
    /\ readPos \in Pos
    /\ writePos \in Pos
    /\ count \in 0..CirBufSize
    /\ totalSize \in Nat
    /\ syncMode \in BOOLEAN
    /\ windowSize \in 0..CirBufSize
    /\ waiter \in Writer \union {NoWriter}
    /\ panicked \in BOOLEAN

\* make([]byte, maxSize) holds zero bytes: which byte that is does not matter.
Init ==
    /\ \E zero \in Byte : buf = [p \in Pos |-> zero]
    /\ readPos = 0 /\ writePos = 0 /\ count = 0 /\ totalSize = 0
    /\ syncMode \in BOOLEAN
    /\ windowSize = CirBufSize
    /\ waiter = NoWriter
    /\ panicked = FALSE

\* How many bytes of d the loop writes before the synchronous window is full.
Written(d) ==
    IF syncMode THEN Lesser(Len(d), Greater(0, windowSize - count)) ELSE Len(d)

\* Mutant: the last byte of the chunk is left out.
MutRingAfter(d, n) ==
    [p \in Pos |-> LET i == ((p - writePos) % CirBufSize) + 1
                   IN  IF i < n THEN d[i] ELSE buf[p]]

\* The ring after the first n bytes of d went to writePos and on, modulo size.
RingAfter(d, n) ==
    [p \in Pos |-> LET i == ((p - writePos) % CirBufSize) + 1
                   IN  IF i <= n THEN d[i] ELSE buf[p]]

\* Mutant: the overwrite forgets to move the head of the ring.
MutWriteSome(d) ==
    LET n == Written(d) IN
        /\ n > 0
        /\ buf' = RingAfter(d, n)
        /\ writePos' = (writePos + n) % CirBufSize
        /\ count' = Lesser(count + n, windowSize)
        /\ totalSize' = totalSize + n
        /\ UNCHANGED <<readPos, syncMode, windowSize, waiter, panicked>>

WriteSome(d) ==
    LET n    == Written(d)
        lost == Greater(0, count + n - windowSize)
    IN  /\ n > 0
        /\ buf' = RingAfter(d, n)
        /\ writePos' = (writePos + n) % CirBufSize
        /\ readPos' = (readPos + lost) % CirBufSize
        /\ count' = count + n - lost
        /\ totalSize' = totalSize + n
        /\ UNCHANGED <<syncMode, windowSize, waiter, panicked>>

\* Nothing fits: the writer's channel goes into waiterChan, which holds one.
WriteBlocked(w, d) ==
    /\ Written(d) = 0
    /\ IF waiter = NoWriter
       THEN waiter' = w /\ UNCHANGED panicked
       ELSE panicked' = TRUE /\ UNCHANGED waiter
    /\ UNCHANGED <<buf, readPos, writePos, count, totalSize, syncMode, windowSize>>

\* A writer whose channel is still open does not call again.
WriteAvailable(w, d) ==
    /\ waiter # w
    /\ totalSize + Len(d) <= MaxTotal
    /\ WriteSome(d) \/ WriteBlocked(w, d)

\* Mutant: the check that n bytes are there is gone.
MutConsume(n) ==
    /\ readPos' = (readPos + n) % CirBufSize
    /\ count' = count - n
    /\ waiter' = NoWriter
    /\ UNCHANGED <<buf, writePos, totalSize, syncMode, windowSize, panicked>>

Consume(n) ==
    /\ n <= count
    /\ readPos' = (readPos + n) % CirBufSize
    /\ count' = count - n
    /\ waiter' = NoWriter
    /\ UNCHANGED <<buf, writePos, totalSize, syncMode, windowSize, panicked>>

\* Mutant: only a larger window wakes the writer, leaving sync mode does not.
MutSetEffectiveWindow(sync, window) ==
    LET w      == Lesser(window, CirBufSize)
        excess == IF sync THEN 0 ELSE Greater(0, count - w)
    IN  /\ windowSize' = w
        /\ syncMode' = sync
        /\ readPos' = (readPos + excess) % CirBufSize
        /\ count' = count - excess
        /\ waiter' = IF syncMode /\ w > windowSize THEN NoWriter ELSE waiter
        /\ UNCHANGED <<buf, writePos, totalSize, panicked>>

SetEffectiveWindow(sync, window) ==
    LET w      == Lesser(window, CirBufSize)
        excess == IF sync THEN 0 ELSE Greater(0, count - w)
    IN  /\ windowSize' = w
        /\ syncMode' = sync
        /\ readPos' = (readPos + excess) % CirBufSize
        /\ count' = count - excess
        /\ waiter' = IF syncMode /\ (w > windowSize \/ ~sync) THEN NoWriter ELSE waiter
        /\ UNCHANGED <<buf, writePos, totalSize, panicked>>

\* Callers never move the tail below the bytes the ring holds.
SetTotalSize(total) ==
    /\ total >= count
    /\ totalSize' = total
    /\ UNCHANGED <<buf, readPos, writePos, count, syncMode, windowSize, waiter, panicked>>

Next ==
    /\ ~panicked
    /\ \/ \E w \in Writer, d \in Chunk : WriteAvailable(w, d)
       \/ \E n \in 0..CirBufSize : Consume(n)
       \/ \E sync \in BOOLEAN, window \in 0..(CirBufSize + 1) :
              SetEffectiveWindow(sync, window)
       \/ \E total \in 0..MaxTotal : SetTotalSize(total)

Spec == Init /\ [][Next]_vars

-----------------------------------------------------------------------------
\* Mutant: the bytes left of the offset count as readable.
MutPeekDataAt(offset, len) ==
    LET n == IF count = 0 \/ offset >= count THEN 0 ELSE Lesser(len, count)
    IN  [i \in 1..n |-> buf[(readPos + offset + i - 1) % CirBufSize]]

\* PeekDataAt: len bytes from an offset past the head, following the ring.
PeekDataAt(offset, len) ==
    LET n == IF count = 0 \/ offset >= count THEN 0 ELSE Lesser(len, count - offset)
    IN  [i \in 1..n |-> buf[(readPos + offset + i - 1) % CirBufSize]]

\* The abstract buffer this ring stands for.
Contents == [i \in 1..count |-> buf[(readPos + i - 1) % CirBufSize]]

AbsBuf == [data |-> Contents, total |-> totalSize, sync |-> syncMode,
           window |-> windowSize, waiter |-> waiter, panic |-> panicked]

FB == INSTANCE FlowBuf WITH fb <- AbsBuf

-----------------------------------------------------------------------------
\* The write position is always `count` bytes after the read position, in
\* asynchronous mode the window bounds the count, and the writer that
\* WriteAvailable parked stays parked only while the buffer is full and
\* synchronous: Consume and SetEffectiveWindow never leave it asleep when
\* there is room (cirbuf.go: tryWakeWriter).
RingInv ==
    /\ writePos = (readPos + count) % CirBufSize
    /\ ~syncMode => count <= windowSize
    /\ waiter # NoWriter => syncMode /\ count >= windowSize

\* A peek at any offset returns the bytes the abstract buffer holds there,
\* across the wrap of the ring and at both of its ends.
PeekReadsContents ==
    \A offset \in 0..CirBufSize, len \in 0..CirBufSize :
        PeekDataAt(offset, len) = BufPeek(AbsBuf, offset, len)

\* The ring implements the abstract flow-control buffer: bytes come out in
\* the order they went in, none appears or vanishes except at the head.
ImplementsFlowBuf == FB!Spec
=============================================================================

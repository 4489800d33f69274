----------------------------- MODULE FlowBufOps -----------------------------
(***************************************************************************)
(* What pkg/jobmanager/cirbuf.go promises to its callers, without the      *)
(* ring: a buffer is a record that holds the unconsumed bytes in order     *)
(*   data    the bytes between the head and the tail,                      *)
(*   total   the stream position of the tail (CirBuf.totalSize),           *)
(*   sync    a full buffer blocks the writer instead of dropping its head, *)
(*   window  the number of bytes it may hold,                              *)
(*   waiter  the writer parked on the channel in waiterChan, or NoWriter,  *)
(*   panic   a second writer tried to park while one was parked.           *)
(* Every operator is one critical section of CirBuf.lock.                  *)
(***************************************************************************)
EXTENDS Integers, Sequences

CONSTANTS
    CirBufSize,   \* len(cb.buf)
    Byte,         \* the bytes that flow through a stream
    Writer,       \* the goroutines that call WriteAvailable
    NoWriter      \* "no goroutine is parked"

ASSUME CirBufSizeAssumption == CirBufSize \in Nat \ {0}
ASSUME NoWriterAssumption   == NoWriter \notin Writer

Lesser(a, b)  == IF a < b THEN a ELSE b
Greater(a, b) == IF a > b THEN a ELSE b

Buffer == [data   : Seq(Byte),
           total  : Int,
           sync   : BOOLEAN,
           window : 0..CirBufSize,
           waiter : Writer \union {NoWriter},
           panic  : BOOLEAN]

\* The suffix of s that is left when its first n elements are gone.
DropFirst(s, n) == SubSeq(s, n + 1, Len(s))

MakeBuf(sync) == [data |-> <<>>, total |-> 0, sync |-> sync,
                  window |-> CirBufSize, waiter |-> NoWriter, panic |-> FALSE]

HeadOf(b) == b.total - Len(b.data)

\* How many bytes of d a call writes before it would have to wait.
Writable(b, d) ==
    IF b.sync THEN Lesser(Len(d), Greater(0, b.window - Len(b.data))) ELSE Len(d)

\* The bytes of a full asynchronous buffer that make room for n more.
Dropped(b, n) == Greater(0, Len(b.data) + n - b.window)

BufWrite(b, w, d) ==
    LET n == Writable(b, d) IN
    IF n > 0
    THEN [b EXCEPT !.data  = DropFirst(@ \o SubSeq(d, 1, n), Dropped(b, n)),
                   !.total = @ + n]
    ELSE IF b.waiter = NoWriter THEN [b EXCEPT !.waiter = w]
                                ELSE [b EXCEPT !.panic = TRUE]

\* Consume fails, and changes nothing, when n bytes are not there.
CanConsume(b, n) == n <= Len(b.data)

BufConsume(b, n) == [b EXCEPT !.data = DropFirst(@, n), !.waiter = NoWriter]

\* Mutant: a window that shrinks drops the head of a synchronous buffer too.
MutBufSetWindow(b, sync, window) ==
    LET w    == Lesser(window, CirBufSize)
        over == Greater(0, Len(b.data) - w)
        wake == b.sync /\ (w > b.window \/ ~sync)
    IN  [b EXCEPT !.data   = DropFirst(@, over),
                  !.sync   = sync,
                  !.window = w,
                  !.waiter = IF wake THEN NoWriter ELSE @]

BufSetWindow(b, sync, window) ==
    LET w    == Lesser(window, CirBufSize)
        over == IF sync THEN 0 ELSE Greater(0, Len(b.data) - w)
        wake == b.sync /\ (w > b.window \/ ~sync)
    IN  [b EXCEPT !.data   = DropFirst(@, over),
                  !.sync   = sync,
                  !.window = w,
                  !.waiter = IF wake THEN NoWriter ELSE @]

BufSetTotal(b, total) == [b EXCEPT !.total = total]

\* The bytes a peek of at most n bytes at an offset returns.
BufPeek(b, offset, n) ==
    SubSeq(b.data, offset + 1, Lesser(offset + n, Len(b.data)))
=============================================================================

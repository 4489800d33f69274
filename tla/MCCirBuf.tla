------------------------------ MODULE MCCirBuf ------------------------------
(***************************************************************************)
(* CirBuf on a ring of three bytes, two byte values and two writers: chunks *)
(* of one to three bytes wrap the ring at every offset.                    *)
(***************************************************************************)
EXTENDS CirBuf

MCChunk == UNION {[1..n -> Byte] : n \in 1..CirBufSize}

-----------------------------------------------------------------------------
\* cirbuf.go:77-98, one byte at a time: the reference for the closed form.
RECURSIVE Loop(_, _)
Loop(s, d) ==
    IF d = <<>> \/ (syncMode /\ s.count >= windowSize) THEN s
    ELSE Loop([buf      |-> [s.buf EXCEPT ![s.writePos] = Head(d)],
               writePos |-> (s.writePos + 1) % CirBufSize,
               count    |-> IF s.count < windowSize THEN s.count + 1 ELSE s.count,
               readPos  |-> IF s.count < windowSize THEN s.readPos
                            ELSE (s.readPos + 1) % CirBufSize,
               total    |-> s.total + 1],
              Tail(d))

\* WriteAvailable's closed form leaves the ring as its byte loop does, for
\* every chunk, in both modes, at every position and fill of the ring.
WriteIsTheLoop ==
    [][\A w \in Writer, d \in Chunk :
          WriteAvailable(w, d) /\ Written(d) > 0 =>
             [buf |-> buf', writePos |-> writePos', count |-> count',
              readPos |-> readPos', total |-> totalSize']
             = Loop([buf |-> buf, writePos |-> writePos, count |-> count,
                     readPos |-> readPos, total |-> totalSize], d)]_vars

=============================================================================

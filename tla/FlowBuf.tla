------------------------------ MODULE FlowBuf ------------------------------
(***************************************************************************)
(* The abstract specification of the flow-control buffer: the operations   *)
(* of pkg/jobmanager/cirbuf.go as steps on one FlowBufOps record.  CirBuf  *)
(* implements it with a ring; StreamManager uses the same operators.       *)
(***************************************************************************)
EXTENDS FlowBufOps

CONSTANTS
    Chunk,       \* the byte strings writers offer
    MaxTotal     \* bound on the stream position

VARIABLE fb

Init == \E sync \in BOOLEAN : fb = MakeBuf(sync)

\* A writer whose channel is still open does not call again.
Write(w, d) ==
    /\ fb.waiter # w
    /\ fb.total + Len(d) <= MaxTotal
    /\ fb' = BufWrite(fb, w, d)

Consume(n) == CanConsume(fb, n) /\ fb' = BufConsume(fb, n)

SetWindow(sync, window) == fb' = BufSetWindow(fb, sync, window)

SetTotal(total) == total >= Len(fb.data) /\ fb' = BufSetTotal(fb, total)

Next ==
    /\ ~fb.panic
    /\ \/ \E w \in Writer, d \in Chunk : Write(w, d)
       \/ \E n \in 0..CirBufSize : Consume(n)
       \/ \E sync \in BOOLEAN, window \in 0..(CirBufSize + 1) :
              SetWindow(sync, window)
       \/ \E total \in 0..MaxTotal : SetTotal(total)

Spec == Init /\ [][Next]_fb
=============================================================================

---------------------------- MODULE StreamManager ----------------------------
(***************************************************************************)
(* pkg/jobmanager/streammanager.go: the remote end of a durable terminal   *)
(* stream.  The read loop moves the program's output into the flow-control *)
(* buffer (FlowBufOps), or into a disk file while no client is connected;  *)
(* the sender loop turns the buffer into packets; a drain goroutine per    *)
(* reconnection moves the disk file back through the buffer.               *)
(*                                                                         *)
(* An action is one critical section.  StreamManager.lock protects all but *)
(* the buffer, which has a lock of its own: the read loop and a drain write *)
(* to it without StreamManager.lock, so ClientConnected, which makes       *)
(* several calls to the buffer, is three steps that hold StreamManager.lock. *)
(* Here the environment (the client, its acknowledgements, the network)    *)
(* does anything the code's types allow; DurableStream supplies a real one. *)
(***************************************************************************)
EXTENDS FlowBufOps, FiniteSets

CONSTANTS
    Stream,       \* stream ids: each names one connection of a client
    NoStream,
    Loop,         \* the read loop, as a writer of the buffer
    Cwnd,         \* cwndSize
    MaxPacket,    \* MaxPacketSize: a read, a packet and a drained block
    MaxBytes,     \* bound: the bytes the program writes
    MaxSeq,       \* bound: the stream positions a client may name
    Terminal,     \* how reading the pty may end: "eof", "err"
    CreateOk,     \* whether os.Create may succeed, may fail
    WriteMayFail  \* whether a write to the disk file may fail

ASSUME SizesAssumption ==
    /\ Cwnd \in Nat \ {0}
    /\ MaxPacket \in Nat \ {0}
    /\ MaxBytes \in Nat
    /\ MaxSeq \in Nat
ASSUME WriterAssumption ==
    /\ Writer = Stream \union {Loop}
    /\ Loop \notin Stream
    /\ NoStream \notin Stream
ASSUME ByteAssumption == 1..MaxBytes \subseteq Byte
ASSUME TerminalAssumption == Terminal \subseteq {"eof", "err"}
ASSUME CreateOkAssumption == CreateOk \subseteq BOOLEAN
ASSUME WriteMayFailAssumption == WriteMayFail \in BOOLEAN

VARIABLES
    produced,      \* how many bytes were read from the pty: byte i is the i-th
    rl,            \* the read loop: [pc, data still to store, file it saw]
    cb,            \* sm.buf
    connected,
    streamId,
    rwndSize,
    sentNotAcked,
    maxAcked,      \* <<maxAckedSeq, maxAckedRwnd>>
    term,          \* terminalEvent: "none", "eof", "err"
    termSent,
    termAcked,
    eofPos,
    diskFile,      \* the number of the open disk file, 0 when there is none
    diskStart,
    diskEnd,
    diskRead,
    content,       \* the bytes of the open disk file
    drainGen,
    drains,        \* the drain goroutine that each connection started
    sndPc,         \* the sender loop: prep, park, send, fail, activate, done
    pkt,           \* the packet it is sending
    cc             \* the ClientConnected call that holds StreamManager.lock

readVars  == <<produced, rl>>
ackVars   == <<rwndSize, sentNotAcked, maxAcked>>
termVars  == <<term, termSent, termAcked, eofPos>>
diskVars  == <<diskFile, diskStart, diskEnd, diskRead, content>>
drainVars == <<drainGen, drains>>
vars == <<readVars, cb, connected, streamId, ackVars, termVars, diskVars,
          drainVars, sndPc, pkt, cc>>

-----------------------------------------------------------------------------
NoPacket == [id |-> NoStream, seq |-> 0, data |-> <<>>, end |-> "none"]
Packet   == [id : Stream, seq : Int, data : Seq(Byte), end : {"none", "eof", "err"}]
Idle     == [pc |-> "idle", id |-> NoStream, rwnd |-> 0, seq |-> 0, head |-> 0]
NoDrain  == [pc |-> "none", gen |-> 0, data |-> <<>>, n |-> 0]
Ack      == [id : Stream, seq : 0..MaxSeq, rwnd : 0..Cwnd, fin : BOOLEAN]

Unlocked == cc.pc = "idle"

\* drainCond.Signal: only the sender loop waits on drainCond.
Woken  == IF sndPc = "park" THEN "prep" ELSE sndPc
Signal == sndPc' = Woken

EffectiveWindow(rwnd) == Lesser(Cwnd, rwnd)

Init ==
    /\ produced = 0
    /\ rl = [pc |-> "off", data |-> <<>>, file |-> 0]
    /\ cb = MakeBuf(TRUE)
    /\ connected = FALSE /\ streamId = NoStream
    /\ rwndSize = Cwnd /\ sentNotAcked = 0 /\ maxAcked = <<0, 0>>
    /\ term = "none" /\ termSent = FALSE /\ termAcked = FALSE /\ eofPos = -1
    /\ diskFile = 0 /\ diskStart = 0 /\ diskEnd = 0 /\ diskRead = 0 /\ content = <<>>
    /\ drainGen = 0 /\ drains = [s \in Stream |-> NoDrain]
    /\ sndPc = "prep" /\ pkt = NoPacket
    /\ cc = Idle

-----------------------------------------------------------------------------
(* The read loop *)

AttachReader ==
    /\ Unlocked /\ rl.pc = "off"
    /\ rl' = [rl EXCEPT !.pc = "read"]
    /\ UNCHANGED <<produced, cb, connected, streamId, ackVars, termVars, diskVars,
                   drainVars, sndPc, pkt, cc>>

\* Mutant: once a client is back the read loop leaves the disk file alone.
MutReadData(n) ==
    /\ Unlocked /\ rl.pc = "read" /\ produced + n <= MaxBytes
    /\ produced' = produced + n
    /\ rl' = [pc   |-> IF diskFile # 0 /\ ~connected THEN "disk" ELSE "buf",
              data |-> [i \in 1..n |-> produced + i],
              file |-> diskFile]
    /\ UNCHANGED <<cb, connected, streamId, ackVars, termVars, diskVars,
                   drainVars, sndPc, pkt, cc>>

\* A read of n bytes, and handleReadData's look at diskFile.
ReadData(n) ==
    /\ Unlocked /\ rl.pc = "read" /\ produced + n <= MaxBytes
    /\ produced' = produced + n
    /\ rl' = [pc   |-> IF diskFile # 0 THEN "disk" ELSE "buf",
              data |-> [i \in 1..n |-> produced + i],
              file |-> diskFile]
    /\ UNCHANGED <<cb, connected, streamId, ackVars, termVars, diskVars,
                   drainVars, sndPc, pkt, cc>>

\* diskFile.Write succeeds on the file that is still open.
StoreOnDisk ==
    /\ Unlocked /\ rl.pc = "disk" /\ rl.file = diskFile
    /\ content' = content \o rl.data
    /\ diskEnd' = diskEnd + Len(rl.data)
    /\ rl' = [pc |-> "read", data |-> <<>>, file |-> 0]
    /\ sndPc' = IF connected THEN Woken ELSE sndPc
    /\ UNCHANGED <<produced, cb, connected, streamId, ackVars, termVars, diskFile,
                   diskStart, diskRead, drainVars, pkt, cc>>

\* The write fails: the file is given up and the bytes go to the buffer.
DiskWriteFails ==
    /\ WriteMayFail
    /\ Unlocked /\ rl.pc = "disk" /\ rl.file = diskFile
    /\ rl' = [rl EXCEPT !.pc = "buf"]
    /\ diskFile' = 0 /\ diskStart' = 0 /\ diskEnd' = 0 /\ diskRead' = 0 /\ content' = <<>>
    /\ drainGen' = drainGen + 1
    /\ UNCHANGED <<produced, cb, connected, streamId, ackVars, termVars, drains,
                   sndPc, pkt, cc>>

\* The file was deactivated, or replaced, after handleReadData looked at it.
DiskFileChanged ==
    /\ Unlocked /\ rl.pc = "disk" /\ rl.file # diskFile
    /\ rl' = [rl EXCEPT !.pc = "buf"]
    /\ UNCHANGED <<produced, cb, connected, streamId, ackVars, termVars, diskVars,
                   drainVars, sndPc, pkt, cc>>

\* One round of the WriteAvailable loop; it needs no StreamManager.lock to
\* write, and its Signal comes before any step that waits for it.
StoreInBuffer ==
    /\ rl.pc = "buf" /\ cb.waiter # Loop
    /\ LET n == Writable(cb, rl.data)
       IN  /\ cb' = BufWrite(cb, Loop, rl.data)
           /\ rl' = IF n = Len(rl.data)
                    THEN [pc |-> "read", data |-> <<>>, file |-> 0]
                    ELSE [rl EXCEPT !.data = DropFirst(@, n)]
           /\ sndPc' = IF n > 0 THEN Woken ELSE sndPc
    /\ UNCHANGED <<produced, connected, streamId, ackVars, termVars, diskVars,
                   drainVars, pkt, cc>>

\* handleEOF and handleError
ReadEnds(how) ==
    /\ Unlocked /\ rl.pc = "read"
    /\ rl' = [rl EXCEPT !.pc = "done"]
    /\ term' = how
    /\ eofPos' = Greater(cb.total, diskEnd)
    /\ Signal
    /\ UNCHANGED <<produced, cb, connected, streamId, ackVars, termSent, termAcked,
                   diskVars, drainVars, pkt, cc>>

-----------------------------------------------------------------------------
(* Disconnecting, and the disk file *)

\* Mutant: the bytes in flight are not forgotten.
MutDisconnect ==
    /\ IF connected
       THEN /\ connected' = FALSE
            /\ maxAcked' = <<0, 0>>
            /\ termSent' = (termSent /\ termAcked)
            /\ cb' = BufSetWindow(cb, FALSE, CirBufSize)
            /\ drainGen' = drainGen + 1
       ELSE UNCHANGED <<connected, maxAcked, termSent, cb, drainGen>>
    /\ UNCHANGED <<readVars, streamId, rwndSize, sentNotAcked, term, termAcked, eofPos,
                   diskVars, drains, pkt, cc>>

\* ClientDisconnected, without its Signal.
Disconnect ==
    /\ IF connected
       THEN /\ connected' = FALSE
            /\ sentNotAcked' = 0 /\ maxAcked' = <<0, 0>>
            /\ termSent' = (termSent /\ termAcked)
            /\ cb' = BufSetWindow(cb, FALSE, CirBufSize)
            /\ drainGen' = drainGen + 1
       ELSE UNCHANGED <<connected, sentNotAcked, maxAcked, termSent, cb, drainGen>>
    /\ UNCHANGED <<readVars, streamId, rwndSize, term, termAcked, eofPos, diskVars,
                   drains, pkt, cc>>

\* activateDiskBuffering.  The number drainGen + 1 names a new file: the end
\* of every earlier one moved drainGen.
Activate ==
    /\ \/ /\ diskFile = 0 /\ rl.pc # "off" /\ term = "none" /\ TRUE \in CreateOk
          /\ diskFile' = drainGen + 1
          /\ diskStart' = cb.total /\ diskEnd' = cb.total /\ diskRead' = cb.total
          /\ content' = <<>>
       \/ /\ diskFile # 0 \/ rl.pc = "off" \/ term # "none" \/ FALSE \in CreateOk
          /\ UNCHANGED diskVars
    /\ UNCHANGED <<readVars, cb, connected, streamId, ackVars, termVars, drainVars,
                   pkt, cc>>

ClientDisconnected ==
    /\ Unlocked /\ Disconnect
    /\ sndPc' = IF connected THEN Woken ELSE sndPc

ActivateDiskBuffering == Unlocked /\ Activate /\ UNCHANGED sndPc

\* deactivateDiskBuffering on a buffer b
Deactivated(b) ==
    /\ cb' = BufSetTotal(b, diskEnd)
    /\ diskFile' = 0 /\ diskStart' = 0 /\ diskEnd' = 0 /\ diskRead' = 0 /\ content' = <<>>
    /\ drainGen' = drainGen + 1

-----------------------------------------------------------------------------
(* ClientConnected, in three steps that hold StreamManager.lock *)

\* It looks at the buffer and clamps the client's position.
ConnectBegins(s, rwnd, seq) ==
    /\ Unlocked
    /\ ~termAcked /\ ~connected
    /\ drains[s].pc = "none"
    /\ LET at == Lesser(seq, Greater(cb.total, diskEnd))
       IN  cc' = [pc   |-> IF at > HeadOf(cb) THEN "consume" ELSE "window",
                  id   |-> s, rwnd |-> rwnd, seq |-> at, head |-> HeadOf(cb)]
    /\ UNCHANGED <<readVars, cb, connected, streamId, ackVars, termVars, diskVars,
                   drainVars, sndPc, pkt>>

\* It drops what the client has, all of the buffer when the client is past it.
ConnectConsumes ==
    /\ cc.pc = "consume"
    /\ LET n == cc.seq - cc.head
       IN  cb' = IF n > Len(cb.data)
                 THEN BufConsume(BufSetTotal(cb, cc.seq), Len(cb.data))
                 ELSE BufConsume(cb, n)
    /\ cc' = [cc EXCEPT !.pc = "window", !.head = HeadOf(cb')]
    /\ UNCHANGED <<readVars, connected, streamId, ackVars, termVars, diskVars,
                   drainVars, sndPc, pkt>>

\* The position it returns: the client takes the next byte for this one.
StartSeq == Greater(cc.head, cc.seq)

\* Mutant: a new drain starts where the client is, not where the last one ended.
MutConnectEnds ==
    /\ cc.pc = "window"
    /\ connected' = TRUE /\ streamId' = cc.id
    /\ rwndSize' = cc.rwnd /\ sentNotAcked' = 0
    /\ LET b == BufSetWindow(cb, TRUE, EffectiveWindow(cc.rwnd))
       IN  \/ /\ diskFile # 0 /\ cc.seq < diskEnd
              /\ cb' = b
              /\ diskRead' = Greater(diskStart, cc.seq)
              /\ drainGen' = drainGen + 1
              /\ drains' = [drains EXCEPT ![cc.id] =
                               [NoDrain EXCEPT !.pc = "snap", !.gen = drainGen + 1]]
              /\ UNCHANGED <<diskFile, diskStart, diskEnd, content>>
           \/ /\ diskFile # 0 /\ cc.seq >= diskEnd
              /\ Deactivated(b)
              /\ drains' = [drains EXCEPT ![cc.id].pc = "off"]
           \/ /\ diskFile = 0
              /\ cb' = b
              /\ drains' = [drains EXCEPT ![cc.id].pc = "off"]
              /\ UNCHANGED <<diskVars, drainGen>>
    /\ cc' = Idle
    /\ Signal
    /\ UNCHANGED <<readVars, maxAcked, termVars, pkt>>

\* It opens the window, and starts a drain or gives the disk file up.
ConnectEnds ==
    /\ cc.pc = "window"
    /\ connected' = TRUE /\ streamId' = cc.id
    /\ rwndSize' = cc.rwnd /\ sentNotAcked' = 0
    /\ LET b == BufSetWindow(cb, TRUE, EffectiveWindow(cc.rwnd))
       IN  \/ /\ diskFile # 0 /\ cc.seq < diskEnd
              /\ cb' = b
              /\ diskRead' = Greater(Greater(diskRead, diskStart), cc.seq)
              /\ drainGen' = drainGen + 1
              /\ drains' = [drains EXCEPT ![cc.id] =
                               [NoDrain EXCEPT !.pc = "snap", !.gen = drainGen + 1]]
              /\ UNCHANGED <<diskFile, diskStart, diskEnd, content>>
           \/ /\ diskFile # 0 /\ cc.seq >= diskEnd
              /\ Deactivated(b)
              /\ drains' = [drains EXCEPT ![cc.id].pc = "off"]
           \/ /\ diskFile = 0
              /\ cb' = b
              /\ drains' = [drains EXCEPT ![cc.id].pc = "off"]
              /\ UNCHANGED <<diskVars, drainGen>>
    /\ cc' = Idle
    /\ Signal
    /\ UNCHANGED <<readVars, maxAcked, termVars, pkt>>

-----------------------------------------------------------------------------
(* Acknowledgements and the receive window *)

Expected(a) == connected /\ a.id = streamId

\* The tuple comparison that drops acknowledgements out of order.
Stale(a) == a.seq < maxAcked[1] \/ (a.seq = maxAcked[1] /\ a.rwnd <= maxAcked[2])

\* Mutant: an acknowledgement may be for bytes that were not sent.
MutAcknowledges(a) ==
    a.seq >= HeadOf(cb) /\ CanConsume(cb, a.seq - HeadOf(cb))

Acknowledges(a) ==
    /\ a.seq >= HeadOf(cb)
    /\ a.seq - HeadOf(cb) <= sentNotAcked
    /\ CanConsume(cb, a.seq - HeadOf(cb))

RecvFin(a) ==
    /\ Expected(a) /\ a.fin
    /\ termAcked' = TRUE
    /\ Signal
    /\ UNCHANGED <<cb, ackVars>>

RecvFresh(a) ==
    /\ Expected(a) /\ ~a.fin /\ ~Stale(a)
    /\ maxAcked' = <<a.seq, a.rwnd>>
    /\ IF Acknowledges(a)
       THEN LET acked == a.seq - HeadOf(cb)
                b     == IF acked > 0 THEN BufConsume(cb, acked) ELSE cb
            IN  /\ cb' = BufSetWindow(b, TRUE, EffectiveWindow(a.rwnd))
                /\ sentNotAcked' = sentNotAcked - acked
                /\ rwndSize' = a.rwnd
                /\ sndPc' = IF a.rwnd > rwndSize \/ acked > 0 THEN Woken ELSE sndPc
       ELSE UNCHANGED <<cb, sentNotAcked, rwndSize, sndPc>>
    /\ UNCHANGED termAcked

RecvIgnored(a) ==
    /\ ~Expected(a) \/ (~a.fin /\ Stale(a))
    /\ UNCHANGED <<cb, ackVars, termAcked, sndPc>>

RecvAck(a) ==
    /\ Unlocked
    /\ RecvFin(a) \/ RecvFresh(a) \/ RecvIgnored(a)
    /\ UNCHANGED <<readVars, connected, streamId, term, termSent, eofPos, diskVars,
                   drainVars, pkt, cc>>

\* Mutant: the sender loop is not told that the window opened.
MutSetRwndSize(rwnd) ==
    /\ Unlocked /\ connected
    /\ rwndSize' = rwnd
    /\ cb' = BufSetWindow(cb, TRUE, EffectiveWindow(rwnd))
    /\ UNCHANGED <<readVars, connected, streamId, sentNotAcked, maxAcked, termVars,
                   diskVars, drainVars, sndPc, pkt, cc>>

SetRwndSize(rwnd) ==
    /\ Unlocked /\ connected
    /\ rwndSize' = rwnd
    /\ cb' = BufSetWindow(cb, TRUE, EffectiveWindow(rwnd))
    /\ Signal
    /\ UNCHANGED <<readVars, connected, streamId, sentNotAcked, maxAcked, termVars,
                   diskVars, drainVars, pkt, cc>>

-----------------------------------------------------------------------------
(* The sender loop *)

\* Mutant: the window is taken for the credit, whatever is in flight.
MutCredit == IF sentNotAcked < Len(cb.data) THEN EffectiveWindow(rwndSize) ELSE 0

\* The bytes prepareNextPacket may still send, and the next packet's.
Credit    == EffectiveWindow(rwndSize) - sentNotAcked
NextBytes == BufPeek(cb, sentNotAcked, Lesser(Credit, MaxPacket))

TerminalDue == cb.data = <<>> /\ term # "none" /\ ~termSent /\ diskFile = 0
BytesDue    == Credit > 0 /\ NextBytes # <<>>

Preparing == Unlocked /\ sndPc = "prep"

SenderStops ==
    /\ Preparing /\ termAcked
    /\ sndPc' = "done"
    /\ UNCHANGED <<readVars, cb, connected, streamId, ackVars, termVars, diskVars,
                   drainVars, pkt, cc>>

SenderWaits ==
    /\ Preparing /\ ~termAcked
    /\ ~connected \/ ~(TerminalDue \/ BytesDue)
    /\ sndPc' = "park"
    /\ UNCHANGED <<readVars, cb, connected, streamId, ackVars, termVars, diskVars,
                   drainVars, pkt, cc>>

PrepareBytes ==
    /\ Preparing /\ ~termAcked /\ connected /\ BytesDue
    /\ pkt' = [id |-> streamId, seq |-> HeadOf(cb) + sentNotAcked,
               data |-> NextBytes, end |-> "none"]
    /\ sentNotAcked' = sentNotAcked + Len(NextBytes)
    /\ sndPc' = "send"
    /\ UNCHANGED <<readVars, cb, connected, streamId, rwndSize, maxAcked, termVars,
                   diskVars, drainVars, cc>>

PrepareTerminal ==
    /\ Preparing /\ ~termAcked /\ connected /\ TerminalDue
    /\ pkt' = [id |-> streamId, seq |-> eofPos, data |-> <<>>, end |-> term]
    /\ termSent' = TRUE
    /\ sndPc' = "send"
    /\ UNCHANGED <<readVars, cb, connected, streamId, ackVars, term, termAcked, eofPos,
                   diskVars, drainVars, cc>>

SendReturns ==
    /\ sndPc = "send"
    /\ sndPc' = "prep" /\ pkt' = NoPacket
    /\ UNCHANGED <<readVars, cb, connected, streamId, ackVars, termVars, diskVars,
                   drainVars, cc>>

\* SendData gives up after its timeout: handleSendFailure follows.
SendFails ==
    /\ sndPc = "send"
    /\ sndPc' = "fail"
    /\ UNCHANGED <<readVars, cb, connected, streamId, ackVars, termVars, diskVars,
                   drainVars, pkt, cc>>

FailureDisconnects == Unlocked /\ sndPc = "fail" /\ Disconnect /\ sndPc' = "activate"

FailureActivates ==
    /\ Unlocked /\ sndPc = "activate"
    /\ Activate
    /\ sndPc' = "prep"

-----------------------------------------------------------------------------
(* A drain goroutine, named by the connection that started it *)

DrainStep(s, from, to) ==
    /\ drains[s].pc = from
    /\ drains' = [drains EXCEPT ![s].pc = to]

Mine(s) == drains[s].gen = drainGen

\* The next block of the file that the drain reads.
Block == SubSeq(content, diskRead - diskStart + 1,
                Lesser(diskEnd, diskRead + MaxPacket) - diskStart)

DrainGivesUp(s) ==
    /\ Unlocked
    /\ \/ /\ DrainStep(s, "snap", "off")
          /\ ~Mine(s) \/ ~connected \/ diskFile = 0
       \/ /\ cb.waiter # s
          /\ DrainStep(s, "check", "off")
          /\ ~Mine(s) \/ ~connected
    /\ UNCHANGED <<readVars, cb, connected, streamId, ackVars, termVars, diskVars,
                   drainGen, sndPc, pkt, cc>>

DrainReads(s) ==
    /\ Unlocked
    /\ drains[s].pc = "snap" /\ Mine(s) /\ connected /\ diskFile # 0
    /\ diskRead < diskEnd /\ Block # <<>>
    /\ drains' = [drains EXCEPT ![s].pc = "check", ![s].data = Block]
    /\ UNCHANGED <<readVars, cb, connected, streamId, ackVars, termVars, diskVars,
                   drainGen, sndPc, pkt, cc>>

DrainChecks(s) ==
    /\ Unlocked /\ cb.waiter # s
    /\ DrainStep(s, "check", "write")
    /\ Mine(s) /\ connected
    /\ UNCHANGED <<readVars, cb, connected, streamId, ackVars, termVars, diskVars,
                   drainGen, sndPc, pkt, cc>>

\* WriteAvailable, without StreamManager.lock.
DrainWrites(s) ==
    /\ drains[s].pc = "write"
    /\ cb' = BufWrite(cb, s, drains[s].data)
    /\ LET n == Writable(cb, drains[s].data)
       IN  drains' = [drains EXCEPT ![s].pc   = IF n > 0 THEN "update" ELSE "check",
                                    ![s].data = DropFirst(@, n),
                                    ![s].n    = n]
    /\ UNCHANGED <<readVars, connected, streamId, ackVars, termVars, diskVars,
                   drainGen, sndPc, pkt, cc>>

\* Mutant: a drain that was replaced still moves the read position.
MutDrainUpdates(s) ==
    /\ Unlocked
    /\ DrainStep(s, "update", IF drains[s].data = <<>> THEN "after" ELSE "check")
    /\ diskRead' = diskRead + drains[s].n
    /\ Signal
    /\ UNCHANGED <<readVars, cb, connected, streamId, ackVars, termVars, diskFile,
                   diskStart, diskEnd, content, drainGen, pkt, cc>>

DrainUpdates(s) ==
    /\ Unlocked
    /\ DrainStep(s, "update", IF drains[s].data = <<>> THEN "after" ELSE "check")
    /\ diskRead' = IF Mine(s) THEN diskRead + drains[s].n ELSE diskRead
    /\ Signal
    /\ UNCHANGED <<readVars, cb, connected, streamId, ackVars, termVars, diskFile,
                   diskStart, diskEnd, content, drainGen, pkt, cc>>

\* Caught up: it looks whether the program ended too, and if not it sleeps.
DrainCatchesUp(s) ==
    /\ Unlocked
    /\ Mine(s) /\ connected /\ diskFile # 0 /\ diskRead >= diskEnd
    /\ DrainStep(s, "snap", "after")
    /\ UNCHANGED <<readVars, cb, connected, streamId, ackVars, termVars, diskVars,
                   drainGen, sndPc, pkt, cc>>

Drained == term # "none" /\ diskRead >= diskEnd

DrainRepeats(s) ==
    /\ Unlocked /\ ~Drained
    /\ DrainStep(s, "after", "snap")
    /\ UNCHANGED <<readVars, cb, connected, streamId, ackVars, termVars, diskVars,
                   drainGen, sndPc, pkt, cc>>

\* Everything is drained and nothing more will come.
DrainEnds(s) ==
    /\ Unlocked /\ Drained
    /\ DrainStep(s, "after", "off")
    /\ IF diskFile # 0
       THEN Deactivated(cb) /\ Signal
       ELSE UNCHANGED <<cb, diskVars, drainGen, sndPc>>
    /\ UNCHANGED <<readVars, connected, streamId, ackVars, termVars, pkt, cc>>

-----------------------------------------------------------------------------
ReadLoop ==
    \/ \E n \in 1..MaxPacket : ReadData(n)
    \/ StoreOnDisk \/ DiskWriteFails \/ DiskFileChanged \/ StoreInBuffer
    \/ \E how \in Terminal : ReadEnds(how)

\* The sender loop but for SendData, whose outcome is the network's.
SenderLoop ==
    \/ SenderStops \/ SenderWaits \/ PrepareBytes \/ PrepareTerminal
    \/ FailureDisconnects \/ FailureActivates

Drain(s) ==
    \/ DrainGivesUp(s) \/ DrainReads(s) \/ DrainChecks(s) \/ DrainWrites(s)
    \/ DrainUpdates(s) \/ DrainCatchesUp(s) \/ DrainRepeats(s) \/ DrainEnds(s)

Client ==
    \/ AttachReader
    \/ \E s \in Stream, rwnd \in 0..Cwnd, seq \in 0..MaxSeq : ConnectBegins(s, rwnd, seq)
    \/ ConnectConsumes \/ ConnectEnds
    \/ ClientDisconnected
    \/ ActivateDiskBuffering
    \/ \E a \in Ack : RecvAck(a)
    \/ \E rwnd \in 0..Cwnd : SetRwndSize(rwnd)

\* A second blocked writer panics, and the process with all its goroutines ends.
Next ==
    /\ ~cb.panic
    /\ \/ ReadLoop
       \/ SenderLoop
       \/ SendReturns \/ SendFails
       \/ \E s \in Stream : Drain(s)
       \/ Client

Spec == Init /\ [][Next]_vars

-----------------------------------------------------------------------------
TypeOK ==
    /\ produced \in 0..MaxBytes
    /\ rl \in [pc : {"off", "read", "disk", "buf", "done"}, data : Seq(Byte), file : Nat]
    /\ cb \in Buffer
    /\ connected \in BOOLEAN
    /\ streamId \in Stream \union {NoStream}
    /\ rwndSize \in Nat
    /\ sentNotAcked \in Nat
    /\ maxAcked \in Nat \X Nat
    /\ term \in {"none", "eof", "err"}
    /\ termSent \in BOOLEAN /\ termAcked \in BOOLEAN
    /\ eofPos \in Int
    /\ diskFile \in Nat /\ diskStart \in Int /\ diskEnd \in Int /\ diskRead \in Int
    /\ content \in Seq(Byte)
    /\ drainGen \in Nat
    /\ drains \in [Stream -> [pc : {"none", "off", "snap", "check", "write", "update", "after"},
                              gen : Nat, data : Seq(Byte), n : Nat]]
    /\ sndPc \in {"prep", "park", "send", "fail", "activate", "done"}
    /\ pkt \in Packet \union {NoPacket}
    /\ cc \in [pc : {"idle", "consume", "window"}, id : Stream \union {NoStream},
               rwnd : Nat, seq : Int, head : Int]

\* Flow control: whatever acknowledgements, window updates, disconnections
\* and drains do, the bytes in flight are still in the buffer and within the
\* congestion window, so RecvAck's Consume cannot fail and a packet's
\* position is never past the tail; a connected manager's buffer blocks
\* instead of dropping.
FlowControl ==
    /\ 0 <= sentNotAcked /\ sentNotAcked <= Len(cb.data)
    /\ sentNotAcked <= Cwnd
    /\ connected => cb.sync /\ streamId # NoStream
    /\ ~connected => sentNotAcked = 0

Running(s) == drains[s].pc \in {"snap", "check", "write", "update", "after"}

\* The disk file and its drain: the file holds exactly the positions from
\* diskStart to diskEnd, one drain at most owns the current generation, and
\* the block it carries is the part of the file that diskRead points at, so a
\* drain that was killed never moves another drain's position.
DiskInv ==
    /\ diskFile # 0 => /\ diskStart <= diskRead /\ diskRead <= diskEnd
                       /\ Len(content) = diskEnd - diskStart
    /\ \A s, t \in Stream : Running(s) /\ Mine(s) /\ Running(t) /\ Mine(t) => s = t
    /\ \A s \in Stream : Running(s) /\ Mine(s) =>
         /\ connected /\ streamId = s /\ diskFile # 0
         /\ drains[s].pc \in {"check", "write"} =>
              LET from == diskRead - diskStart
                  to   == from + Len(drains[s].data)
              IN  /\ to <= Len(content)
                  /\ drains[s].data = SubSeq(content, from + 1, to)
=============================================================================

---------------------------- MODULE DurableStream ----------------------------
(***************************************************************************)
(* A durable terminal end to end: StreamManager with the job manager that  *)
(* drives it (pkg/jobmanager/jobmanager.go, mainserverconn.go), the network *)
(* and the two stream brokers (pkg/streamclient/streambroker.go), the      *)
(* stream reader of the main server (streamreader.go) and the restart      *)
(* handshake and output loop of the job controller                         *)
(* (pkg/jobcontroller/jobcontroller.go) that append to the terminal file.  *)
(*                                                                         *)
(* Packets and acknowledgements keep their order: each side hands them to  *)
(* one work queue and one connection.  Remote calls do not keep their      *)
(* order with respect to packets.                                          *)
(***************************************************************************)
EXTENDS StreamManager

CONSTANTS
    MaxStreams,   \* bound: connections of the client, Stream = 1..MaxStreams
    MaxFaults,    \* bound: link drops, quits, restarts by hand, slow sends
    Fault,        \* which of these may happen
    Rwnd,         \* DefaultStreamRwnd
    AckStep       \* readWindow / 5: the window growth that is worth an ack

ASSUME StreamAssumption == MaxStreams \in Nat \ {0} /\ Stream = 1..MaxStreams
ASSUME FaultAssumption ==
    MaxFaults \in Nat /\ Fault \subseteq {"drop", "quit", "restart", "slow", "dead"}
ASSUME RwndAssumption == Rwnd \in 1..Cwnd /\ AckStep \in 0..Rwnd

VARIABLES
    up,        \* the connection between main server and job manager
    live,      \* the streams whose connection is the present one
    attached,  \* the streams the job manager's broker routes acks for
    dnet,      \* packets on their way to the main server
    anet,      \* acknowledgements on their way to the job manager
    h,         \* the call that holds JobManager.lock
    cur,       \* the number of the newest stream
    cl,        \* restartStreaming: [pc, seq and done of the reply]
    rd,        \* the main server's stream reader
    loop,      \* runOutputLoop is running on it
    file,      \* the job's terminal file
    gap,       \* its totalGap
    done,      \* job.StreamDone
    faults     \* how many faults happened

netVars    == <<up, live, attached, dnet, anet, faults>>
clientVars == <<cur, cl, rd, loop, file, gap, done>>
dvars == <<vars, netVars, h, clientVars>>

NewReader(id, next) == [id |-> id, next |-> next, buf |-> <<>>, ooo |-> {},
                        end |-> "none", open |-> TRUE, rwndSent |-> Rwnd]

\* The state in which JobManager.StartJob, with StreamManager fresh, connects
\* the stream the main server made for the job.
DInit ==
    /\ Init
    /\ up = TRUE /\ live = {1} /\ attached = {} /\ dnet = <<>> /\ anet = <<>>
    /\ h = [pc |-> "connect", id |-> 1, seq |-> 0, job |-> TRUE]
    /\ cur = 1 /\ cl = [pc |-> "wait", seq |-> 0, done |-> FALSE]
    /\ rd = NewReader(1, 0) /\ loop = FALSE
    /\ file = <<>> /\ gap = 0 /\ done = FALSE
    /\ faults = 0

-----------------------------------------------------------------------------
(* The stream reader *)

\* Mutant: one byte more than there is room for.
MutFreeWindow(r) == Greater(0, Rwnd + 1 - Len(r.buf))

FreeWindow(r) == Greater(0, Rwnd - Len(r.buf))
AckOf(r, fin, cancel) ==
    [id |-> r.id, seq |-> r.next, rwnd |-> FreeWindow(r), fin |-> fin, cancel |-> cancel]

\* What the broker sends while the connection is down is lost.
Acked(ack) == anet' = IF up THEN Append(anet, ack) ELSE anet

TakeOrdered(r, p) ==
    [r EXCEPT !.buf = @ \o p.data, !.next = @ + Len(p.data), !.end = p.end]

\* The position after a packet.
EndOf(p) == p.seq + Len(p.data)

\* processOOOPackets goes through the stored packets in order of position, and
\* takes them up to the first that does not start where it is, or up to an end.
Follows(r, p) ==
    \/ p.seq = r.next /\ \A q \in r.ooo : q.seq >= p.seq
    \/ \E q \in r.ooo : q.end = "none" /\ q.seq < p.seq /\ EndOf(q) = p.seq

Taken(r) ==
    {p \in r.ooo : r.end = "none" /\ \A q \in r.ooo : q.seq <= p.seq => Follows(r, q)}

\* The byte at position i of the stream, counted from 1, in some packets.
ByteAt(packets, i) ==
    LET p == CHOOSE p \in packets : p.seq < i /\ i <= EndOf(p) IN p.data[i - p.seq]

\* After an end there is nothing left to store.
Leave(r, taken) == IF r.end = "none" THEN r.ooo \ taken ELSE {}

TakeStored(r) ==
    LET taken == Taken(r)
        last  == CHOOSE p \in taken : \A q \in taken : q.seq <= p.seq
        to    == EndOf(last)
        all   == IF taken = {} THEN r
                 ELSE [r EXCEPT !.buf  = @ \o [i \in 1..(to - r.next) |-> ByteAt(taken, r.next + i)],
                                !.next = to, !.end = last.end]
    IN  [all EXCEPT !.ooo = Leave(all, taken)]

\* RecvData: an error ends the stream whatever its position.
RecvData(p) ==
    \/ /\ p.id # rd.id \/ ~rd.open \/ rd.end # "none" \/ (p.end # "err" /\ p.seq < rd.next)
       /\ UNCHANGED <<rd, anet>>
    \/ /\ p.id = rd.id /\ rd.open /\ rd.end = "none"
       /\ \/ /\ p.end = "err"
             /\ rd' = [rd EXCEPT !.end = "err"]
             /\ Acked(AckOf(rd', TRUE, FALSE))
          \/ /\ p.end # "err" /\ p.seq > rd.next
             /\ rd' = IF \E q \in rd.ooo : q.seq = p.seq THEN rd
                      ELSE [rd EXCEPT !.ooo = @ \union {p}]
             /\ UNCHANGED anet
          \/ /\ p.end # "err" /\ p.seq = rd.next
             /\ LET r == TakeStored(TakeOrdered(rd, p))
                IN  /\ rd' = [r EXCEPT !.rwndSent = FreeWindow(r)]
                    /\ Acked(AckOf(r, r.end = "eof", FALSE))

DataArrives ==
    /\ dnet # <<>>
    /\ RecvData(Head(dnet))
    /\ dnet' = Tail(dnet)
    /\ UNCHANGED <<vars, up, live, attached, faults, h, cur, cl, loop, file, gap, done>>

\* runOutputLoop: one Read, and the append of what it returned, which is taken
\* to succeed (Terminal has an append that fails).
LoopReads ==
    /\ loop /\ rd.open /\ rd.end # "err" /\ rd.buf # <<>>
    /\ LET n    == Lesser(MaxPacket, Len(rd.buf))
           r    == [rd EXCEPT !.buf = DropFirst(@, n)]
           tell == r.buf = <<>> \/ FreeWindow(r) - rd.rwndSent >= AckStep
       IN  /\ file' = file \o SubSeq(rd.buf, 1, n)
           /\ rd' = IF tell THEN [r EXCEPT !.rwndSent = FreeWindow(r)] ELSE r
           /\ IF tell THEN Acked(AckOf(r, FALSE, FALSE)) ELSE UNCHANGED anet
    /\ UNCHANGED <<vars, up, live, attached, dnet, faults, h, cur, cl, loop, gap, done>>

\* The Read that returns EOF or the error: the job's stream is done.
LoopEnds ==
    /\ loop /\ rd.open
    /\ rd.end = "err" \/ (rd.end = "eof" /\ rd.buf = <<>>)
    /\ done' = TRUE /\ loop' = FALSE
    /\ rd' = [rd EXCEPT !.open = FALSE]
    /\ Acked(AckOf(rd, FALSE, TRUE))
    /\ UNCHANGED <<vars, up, live, attached, dnet, faults, h, cur, cl, file, gap>>

-----------------------------------------------------------------------------
(* The job controller restarts the stream *)

\* Nothing streams: the connection was lost, or the last restart failed.
Stranded == ~loop \/ cur \notin live

\* Mutant: what the old reader still holds is dropped.
MutRestart ==
    /\ cl.pc = "run" /\ up /\ ~done /\ cur < MaxStreams
    /\ \/ Stranded /\ UNCHANGED faults
       \/ ~Stranded /\ "restart" \in Fault /\ faults < MaxFaults /\ faults' = faults + 1
    /\ rd' = NewReader(cur + 1, Len(file) + gap)
    /\ IF rd.open THEN Acked(AckOf(rd, FALSE, TRUE)) ELSE UNCHANGED anet
    /\ loop' = FALSE
    /\ cur' = cur + 1
    /\ cl' = [pc |-> "ask", seq |-> Len(file) + gap, done |-> FALSE]
    /\ UNCHANGED <<vars, up, live, attached, dnet, h, file, gap, done>>

\* retirePrevStream, then a new reader at the end of the file.
Restart ==
    /\ cl.pc = "run" /\ up /\ ~done /\ cur < MaxStreams
    /\ \/ Stranded /\ UNCHANGED faults
       \/ ~Stranded /\ "restart" \in Fault /\ faults < MaxFaults /\ faults' = faults + 1
    /\ file' = file \o rd.buf
    /\ rd' = NewReader(cur + 1, Len(file') + gap)
    /\ IF rd.open THEN Acked(AckOf(rd, FALSE, TRUE)) ELSE UNCHANGED anet
    /\ loop' = FALSE
    /\ cur' = cur + 1
    /\ cl' = [pc |-> "ask", seq |-> Len(file') + gap, done |-> FALSE]
    /\ UNCHANGED <<vars, up, live, attached, dnet, h, gap, done>>

\* Mutant: a gap is not recorded.
MutNewGap(at, seq) == IF seq > at \/ seq < Len(file) THEN gap ELSE seq - Len(file)

\* totalGap after the reply seq to a request at position at: it grows by what
\* the job manager no longer has, or shrinks when the client was ahead.
NewGap(at, seq) ==
    IF seq > at THEN gap + (seq - at)
    ELSE IF seq < Len(file) THEN 0 ELSE seq - Len(file)

\* The reply to JobPrepareConnect: the two positions are made equal, and the
\* file is cut back when it is longer than the job manager's stream.
Reconcile ==
    /\ cl.pc = "resp" /\ ~cl.done
    /\ gap' = NewGap(Len(file) + gap, cl.seq)
    /\ file' = SubSeq(file, 1, Lesser(cl.seq, Len(file)))
    /\ rd' = [rd EXCEPT !.next = cl.seq]
    /\ cl' = [cl EXCEPT !.pc = "start"]
    /\ UNCHANGED <<vars, netVars, h, cur, loop, done>>

CloseReader ==
    /\ rd' = [rd EXCEPT !.open = FALSE]
    /\ Acked(AckOf(rd, FALSE, TRUE))
    /\ cl' = [cl EXCEPT !.pc = "run"]
    /\ UNCHANGED <<vars, up, live, attached, dnet, faults, h, cur, loop, file, gap>>

AlreadyDone == cl.pc = "resp" /\ cl.done /\ done' = TRUE /\ CloseReader

CallFails ==
    /\ cl.pc = "failed"
    /\ CloseReader
    /\ UNCHANGED done

LoopStarts ==
    /\ cl.pc = "startok"
    /\ loop' = TRUE
    /\ cl' = [cl EXCEPT !.pc = "run"]
    /\ UNCHANGED <<vars, netVars, h, cur, rd, file, gap, done>>

-----------------------------------------------------------------------------
(* The job manager *)

Replied(reply) == IF up /\ h.id = cur /\ cl.pc = "wait" THEN cl' = reply ELSE UNCHANGED cl

\* PrepareConnect takes JobManager.lock.
PrepareConnect ==
    /\ cl.pc = "ask" /\ up /\ h.pc = "idle" /\ Unlocked
    /\ IF termAcked
       THEN cl' = [pc |-> "resp", seq |-> cl.seq, done |-> TRUE] /\ UNCHANGED <<h, live>>
       ELSE /\ cl' = [cl EXCEPT !.pc = "wait"]
            /\ h' = [pc |-> "disconnect", id |-> cur, seq |-> cl.seq, job |-> FALSE]
            /\ live' = live \union {cur}
    /\ UNCHANGED <<vars, up, attached, dnet, anet, faults, cur, rd, loop, file, gap, done>>

HandlerDisconnects ==
    /\ h.pc = "disconnect" /\ ClientDisconnected
    /\ h' = [h EXCEPT !.pc = "activate"]
    /\ UNCHANGED <<netVars, clientVars>>

\* activateDiskBuffering, and the old stream's writer is detached.
HandlerActivates ==
    /\ h.pc = "activate" /\ ActivateDiskBuffering
    /\ attached' = attached \ {streamId}
    /\ h' = [h EXCEPT !.pc = "connect"]
    /\ UNCHANGED <<up, live, dnet, anet, faults, clientVars>>

\* PrepareConnect corks the stream: its receive window is 0 until StartStream.
HandlerConnects ==
    /\ h.pc = "connect"
    /\ ConnectBegins(h.id, IF h.job THEN Rwnd ELSE 0, h.seq)
    /\ h' = [h EXCEPT !.pc = "connecting"]
    /\ UNCHANGED <<netVars, clientVars>>

HandlerRefused ==
    /\ h.pc = "connect" /\ Unlocked /\ (termAcked \/ connected)
    /\ h' = [h EXCEPT !.pc = "idle"]
    /\ Replied([cl EXCEPT !.pc = "failed"])
    /\ UNCHANGED <<vars, netVars, cur, rd, loop, file, gap, done>>

HandlerConsumes == ConnectConsumes /\ UNCHANGED <<netVars, h, clientVars>>

HandlerConnected ==
    /\ h.pc = "connecting" /\ ConnectEnds
    /\ h' = [h EXCEPT !.pc = IF h.job THEN "attach" ELSE "idle"]
    /\ IF h.job THEN UNCHANGED cl
       ELSE Replied([pc |-> "resp", seq |-> StartSeq, done |-> FALSE])
    /\ UNCHANGED <<netVars, cur, rd, loop, file, gap, done>>

\* StartJob goes on: the writer, the pty reader, and the reply.
JobStarted ==
    /\ h.pc = "attach" /\ AttachReader
    /\ attached' = IF up THEN {h.id} ELSE {}
    /\ h' = [h EXCEPT !.pc = "idle"]
    /\ Replied([cl EXCEPT !.pc = "startok"])
    /\ UNCHANGED <<up, live, dnet, anet, faults, cur, rd, loop, file, gap, done>>

\* StartStream: attach the writer, then SetRwndSize, which may find no client.
StartStream ==
    /\ cl.pc = "start" /\ up /\ h.pc = "idle" /\ Unlocked
    /\ attached' = attached \union {cur}
    /\ \/ SetRwndSize(Rwnd) /\ cl' = [cl EXCEPT !.pc = "startok"]
       \/ ~connected /\ UNCHANGED vars /\ cl' = [cl EXCEPT !.pc = "failed"]
    /\ UNCHANGED <<up, live, dnet, anet, faults, h, cur, rd, loop, file, gap, done>>

\* The broker routes an ack to the writer it has, and forgets the writer after
\* the last one.
AckArrives ==
    /\ anet # <<>>
    /\ LET a == Head(anet)
       IN  IF a.id \in attached
           THEN /\ RecvAck(a)
                /\ attached' = IF a.fin \/ a.cancel THEN attached \ {a.id} ELSE attached
           ELSE UNCHANGED <<vars, attached>>
    /\ anet' = Tail(anet)
    /\ UNCHANGED <<up, live, dnet, faults, h, clientVars>>

-----------------------------------------------------------------------------
(* The network *)

\* routedDataSender sends on the connection its stream came with; what it
\* hands to a dead connection is queued there and lost.
Delivered == dnet' = IF pkt.id \in live THEN Append(dnet, pkt) ELSE dnet

Sent ==
    /\ SendReturns /\ Delivered
    /\ UNCHANGED <<up, live, attached, anet, faults, h, clientVars>>

\* The send timeout, on a dead connection or on one that is only slow: there
\* the packet still arrives.
SendTimesOut ==
    /\ SendFails
    /\ \/ pkt.id \notin live /\ "dead" \in Fault /\ UNCHANGED faults
       \/ pkt.id \in live /\ "slow" \in Fault /\ faults < MaxFaults /\ faults' = faults + 1
    /\ Delivered
    /\ UNCHANGED <<up, live, attached, anet, h, clientVars>>

\* A job whose StartJob call has not returned does not exist yet.
LinkLost ==
    /\ cur > 1 \/ cl.pc = "run"
    /\ up' = FALSE /\ live' = {} /\ attached' = {} /\ dnet' = <<>> /\ anet' = <<>>
    /\ faults < MaxFaults /\ faults' = faults + 1
    /\ UNCHANGED <<vars, h>>

\* A call that is under way fails with the connection.
LinkDrops ==
    /\ up /\ "drop" \in Fault /\ LinkLost
    /\ cl' = IF cl.pc \in {"ask", "wait", "start", "startok"}
             THEN [cl EXCEPT !.pc = "failed"] ELSE cl
    /\ UNCHANGED <<cur, rd, loop, file, gap, done>>

\* The application quits and is started again: it flushes the terminal file, but
\* what its reader had received and not yet appended is gone.
MainServerQuits ==
    /\ up /\ "quit" \in Fault /\ LinkLost
    /\ cl' = [cl EXCEPT !.pc = "run"]
    /\ rd' = [rd EXCEPT !.buf = <<>>, !.ooo = {}, !.open = FALSE]
    /\ loop' = FALSE
    /\ UNCHANGED <<cur, file, gap, done>>

LinkReturns ==
    /\ ~up /\ up' = TRUE
    /\ UNCHANGED <<vars, live, attached, dnet, anet, faults, h, clientVars>>

-----------------------------------------------------------------------------
ReadLoopRuns   == ReadLoop /\ UNCHANGED <<netVars, h, clientVars>>
SenderLoopRuns == SenderLoop /\ UNCHANGED <<netVars, h, clientVars>>
DrainRuns(s)   == Drain(s) /\ UNCHANGED <<netVars, h, clientVars>>

JobManager ==
    \/ PrepareConnect \/ HandlerDisconnects \/ HandlerActivates \/ HandlerConnects
    \/ HandlerRefused \/ HandlerConsumes \/ HandlerConnected \/ JobStarted \/ StartStream

JobController ==
    \/ Restart \/ Reconcile \/ AlreadyDone \/ CallFails \/ LoopStarts

DNext ==
    /\ ~cb.panic
    /\ \/ ReadLoopRuns \/ SenderLoopRuns \/ Sent \/ SendTimesOut
       \/ \E s \in Stream : DrainRuns(s)
       \/ JobManager \/ JobController
       \/ DataArrives \/ AckArrives \/ LoopReads \/ LoopEnds
       \/ LinkDrops \/ MainServerQuits \/ LinkReturns

DSpec == DInit /\ [][DNext]_dvars

-----------------------------------------------------------------------------
(* Four windows let a byte lose its place in the stream, because the        *)
(* buffer and the disk file are written outside StreamManager.lock.         *)
(* CalmSpec is the system in which none of them is hit; DSpec is the system. *)

\* A disk file is opened while the read loop carries a chunk meant for the
\* buffer, or for another file.
Straddles == diskFile' \notin {0, diskFile} /\ rl.pc \in {"buf", "disk"}

\* A drain loses its generation between its check and its update, or while it
\* waits for room: a disconnection wakes it, a disk file that fails does not.
CutsDrain ==
    drainGen' # drainGen
        /\ \E s \in Stream : drains[s].pc \in {"write", "update"} \/ cb'.waiter = s

\* The read loop overwrites the head of the buffer after ClientConnected looked
\* at it and before it made the buffer synchronous.
Outruns == cc.pc # "idle" /\ cc' = cc /\ HeadOf(cb') # HeadOf(cb)

\* The read loop carries a chunk that overwrites the head of the buffer: without
\* a client it filled the buffer before activateDiskBuffering opened a disk file.
Overfull ==
    /\ FALSE \notin CreateOk /\ ~cb.sync /\ rl.pc = "buf"
    /\ Dropped(cb, Len(rl.data)) > 0

Calm == ~Straddles /\ ~CutsDrain /\ ~Outruns /\ ~Overfull'

CalmSpec == DInit /\ [][DNext /\ Calm]_dvars

(* The scheduler runs every goroutine that can run; a job manager's handler *)
(* and the job controller finish what they began; and the job controller    *)
(* retries (onConnectionUp, the reconnect scheduler) a stream that is not   *)
(* running while the connection is up.  A restart by hand is never owed.    *)
JobControllerGoesOn ==
    Reconcile \/ AlreadyDone \/ CallFails \/ LoopStarts \/ (Restart /\ Stranded)

Fairness ==
    /\ WF_dvars(ReadLoopRuns /\ Calm)
    /\ WF_dvars(SenderLoopRuns /\ Calm)
    /\ WF_dvars(Sent /\ Calm)
    /\ \A s \in Stream : WF_dvars(DrainRuns(s) /\ Calm)
    /\ WF_dvars(JobManager /\ Calm)
    /\ WF_dvars(JobControllerGoesOn /\ Calm)
    /\ WF_dvars(DataArrives /\ Calm)
    /\ WF_dvars(AckArrives /\ Calm)
    /\ WF_dvars(LoopReads /\ Calm)
    /\ WF_dvars(LoopEnds /\ Calm)

\* A lost connection may never return, and it may be made again.
OfflineSpec == CalmSpec /\ Fairness
LiveSpec    == OfflineSpec /\ WF_dvars(LinkReturns /\ Calm)

-----------------------------------------------------------------------------
Position == Len(file) + gap

DTypeOK ==
    /\ up \in BOOLEAN
    /\ live \subseteq Stream /\ attached \subseteq Stream
    /\ dnet \in Seq(Packet)
    /\ anet \in Seq([id : Stream, seq : Nat, rwnd : 0..Rwnd, fin : BOOLEAN, cancel : BOOLEAN])
    /\ h \in [pc : {"idle", "disconnect", "activate", "connect", "connecting", "attach"},
              id : Stream, seq : Nat, job : BOOLEAN]
    /\ cur \in Stream
    /\ cl \in [pc : {"run", "ask", "wait", "resp", "start", "startok", "failed"},
               seq : Nat, done : BOOLEAN]
    /\ rd \in [id : Stream, next : Nat, buf : Seq(Byte), ooo : SUBSET Packet,
               end : {"none", "eof", "err"}, open : BOOLEAN, rwndSent : 0..Rwnd]
    /\ loop \in BOOLEAN /\ done \in BOOLEAN
    /\ file \in Seq(Byte) /\ gap \in Nat
    /\ faults \in 0..MaxFaults

\* The main server's two records of its place in the stream agree: what it
\* asks the job manager for at the next restart (file size plus totalGap) and
\* what its reader expects next (nextSeq) differ by the bytes it holds,
\* through gaps, truncations, quits and restarts, as long as appends to the
\* terminal file succeed.  It says nothing of the bytes themselves.
Aligned == rd.open => Position + Len(rd.buf) = rd.next

\* The reader is never sent more than it has room for, whatever mixture of
\* corks, late window updates, repeated sends and restarts came before.
NotOverrun == Len(rd.buf) <= Rwnd

\* While the stream is connected the job manager discards no byte that the
\* main server does not have: not when it corks the stream, not when a window
\* shrinks, not when acknowledgements are old or late.
KeepsUnacked ==
    connected /\ streamId = cur /\ rd.open /\ cl.pc \in {"start", "startok", "run"}
        => HeadOf(cb) <= rd.next

\* The buffer and the disk file meet: with no block between them, the next byte
\* a drain takes from the file is the one after the last byte of the buffer.
SeamMeets ==
    diskFile # 0 /\ Unlocked /\ (\A s \in Stream : drains[s].pc # "update")
        => cb.total = diskRead

\* cirbuf.go:69: "Only one concurrent blocked write is allowed": the read loop
\* and a drain never wait on the buffer together.
NoPanic == ~cb.panic

\* Every packet carries the bytes its position names.
PacketsInPlace ==
    \A i \in DOMAIN dnet : \A k \in DOMAIN dnet[i].data :
        dnet[i].data[k] = dnet[i].seq + k

\* The terminal file is only appended to, in the order of the output and without
\* repeats: no restart cuts it back (truncateJobFile), whatever is lost, sent
\* again or late.
OnlyAppends ==
    [][/\ Len(file) <= Len(file') /\ SubSeq(file', 1, Len(file)) = file
       /\ \A i, j \in DOMAIN file' : i < j => file'[i] < file'[j]]_dvars

\* When the stream is done, everything its reader received (and acknowledged)
\* was appended to the terminal file.
KeepsReceived == done /\ ~rd.open => rd.buf = <<>>

\* The program's output, all of it, ends up accounted for in the terminal file,
\* and the job's stream is declared done, when faults stop.
EventuallyDone == <>done

\* A program whose output backs up behind a lost connection is set free, even
\* if the connection never returns.
BackpressureBreaks == (~up /\ cb.waiter = Loop) ~> (up \/ cb.waiter # Loop)

\* The durable terminal implements the abstract pipe: lossy when the disk file
\* cannot be created, exact when it can.
Pipe == INSTANCE OutputPipe WITH
            Lossy <- FALSE \in CreateOk, written <- produced, closed <- rl.pc = "done",
            log <- file, skipped <- gap, ended <- done
ImplementsOutputPipe == Pipe!Spec
=============================================================================

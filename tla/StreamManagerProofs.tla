------------------------- MODULE StreamManagerProofs -------------------------
(***************************************************************************)
(* The stream manager for every size, window and set of connections, under *)
(* an environment that calls anything at any time: its types, its flow     *)
(* control, and that one drain at most owns the disk file.                 *)
(***************************************************************************)
EXTENDS StreamManager, TLAPS

USE CirBufSizeAssumption, NoWriterAssumption

-----------------------------------------------------------------------------
(* The flow-control buffer, field by field. *)

BufRec(data, total, sync, window, waiting, panic) ==
    [data |-> data, total |-> total, sync |-> sync,
     window |-> window, waiter |-> waiting, panic |-> panic]

\* The fields of a buffer.
LEMMA BufFields ==
    ASSUME NEW b \in Buffer
    PROVE  /\ b.data \in Seq(Byte) /\ Len(b.data) \in Nat
           /\ b.total \in Int /\ b.sync \in BOOLEAN
           /\ b.window \in 0..CirBufSize /\ b.waiter \in Writer \union {NoWriter}
           /\ b.panic \in BOOLEAN
  BY DEF Buffer

\* A record of well-typed fields is a buffer.
LEMMA BufType ==
    ASSUME NEW a \in Seq(Byte), NEW b \in Int, NEW c \in BOOLEAN,
           NEW d \in 0..CirBufSize, NEW e \in Writer \union {NoWriter}, NEW f \in BOOLEAN
    PROVE  BufRec(a, b, c, d, e, f) \in Buffer
  BY DEF Buffer, BufRec

\* What is left of a sequence when its head is dropped.
LEMMA DropType ==
    ASSUME NEW s \in Seq(Byte), NEW n \in Nat, n <= Len(s)
    PROVE  /\ DropFirst(s, n) \in Seq(Byte)
           /\ Len(DropFirst(s, n)) = Len(s) - n
  BY DEF DropFirst

\* Consume as a record.
LEMMA ConsumeRec ==
    ASSUME NEW b \in Buffer, NEW n
    PROVE  BufConsume(b, n) = BufRec(DropFirst(b.data, n), b.total, b.sync,
                                     b.window, NoWriter, b.panic)
  <1> DEFINE x == DropFirst(b.data, n)
  <1>1. BufConsume(b, n) = [b EXCEPT !.data = x, !.waiter = NoWriter]
    BY Zenon DEF BufConsume
  <1> HIDE DEF x
  <1>2. [b EXCEPT !.data = x, !.waiter = NoWriter]
        = [[b EXCEPT !.data = x] EXCEPT !.waiter = NoWriter]
    BY DEF Buffer
  <1>3. [b EXCEPT !.data = x] = BufRec(x, b.total, b.sync, b.window, b.waiter, b.panic)
    BY DEF BufRec, Buffer
  <1>4. [BufRec(x, b.total, b.sync, b.window, b.waiter, b.panic) EXCEPT !.waiter = NoWriter]
        = BufRec(x, b.total, b.sync, b.window, NoWriter, b.panic)
    BY DEF BufRec
  <1> QED BY <1>1, <1>2, <1>3, <1>4, Zenon DEF x

\* Consume drops a prefix and changes neither position nor mode.
LEMMA ConsumeType ==
    ASSUME NEW b \in Buffer, NEW n \in Nat, n <= Len(b.data)
    PROVE  /\ BufConsume(b, n) \in Buffer
           /\ Len(BufConsume(b, n).data) = Len(b.data) - n
           /\ BufConsume(b, n).total = b.total
           /\ BufConsume(b, n).sync = b.sync
  <1> DEFINE x == DropFirst(b.data, n)
  <1>1. x \in Seq(Byte) /\ Len(x) = Len(b.data) - n
    BY BufFields, DropType
  <1>2. BufConsume(b, n) = BufRec(x, b.total, b.sync, b.window, NoWriter, b.panic)
    BY ConsumeRec
  <1> HIDE DEF x
  <1>3. BufRec(x, b.total, b.sync, b.window, NoWriter, b.panic) \in Buffer
    BY <1>1, BufType, BufFields
  <1> HIDE DEF Buffer
  <1>4. /\ BufConsume(b, n).data = x
        /\ BufConsume(b, n).total = b.total
        /\ BufConsume(b, n).sync = b.sync
    BY <1>2 DEF BufRec
  <1> QED BY <1>1, <1>2, <1>3, <1>4

\* A new window as a record.
LEMMA WindowRec ==
    ASSUME NEW b \in Buffer, NEW sync, NEW window
    PROVE  LET w    == Lesser(window, CirBufSize)
               over == IF sync THEN 0 ELSE Greater(0, Len(b.data) - w)
               wake == b.sync /\ (w > b.window \/ ~sync)
           IN  BufSetWindow(b, sync, window)
               = BufRec(DropFirst(b.data, over), b.total, sync, w,
                        IF wake THEN NoWriter ELSE b.waiter, b.panic)
  <1> DEFINE w    == Lesser(window, CirBufSize)
             over == IF sync THEN 0 ELSE Greater(0, Len(b.data) - w)
             x    == DropFirst(b.data, over)
             u    == IF b.sync /\ (w > b.window \/ ~sync) THEN NoWriter ELSE b.waiter
  <1>1. BufSetWindow(b, sync, window)
        = [b EXCEPT !.data = x, !.sync = sync, !.window = w, !.waiter = u]
    BY Zenon DEF BufSetWindow
  <1> HIDE DEF x, u, w
  <1>2. [b EXCEPT !.data = x, !.sync = sync, !.window = w, !.waiter = u]
        = [[[[b EXCEPT !.data = x] EXCEPT !.sync = sync] EXCEPT !.window = w]
              EXCEPT !.waiter = u]
    BY DEF Buffer
  <1>3. [b EXCEPT !.data = x] = BufRec(x, b.total, b.sync, b.window, b.waiter, b.panic)
    BY DEF BufRec, Buffer
  <1>4. [BufRec(x, b.total, b.sync, b.window, b.waiter, b.panic) EXCEPT !.sync = sync]
        = BufRec(x, b.total, sync, b.window, b.waiter, b.panic)
    BY DEF BufRec
  <1>5. [BufRec(x, b.total, sync, b.window, b.waiter, b.panic) EXCEPT !.window = w]
        = BufRec(x, b.total, sync, w, b.waiter, b.panic)
    BY DEF BufRec
  <1>6. [BufRec(x, b.total, sync, w, b.waiter, b.panic) EXCEPT !.waiter = u]
        = BufRec(x, b.total, sync, w, u, b.panic)
    BY DEF BufRec
  <1>7. BufSetWindow(b, sync, window) = BufRec(x, b.total, sync, w, u, b.panic)
    BY <1>1, <1>2, <1>3, <1>4, <1>5, <1>6, Zenon
  <1> QED BY <1>7, Zenon DEF x, u, w

\* A new window drops bytes only from an asynchronous buffer.
LEMMA WindowType ==
    ASSUME NEW b \in Buffer, NEW sync \in BOOLEAN, NEW window \in Nat
    PROVE  /\ BufSetWindow(b, sync, window) \in Buffer
           /\ BufSetWindow(b, sync, window).total = b.total
           /\ BufSetWindow(b, sync, window).sync = sync
           /\ sync => Len(BufSetWindow(b, sync, window).data) = Len(b.data)
  <1> DEFINE w    == Lesser(window, CirBufSize)
             over == IF sync THEN 0 ELSE Greater(0, Len(b.data) - w)
             x    == DropFirst(b.data, over)
             u    == IF b.sync /\ (w > b.window \/ ~sync) THEN NoWriter ELSE b.waiter
  <1>0. b.data \in Seq(Byte) /\ Len(b.data) \in Nat /\ CirBufSize \in Nat
    BY BufFields
  <1>1. w \in 0..CirBufSize
    BY <1>0 DEF Lesser
  <1> HIDE DEF w
  <1>2. over \in Nat /\ over <= Len(b.data) /\ (sync => over = 0)
    BY <1>0, <1>1 DEF Greater
  <1> HIDE DEF over
  <1>3. x \in Seq(Byte) /\ Len(x) = Len(b.data) - over
    BY <1>0, <1>2, DropType
  <1>4. u \in Writer \union {NoWriter}
    BY BufFields
  <1>5. BufSetWindow(b, sync, window) = BufRec(x, b.total, sync, w, u, b.panic)
    BY WindowRec, Zenon DEF w, over, x, u
  <1> HIDE DEF x, u
  <1>6. BufRec(x, b.total, sync, w, u, b.panic) \in Buffer
    BY <1>1, <1>3, <1>4, BufFields, BufType
  <1>7. /\ BufSetWindow(b, sync, window).data = x
        /\ BufSetWindow(b, sync, window).total = b.total
        /\ BufSetWindow(b, sync, window).sync = sync
    BY <1>5 DEF BufRec
  <1>8. sync => Len(x) = Len(b.data)
    BY <1>0, <1>2, <1>3
  <1> QED BY <1>5, <1>6, <1>7, <1>8, Zenon

\* A new position touches nothing else.
LEMMA TotalType ==
    ASSUME NEW b \in Buffer, NEW total \in Int
    PROVE  /\ BufSetTotal(b, total) \in Buffer
           /\ BufSetTotal(b, total).data = b.data
           /\ BufSetTotal(b, total).sync = b.sync
  BY DEF Buffer, BufSetTotal

\* How much of what it is offered a buffer takes.
LEMMA WritableType ==
    ASSUME NEW b \in Buffer, NEW d \in Seq(Byte)
    PROVE  /\ Writable(b, d) \in 0..Len(d)
           /\ b.sync /\ Writable(b, d) > 0 => Len(b.data) + Writable(b, d) <= b.window
  <1>1. Len(d) \in Nat /\ Len(b.data) \in Nat /\ b.window \in Nat
    BY BufFields
  <1>2. CASE b.sync
    BY <1>1, <1>2 DEF Writable, Lesser, Greater
  <1>3. CASE ~b.sync
    BY <1>1, <1>3 DEF Writable
  <1> QED BY <1>2, <1>3

\* A write as a record.
LEMMA WriteRec ==
    ASSUME NEW b \in Buffer, NEW w, NEW d, Writable(b, d) > 0
    PROVE  LET n == Writable(b, d)
           IN  BufWrite(b, w, d)
               = BufRec(DropFirst(b.data \o SubSeq(d, 1, n), Dropped(b, n)), b.total + n,
                        b.sync, b.window, b.waiter, b.panic)
  <1> DEFINE n == Writable(b, d)
             x == DropFirst(b.data \o SubSeq(d, 1, n), Dropped(b, n))
  <1>1. BufWrite(b, w, d) = [b EXCEPT !.data = x, !.total = b.total + n]
    BY Zenon DEF BufWrite
  <1> HIDE DEF x, n
  <1>2. [b EXCEPT !.data = x, !.total = b.total + n]
        = [[b EXCEPT !.data = x] EXCEPT !.total = b.total + n]
    BY DEF Buffer
  <1>3. [b EXCEPT !.data = x] = BufRec(x, b.total, b.sync, b.window, b.waiter, b.panic)
    BY DEF BufRec, Buffer
  <1>4. [BufRec(x, b.total, b.sync, b.window, b.waiter, b.panic) EXCEPT !.total = b.total + n]
        = BufRec(x, b.total + n, b.sync, b.window, b.waiter, b.panic)
    BY DEF BufRec
  <1> QED BY <1>1, <1>2, <1>3, <1>4, Zenon DEF x, n

\* A write takes a prefix of what it is offered and, in a synchronous buffer,
\* drops nothing.
LEMMA WriteType ==
    ASSUME NEW b \in Buffer, NEW w \in Writer, NEW d \in Seq(Byte)
    PROVE  /\ BufWrite(b, w, d) \in Buffer
           /\ BufWrite(b, w, d).sync = b.sync
           /\ b.sync => Len(BufWrite(b, w, d).data) >= Len(b.data)
  <1> DEFINE n == Writable(b, d)
  <1>1. n \in 0..Len(d) /\ (b.sync /\ n > 0 => Len(b.data) + n <= b.window)
    BY WritableType
  <1>2. /\ b.data \in Seq(Byte) /\ Len(b.data) \in Nat /\ b.window \in Nat
        /\ Len(d) \in Nat
    BY BufFields
  <1>3. CASE n > 0
    <2> DEFINE y == b.data \o SubSeq(d, 1, n)
               k == Dropped(b, n)
               x == DropFirst(y, k)
    <2>0. BufWrite(b, w, d) = BufRec(x, b.total + n, b.sync, b.window, b.waiter, b.panic)
      BY <1>3, WriteRec
    <2> HIDE DEF n
    <2>1. SubSeq(d, 1, n) \in Seq(Byte) /\ Len(SubSeq(d, 1, n)) = n
      BY <1>1
    <2>2. y \in Seq(Byte) /\ Len(y) = Len(b.data) + n
      BY <1>2, <2>1
    <2>3. k \in Nat /\ k <= Len(b.data) + n /\ (b.sync => k = 0)
      BY <1>1, <1>2, <1>3 DEF Dropped, Greater
    <2> HIDE DEF y, k
    <2>4. x \in Seq(Byte) /\ Len(x) = Len(y) - k
      BY <2>2, <2>3, DropType
    <2> HIDE DEF x
    <2>5. b.total + n \in Int
      BY <1>1, BufFields
    <2>6. BufRec(x, b.total + n, b.sync, b.window, b.waiter, b.panic) \in Buffer
      BY <2>4, <2>5, BufFields, BufType
    <2>7. BufWrite(b, w, d).data = x /\ BufWrite(b, w, d).sync = b.sync
      BY <2>0 DEF BufRec
    <2>8. b.sync => Len(x) >= Len(b.data)
      BY <1>1, <1>2, <1>3, <2>2, <2>3, <2>4
    <2> QED BY <2>0, <2>6, <2>7, <2>8, Zenon
  <1>4. CASE ~(n > 0) /\ b.waiter = NoWriter
    <2>1. BufWrite(b, w, d) = [b EXCEPT !.waiter = w]
      BY <1>4, Zenon DEF BufWrite
    <2>2. /\ [b EXCEPT !.waiter = w] \in Buffer
          /\ [b EXCEPT !.waiter = w].data = b.data
          /\ [b EXCEPT !.waiter = w].sync = b.sync
      BY DEF Buffer
    <2> QED BY <1>2, <2>1, <2>2
  <1>5. CASE ~(n > 0) /\ b.waiter # NoWriter
    <2> DEFINE yes == TRUE
    <2>1. yes \in BOOLEAN
      OBVIOUS
    <2>2. BufWrite(b, w, d) = [b EXCEPT !.panic = yes]
      BY <1>5, Zenon DEF BufWrite
    <2> HIDE DEF yes
    <2>3. /\ [b EXCEPT !.panic = yes] \in Buffer
          /\ [b EXCEPT !.panic = yes].data = b.data
          /\ [b EXCEPT !.panic = yes].sync = b.sync
      BY <2>1 DEF Buffer
    <2> QED BY <1>2, <2>2, <2>3
  <1> QED BY <1>3, <1>4, <1>5

-----------------------------------------------------------------------------
(* The inductive invariant. *)

\* The type invariant, one conjunct for each group of variables that the
\* actions change together.
ReadLoopState == [pc : {"off", "read", "disk", "buf", "done"}, data : Seq(Byte), file : Nat]
DrainState    == [pc : {"none", "off", "snap", "check", "write", "update", "after"},
                  gen : Nat, data : Seq(Byte), n : Nat]
CallState     == [pc : {"idle", "consume", "window"}, id : Stream \union {NoStream},
                  rwnd : Nat, seq : Int, head : Int]

ProducedType == produced \in 0..MaxBytes
ReadType  == rl \in ReadLoopState
BufferType == cb \in Buffer
LinkType  == connected \in BOOLEAN /\ streamId \in Stream \union {NoStream}
AckType   == rwndSize \in Nat /\ sentNotAcked \in Nat /\ maxAcked \in Nat \X Nat
TermType  == /\ term \in {"none", "eof", "err"}
             /\ termSent \in BOOLEAN /\ termAcked \in BOOLEAN /\ eofPos \in Int
DiskType  == /\ diskFile \in Nat /\ diskStart \in Int /\ diskEnd \in Int /\ diskRead \in Int
             /\ content \in Seq(Byte)
GenType   == drainGen \in Nat
DrainType == drains \in [Stream -> DrainState]
SendType  == sndPc \in {"prep", "park", "send", "fail", "activate", "done"}
PktType   == pkt \in Packet \union {NoPacket}
CallType  == cc \in CallState

Types == /\ ProducedType /\ ReadType /\ BufferType /\ LinkType /\ AckType /\ TermType
         /\ DiskType /\ GenType /\ DrainType /\ SendType /\ PktType /\ CallType

\* A ClientConnected call that is in progress holds the lock of a manager
\* without a client; it consumes only when its client is past the buffer.
Locked ==
    /\ cc.pc # "idle" => ~connected /\ cc.id \in Stream
    /\ cc.pc = "consume" => cc.head < cc.seq

\* The file holds the positions from diskStart to diskEnd.
DiskShape ==
    diskFile # 0 => /\ diskStart <= diskRead /\ diskRead <= diskEnd
                    /\ Len(content) = diskEnd - diskStart

\* What a drain still carries of its block is the part of the file that
\* follows diskRead and the bytes it has written but not yet counted.
Carries(s) ==
    drains[s].pc \in {"check", "write", "update"} =>
        LET from == diskRead - diskStart + (IF drains[s].pc = "update" THEN drains[s].n ELSE 0)
            to   == from + Len(drains[s].data)
        IN  /\ to <= Len(content)
            /\ drains[s].data = SubSeq(content, from + 1, to)

\* A drain of the current generation belongs to the connection that is open.
DrainOwner ==
    \A s \in Stream :
        /\ drains[s].gen <= drainGen
        /\ Running(s) /\ Mine(s) =>
             connected /\ streamId = s /\ diskFile # 0 /\ Carries(s)

IInv == Types /\ Locked /\ FlowControl /\ DiskShape /\ DrainOwner

USE DEF readVars, ackVars, termVars, diskVars, drainVars

\* The parts of the type invariant add up to it.
LEMMA TypesTypeOK == Types => TypeOK
  BY Zenon DEF Types, TypeOK, ProducedType, ReadType, BufferType, LinkType, AckType,
     TermType, DiskType, GenType, DrainType, SendType, PktType, CallType,
     ReadLoopState, DrainState, CallState

\* The initial state satisfies the inductive invariant.
LEMMA InitIInv == Init => IInv
  <1> SUFFICES ASSUME Init PROVE IInv
    OBVIOUS
  <1>1. cb \in Buffer /\ cb.data = <<>>
    <2> DEFINE yes == TRUE
               no  == FALSE
    <2>1. yes \in BOOLEAN /\ no \in BOOLEAN
      OBVIOUS
    <2>2. cb = BufRec(<<>>, 0, yes, CirBufSize, NoWriter, no)
      BY Zenon DEF Init, MakeBuf, BufRec
    <2> HIDE DEF yes, no
    <2>3. BufRec(<<>>, 0, yes, CirBufSize, NoWriter, no) \in Buffer
      <3>1. <<>> \in Seq(Byte) /\ 0 \in Int /\ CirBufSize \in 0..CirBufSize
            /\ NoWriter \in Writer \union {NoWriter}
        OBVIOUS
      <3> QED BY <2>1, <3>1, BufType
    <2>4. cb.data = <<>>
      BY <2>2 DEF BufRec
    <2> QED BY <2>2, <2>3, <2>4
  <1>2. Types
    <2>1. ReadType /\ CallType
      BY DEF Init, ReadType, ReadLoopState, CallType, CallState, Idle
    <2>2. DrainType
      BY DEF Init, NoDrain, DrainType, DrainState
    <2>3. ProducedType /\ AckType /\ DiskType /\ GenType
      BY SizesAssumption DEF Init, ProducedType, AckType, DiskType, GenType
    <2>4. LinkType /\ SendType /\ PktType
      BY Zenon DEF Init, LinkType, SendType, PktType
    <2>5. TermType
      <3>1. -1 \in Int
        OBVIOUS
      <3> QED BY <3>1, Zenon DEF Init, TermType
    <2> QED BY <1>1, <2>1, <2>2, <2>3, <2>4, <2>5 DEF Types, BufferType
  <1>3. Locked
    BY DEF Init, Locked, Idle
  <1>4. FlowControl
    <2>1. Len(cb.data) = 0 /\ 0 <= Cwnd
      BY <1>1, SizesAssumption
    <2>2. ~connected /\ sentNotAcked = 0
      BY Zenon DEF Init
    <2> QED BY <2>1, <2>2 DEF FlowControl
  <1>5. DiskShape
    BY DEF Init, DiskShape
  <1>6. DrainOwner
    BY DEF Init, DrainOwner, NoDrain, Running
  <1> QED BY <1>2, <1>3, <1>4, <1>5, <1>6 DEF IInv

\* A conjunct of the invariant survives a step that leaves its variables alone.
LEMMA Frame ==
    ASSUME IInv
    PROVE  /\ produced' = produced => ProducedType'
           /\ rl' = rl => ReadType'
           /\ cb' = cb => BufferType'
           /\ UNCHANGED <<connected, streamId>> => LinkType'
           /\ UNCHANGED ackVars => AckType'
           /\ UNCHANGED termVars => TermType'
           /\ UNCHANGED diskVars => DiskType' /\ DiskShape'
           /\ drainGen' = drainGen => GenType'
           /\ drains' = drains => DrainType'
           /\ sndPc' \in {sndPc, Woken} => SendType'
           /\ pkt' = pkt => PktType'
           /\ cc' = cc => CallType'
           /\ UNCHANGED <<cc, connected>> => Locked'
           /\ UNCHANGED <<sentNotAcked, cb, connected, streamId>> => FlowControl'
           /\ UNCHANGED <<diskVars, drainVars, connected, streamId>> => DrainOwner'
  <1> USE DEF IInv, Types
  <1>1. /\ produced' = produced => ProducedType'
        /\ rl' = rl => ReadType'
        /\ cb' = cb => BufferType'
        /\ UNCHANGED <<connected, streamId>> => LinkType'
        /\ UNCHANGED ackVars => AckType'
        /\ UNCHANGED termVars => TermType'
    BY DEF ProducedType, ReadType, BufferType, LinkType, AckType, TermType
  <1>2. /\ UNCHANGED diskVars => DiskType' /\ DiskShape'
        /\ drainGen' = drainGen => GenType'
        /\ drains' = drains => DrainType'
        /\ pkt' = pkt => PktType'
        /\ cc' = cc => CallType'
    BY DEF DiskType, DiskShape, GenType, DrainType, PktType, CallType
  <1>3. sndPc' \in {sndPc, Woken} => SendType'
    BY DEF SendType, Woken
  <1>4. /\ UNCHANGED <<cc, connected>> => Locked'
        /\ UNCHANGED <<sentNotAcked, cb, connected, streamId>> => FlowControl'
    BY DEF Locked, FlowControl
  <1>5. UNCHANGED <<diskVars, drainVars, connected, streamId>> => DrainOwner'
    BY DEF DrainOwner, Running, Mine, Carries
  <1> QED BY <1>1, <1>2, <1>3, <1>4, <1>5

\* Giving the disk file up stops every drain that knows the old generation.
LEMMA GiveUp ==
    ASSUME IInv,
           diskFile' = 0, diskStart' = 0, diskEnd' = 0, diskRead' = 0, content' = <<>>,
           drainGen' = drainGen + 1,
           \A s \in Stream : drains'[s].gen = drains[s].gen
    PROVE  DiskType' /\ DiskShape' /\ GenType' /\ DrainOwner'
  <1>1. DiskType' /\ DiskShape' /\ GenType'
    BY DEF IInv, Types, DiskType, DiskShape, GenType
  <1>2. \A s \in Stream : drains[s].gen \in Nat /\ drains[s].gen <= drainGen
    BY DEF IInv, Types, DrainType, DrainState, DrainOwner
  <1>3. DrainOwner'
    BY <1>2 DEF IInv, Types, GenType, DrainOwner, Mine
  <1> QED BY <1>1, <1>3

\* So does losing the client.
LEMMA DisconnectStep == ASSUME IInv, Unlocked, Disconnect, SendType' PROVE IInv'
  <1> USE DEF IInv, Types
  <1>1. CASE connected
    <2>1. cb \in Buffer /\ CirBufSize \in Nat
      BY DEF BufferType
    <2>2. cb' \in Buffer /\ Len(cb'.data) \in Nat
      <3> DEFINE no == FALSE
      <3>1. no \in BOOLEAN
        OBVIOUS
      <3>2. cb' = BufSetWindow(cb, no, CirBufSize)
        BY <1>1, Zenon DEF Disconnect
      <3> HIDE DEF no
      <3> QED BY <2>1, <3>1, <3>2, WindowType, BufFields
    <2>3. ~connected' /\ sentNotAcked' = 0 /\ maxAcked' = <<0, 0>> /\ drainGen' = drainGen + 1
      BY <1>1, Zenon DEF Disconnect
    <2>4. LinkType' /\ AckType' /\ GenType'
      <3>1. LinkType'
        BY <2>3, Zenon DEF Disconnect, LinkType
      <3>2. <<0, 0>> \in Nat \X Nat /\ rwndSize' = rwndSize
        BY <1>1 DEF Disconnect
      <3> QED BY <2>3, <3>1, <3>2 DEF AckType, GenType
    <2>5. TermType'
      BY <1>1, Zenon DEF Disconnect, TermType
    <2>6. Locked'
      BY <2>3 DEF Disconnect, Unlocked, Locked
    <2>7. FlowControl'
      BY <2>2, <2>3, SizesAssumption DEF FlowControl
    <2>8. DrainOwner'
      <3>1. \A s \in Stream : drains[s].gen \in Nat /\ drains[s].gen <= drainGen
        BY DEF DrainType, DrainState, DrainOwner
      <3> QED BY <2>3, <3>1 DEF Disconnect, GenType, DrainOwner, Mine
    <2> QED BY <2>2, <2>4, <2>5, <2>6, <2>7, <2>8, Frame DEF Disconnect, BufferType
  <1>2. CASE ~connected
    <2>1. UNCHANGED <<connected, sentNotAcked, maxAcked, termSent, cb, drainGen>>
      BY <1>2, Zenon DEF Disconnect
    <2> QED BY <2>1, Frame DEF Disconnect
  <1> QED BY <1>1, <1>2

\* No drain owns a manager without a file, so a new file starts with none.
LEMMA ActivateStep == ASSUME IInv, Activate, SendType' PROVE IInv'
  <1> USE DEF IInv, Types
  <1>1. CASE UNCHANGED diskVars
    BY <1>1, Frame DEF Activate
  <1>2. CASE /\ diskFile = 0 /\ diskFile' = drainGen + 1
             /\ diskStart' = cb.total /\ diskEnd' = cb.total /\ diskRead' = cb.total
             /\ content' = <<>>
    <2>1. cb.total \in Int
      BY BufFields DEF BufferType
    <2>2. DiskType'
      BY <1>2, <2>1 DEF DiskType, GenType
    <2>3. DiskShape'
      BY <1>2, <2>1 DEF DiskShape
    <2>4. DrainOwner'
      BY <1>2 DEF Activate, DrainOwner, Running, Mine
    <2> QED BY <2>2, <2>3, <2>4, Frame DEF Activate
  <1> QED BY <1>1, <1>2, Zenon DEF Activate

-----------------------------------------------------------------------------
(* The read loop *)

\* The read loop keeps the invariant: it appends to the file or to the buffer.
LEMMA ReadLoopStep == ASSUME IInv, ReadLoop PROVE IInv'
  <1> USE DEF IInv, Types
  <1>1. ASSUME NEW n \in 1..MaxPacket, ReadData(n) PROVE IInv'
    <2> DEFINE d == [i \in 1..n |-> produced + i]
    <2>1. ProducedType' /\ n \in Nat
      BY <1>1, SizesAssumption DEF ReadData, ProducedType
    <2>2. \A i \in 1..n : produced + i \in Byte
      BY <1>1, <2>1, ByteAssumption, SizesAssumption DEF ReadData, ProducedType
    <2>3. d \in Seq(Byte)
      BY <2>1, <2>2
    <2>4. rl' = [pc |-> IF diskFile # 0 THEN "disk" ELSE "buf", data |-> d, file |-> diskFile]
      BY <1>1 DEF ReadData
    <2> HIDE DEF d
    <2>5. ReadType'
      BY <2>3, <2>4 DEF ReadType, ReadLoopState, DiskType
    <2> QED BY <1>1, <2>1, <2>5, Frame DEF ReadData
  <1>2. ASSUME StoreOnDisk PROVE IInv'
    <2>1. rl.data \in Seq(Byte) /\ Len(rl.data) \in Nat
      BY DEF ReadType, ReadLoopState
    <2>2. content \in Seq(Byte) /\ Len(content) \in Nat
      BY DEF DiskType
    <2>3. /\ content' \in Seq(Byte) /\ Len(content') = Len(content) + Len(rl.data)
          /\ \A i \in 1..Len(content) : content'[i] = content[i]
      BY <1>2, <2>1, <2>2 DEF StoreOnDisk
    <2>4. ReadType'
      BY <1>2 DEF StoreOnDisk, ReadType, ReadLoopState
    <2>5. DiskType' /\ DiskShape'
      <3>1. /\ diskEnd' = diskEnd + Len(rl.data)
            /\ diskFile' = diskFile /\ diskStart' = diskStart /\ diskRead' = diskRead
        BY <1>2 DEF StoreOnDisk
      <3> QED BY <2>1, <2>2, <2>3, <3>1 DEF DiskShape, DiskType
    <2>6. DrainOwner'
      <3> SUFFICES ASSUME NEW s \in Stream, Running(s), Mine(s) PROVE Carries(s)'
        BY <1>2 DEF StoreOnDisk, DrainOwner, Running, Mine
      <3> DEFINE from == diskRead - diskStart
                         + (IF drains[s].pc = "update" THEN drains[s].n ELSE 0)
                 to   == from + Len(drains[s].data)
      <3>1. /\ drains[s].data \in Seq(Byte) /\ Len(drains[s].data) \in Nat
            /\ drains[s].n \in Nat
        BY DEF DrainType, DrainState
      <3>2. diskFile # 0 /\ Carries(s)
        BY DEF DrainOwner
      <3>3. from \in Nat /\ to \in Nat
        <4>1. diskRead - diskStart \in Nat
          BY <3>2 DEF DiskShape, DiskType
        <4> QED BY <3>1, <4>1
      <3> SUFFICES ASSUME drains[s].pc \in {"check", "write", "update"}
                   PROVE  to <= Len(content') /\ drains[s].data = SubSeq(content', from + 1, to)
        BY <1>2 DEF StoreOnDisk, Carries
      <3>4. to <= Len(content) /\ drains[s].data = SubSeq(content, from + 1, to)
        BY <3>2 DEF Carries
      <3> HIDE DEF from, to
      <3>5. SubSeq(content', from + 1, to) = SubSeq(content, from + 1, to)
        BY <2>1, <2>2, <2>3, <3>3, <3>4
      <3> QED BY <2>1, <2>2, <2>3, <3>3, <3>4, <3>5
    <2> QED BY <1>2, <2>4, <2>5, <2>6, Frame DEF StoreOnDisk
  <1>3. ASSUME DiskWriteFails PROVE IInv'
    <2>1. ReadType'
      BY <1>3 DEF DiskWriteFails, ReadType, ReadLoopState
    <2>2. DiskType' /\ DiskShape' /\ GenType' /\ DrainOwner'
      BY <1>3, GiveUp DEF DiskWriteFails
    <2> QED BY <1>3, <2>1, <2>2, Frame DEF DiskWriteFails
  <1>4. ASSUME DiskFileChanged PROVE IInv'
    <2>1. ReadType'
      BY <1>4 DEF DiskFileChanged, ReadType, ReadLoopState
    <2> QED BY <1>4, <2>1, Frame DEF DiskFileChanged
  <1>5. ASSUME StoreInBuffer PROVE IInv'
    <2> DEFINE n == Writable(cb, rl.data)
    <2>1. cb \in Buffer /\ rl.data \in Seq(Byte) /\ Loop \in Writer
      BY WriterAssumption DEF BufferType, ReadType, ReadLoopState
    <2>2. n \in 0..Len(rl.data)
      BY <2>1, WritableType
    <2>3. /\ cb' \in Buffer /\ cb'.sync = cb.sync
          /\ cb.sync => Len(cb'.data) >= Len(cb.data)
      BY <1>5, <2>1, WriteType DEF StoreInBuffer
    <2> HIDE DEF n
    <2>4. ReadType'
      <3>1. DropFirst(rl.data, n) \in Seq(Byte)
        BY <2>1, <2>2, DropType
      <3>2. \/ rl' = [pc |-> "read", data |-> <<>>, file |-> 0]
            \/ rl' = [rl EXCEPT !.data = DropFirst(rl.data, n)]
        BY <1>5, Zenon DEF StoreInBuffer, n
      <3>3. [pc |-> "read", data |-> <<>>, file |-> 0] \in ReadLoopState
        BY DEF ReadLoopState
      <3>4. [rl EXCEPT !.data = DropFirst(rl.data, n)] \in ReadLoopState
        BY <3>1 DEF ReadType, ReadLoopState
      <3> QED BY <3>2, <3>3, <3>4 DEF ReadType
    <2>5. FlowControl'
      <3>1. /\ Len(cb.data) \in Nat /\ Len(cb'.data) \in Nat /\ cb.sync \in BOOLEAN
            /\ sentNotAcked \in Nat
        BY <2>1, <2>3, BufFields DEF AckType
      <3> QED BY <1>5, <2>3, <3>1 DEF StoreInBuffer, FlowControl
    <2> QED BY <1>5, <2>3, <2>4, <2>5, Frame DEF StoreInBuffer, BufferType
  <1>6. ASSUME NEW how \in Terminal, ReadEnds(how) PROVE IInv'
    <2>1. eofPos' \in Int
      BY <1>6, BufFields DEF ReadEnds, BufferType, DiskType, Greater
    <2>2. ReadType' /\ TermType'
      BY <1>6, <2>1, TerminalAssumption DEF ReadEnds, ReadType, ReadLoopState, TermType
    <2> QED BY <1>6, <2>2, Frame DEF ReadEnds, Signal
  <1> QED BY <1>1, <1>2, <1>3, <1>4, <1>5, <1>6 DEF ReadLoop

-----------------------------------------------------------------------------
(* The sender loop *)

\* What a peek past the bytes in flight returns: bytes of the buffer, as many
\* as the credit allows at most.
LEMMA NextBytesType ==
    ASSUME IInv, Credit > 0
    PROVE  /\ NextBytes \in Seq(Byte)
           /\ sentNotAcked + Len(NextBytes) <= Len(cb.data)
           /\ Len(NextBytes) <= Credit
  <1> DEFINE k  == Lesser(Credit, MaxPacket)
             to == Lesser(sentNotAcked + k, Len(cb.data))
  <1>1. /\ cb.data \in Seq(Byte) /\ Len(cb.data) \in Nat
        /\ sentNotAcked \in Nat /\ sentNotAcked <= Len(cb.data)
    BY BufFields DEF IInv, Types, BufferType, AckType, FlowControl
  <1>2. Credit \in Int /\ MaxPacket \in Nat \ {0}
    BY SizesAssumption DEF IInv, Types, AckType, Credit, EffectiveWindow, Lesser
  <1>3. k \in Nat /\ k <= Credit
    BY <1>2 DEF Lesser
  <1> HIDE DEF k
  <1>4. to \in Nat /\ sentNotAcked <= to /\ to <= Len(cb.data) /\ to <= sentNotAcked + k
    BY <1>1, <1>3 DEF Lesser
  <1>5. NextBytes = SubSeq(cb.data, sentNotAcked + 1, to)
    BY Zenon DEF NextBytes, BufPeek, k
  <1> HIDE DEF to
  <1>6. SubSeq(cb.data, sentNotAcked + 1, to) \in Seq(Byte)
        /\ Len(SubSeq(cb.data, sentNotAcked + 1, to)) = to - sentNotAcked
    BY <1>1, <1>4
  <1> QED BY <1>1, <1>2, <1>3, <1>4, <1>5, <1>6

\* The sender loop keeps the invariant: it sends within its credit.
LEMMA SenderStep == ASSUME IInv, SenderLoop \/ SendReturns \/ SendFails PROVE IInv'
  <1> USE DEF IInv, Types
  <1>1. CASE SenderStops
    <2>1. SendType'
      BY <1>1 DEF SenderStops, SendType
    <2> QED BY <1>1, <2>1, Frame DEF SenderStops
  <1>2. CASE SenderWaits
    <2>1. SendType'
      BY <1>2 DEF SenderWaits, SendType
    <2> QED BY <1>2, <2>1, Frame DEF SenderWaits
  <1>3. CASE PrepareBytes
    <2>1. connected /\ Credit > 0
      BY <1>3 DEF PrepareBytes, BytesDue
    <2>2. streamId \in Stream
      BY <2>1 DEF LinkType, FlowControl
    <2>3. /\ NextBytes \in Seq(Byte) /\ Len(NextBytes) \in Nat
          /\ sentNotAcked + Len(NextBytes) <= Len(cb.data)
          /\ Len(NextBytes) <= Credit
      BY <2>1, NextBytesType
    <2>4. HeadOf(cb) + sentNotAcked \in Int
      BY BufFields DEF HeadOf, BufferType, AckType
    <2>5. PktType' /\ SendType'
      BY <1>3, <2>2, <2>3, <2>4 DEF PrepareBytes, PktType, SendType, Packet
    <2>6. sentNotAcked' = sentNotAcked + Len(NextBytes)
      BY <1>3 DEF PrepareBytes
    <2>7. AckType'
      BY <1>3, <2>3, <2>6 DEF PrepareBytes, AckType
    <2>8. FlowControl'
      <3>1. Credit <= Cwnd - sentNotAcked
        BY SizesAssumption DEF Credit, EffectiveWindow, Lesser, AckType
      <3>2. Credit \in Int /\ sentNotAcked \in Nat /\ Cwnd \in Nat
        BY SizesAssumption DEF Credit, EffectiveWindow, Lesser, AckType
      <3>3. 0 <= sentNotAcked' /\ sentNotAcked' <= Len(cb.data) /\ sentNotAcked' <= Cwnd
        BY <2>3, <2>6, <3>1, <3>2
      <3> QED BY <1>3, <2>1, <3>3 DEF PrepareBytes, FlowControl
    <2> QED BY <1>3, <2>5, <2>7, <2>8, Frame DEF PrepareBytes
  <1>4. CASE PrepareTerminal
    <2>1. streamId \in Stream
      BY <1>4 DEF PrepareTerminal, LinkType, FlowControl
    <2>2. PktType' /\ SendType'
      BY <1>4, <2>1 DEF PrepareTerminal, PktType, SendType, Packet, TermType
    <2>3. TermType'
      BY <1>4, Zenon DEF PrepareTerminal, TermType
    <2> QED BY <1>4, <2>2, <2>3, Frame DEF PrepareTerminal
  <1>5. CASE SendReturns
    <2>1. PktType' /\ SendType'
      BY <1>5 DEF SendReturns, PktType, SendType
    <2> QED BY <1>5, <2>1, Frame DEF SendReturns
  <1>6. CASE SendFails
    <2>1. SendType'
      BY <1>6 DEF SendFails, SendType
    <2> QED BY <1>6, <2>1, Frame DEF SendFails
  <1>7. CASE FailureDisconnects
    <2>1. SendType'
      BY <1>7 DEF FailureDisconnects, SendType
    <2> QED BY <1>7, <2>1, DisconnectStep DEF FailureDisconnects
  <1>8. CASE FailureActivates
    <2>1. SendType'
      BY <1>8 DEF FailureActivates, SendType
    <2> QED BY <1>8, <2>1, ActivateStep DEF FailureActivates
  <1> QED BY <1>1, <1>2, <1>3, <1>4, <1>5, <1>6, <1>7, <1>8 DEF SenderLoop

-----------------------------------------------------------------------------
(* The drains *)

\* A drain that stops, looks again or goes on carries no more than before.
LEMMA DrainMoves ==
    ASSUME IInv, NEW s \in Stream, NEW from, NEW to, DrainStep(s, from, to),
           \/ from \in {"snap", "check", "after"} /\ to \in {"off", "snap", "after"}
           \/ from = "check" /\ to = "write",
           UNCHANGED <<diskVars, drainGen, connected, streamId>>
    PROVE  DrainType' /\ DrainOwner'
  <1> USE DEF IInv, Types
  <1>1. drains' = [drains EXCEPT ![s] = [drains[s] EXCEPT !.pc = to]] /\ drains[s].pc = from
    BY Zenon DEF DrainStep
  <1>2. drains[s] \in DrainState
    BY DEF DrainType
  <1>3. /\ [drains[s] EXCEPT !.pc = to] \in DrainState
        /\ [drains[s] EXCEPT !.pc = to].pc = to
        /\ [drains[s] EXCEPT !.pc = to].gen = drains[s].gen
        /\ [drains[s] EXCEPT !.pc = to].data = drains[s].data
    BY <1>2 DEF DrainState
  <1>4. DrainType'
    BY <1>1, <1>3 DEF DrainType
  <1>5. /\ \A t \in Stream : t # s => drains'[t] = drains[t]
        /\ drains'[s].pc = to /\ drains'[s].gen = drains[s].gen
        /\ drains'[s].data = drains[s].data
    BY <1>1, <1>3 DEF DrainType
  <1>6. DrainOwner'
    BY <1>1, <1>5 DEF DrainOwner, Running, Mine, Carries
  <1> QED BY <1>4, <1>6

\* Part of a part of a sequence.
LEMMA SubOfSub ==
    ASSUME NEW c \in Seq(Byte), NEW f \in Nat, NEW t \in Nat, f <= t, t <= Len(c),
           NEW n \in 0..(t - f)
    PROVE  /\ Len(SubSeq(c, f + 1, t)) = t - f
           /\ DropFirst(SubSeq(c, f + 1, t), n) = SubSeq(c, f + n + 1, t)
           /\ Len(DropFirst(SubSeq(c, f + 1, t), n)) = t - f - n
  <1>1. SubSeq(c, f + 1, t) \in Seq(Byte) /\ Len(SubSeq(c, f + 1, t)) = t - f
    OBVIOUS
  <1>2. Len(DropFirst(SubSeq(c, f + 1, t), n)) = t - f - n
    <2> DEFINE x == SubSeq(c, f + 1, t)
    <2>1. x \in Seq(Byte) /\ n \in Nat /\ n <= Len(x) /\ Len(x) = t - f
      BY <1>1
    <2> HIDE DEF x
    <2>2. Len(DropFirst(x, n)) = t - f - n
      BY <2>1, DropType
    <2> QED BY <2>2 DEF x
  <1>3. DropFirst(SubSeq(c, f + 1, t), n) = SubSeq(c, f + n + 1, t)
    BY <1>1 DEF DropFirst
  <1> QED BY <1>1, <1>2, <1>3

\* The drains keep the invariant: each counts what it wrote, and only the one
\* that owns the generation moves diskRead.
LEMMA DrainLoopStep == ASSUME IInv, NEW s \in Stream, Drain(s) PROVE IInv'
  <1> USE DEF IInv, Types
  <1>0. /\ drains[s] \in DrainState /\ drains[s].data \in Seq(Byte)
        /\ Len(drains[s].data) \in Nat /\ drains[s].n \in Nat
    BY DEF DrainType, DrainState
  <1>1. CASE DrainGivesUp(s)
    <2>1. DrainType' /\ DrainOwner'
      BY <1>1, DrainMoves DEF DrainGivesUp
    <2> QED BY <1>1, <2>1, Frame DEF DrainGivesUp
  <1>2. CASE DrainReads(s)
    <2>1. drains' = [drains EXCEPT ![s] = [[drains[s] EXCEPT !.pc = "check"] EXCEPT !.data = Block]]
      BY <1>2, <1>0 DEF DrainReads, DrainType, DrainState
    <2>2. diskRead - diskStart \in Nat /\ content \in Seq(Byte)
          /\ diskStart <= diskRead /\ diskRead < diskEnd /\ Len(content) = diskEnd - diskStart
      BY <1>2 DEF DrainReads, DiskShape, DiskType
    <2> DEFINE from == diskRead - diskStart
               to   == Lesser(diskEnd, diskRead + MaxPacket) - diskStart
    <2>3. to \in Nat /\ from < to /\ to <= Len(content)
      BY <2>2, SizesAssumption DEF Lesser, DiskType
    <2>4. Block = SubSeq(content, from + 1, to)
      BY Zenon DEF Block
    <2> HIDE DEF from, to
    <2>5. Block \in Seq(Byte) /\ Len(Block) = to - from
      BY <2>2, <2>3, <2>4 DEF from
    <2>6. /\ [[drains[s] EXCEPT !.pc = "check"] EXCEPT !.data = Block] \in DrainState
          /\ [[drains[s] EXCEPT !.pc = "check"] EXCEPT !.data = Block].pc = "check"
          /\ [[drains[s] EXCEPT !.pc = "check"] EXCEPT !.data = Block].data = Block
          /\ [[drains[s] EXCEPT !.pc = "check"] EXCEPT !.data = Block].gen = drains[s].gen
      BY <1>0, <2>5 DEF DrainState
    <2>7. /\ DrainType'
          /\ \A t \in Stream : t # s => drains'[t] = drains[t]
          /\ drains'[s].pc = "check" /\ drains'[s].data = Block
          /\ drains'[s].gen = drains[s].gen
      BY <2>1, <2>6 DEF DrainType
    <2>8. Carries(s)'
      <3>1. /\ diskRead' = diskRead /\ diskStart' = diskStart /\ content' = content
        BY <1>2 DEF DrainReads
      <3>2. from + Len(Block) = to /\ from + 0 = from
        BY <2>2, <2>3, <2>5 DEF from
      <3> QED BY <2>3, <2>4, <2>7, <3>1, <3>2 DEF Carries, from
    <2>9. DrainOwner'
      BY <1>2, <2>7, <2>8 DEF DrainReads, DrainOwner, Running, Mine, Carries
    <2> QED BY <1>2, <2>7, <2>9, Frame DEF DrainReads
  <1>3. CASE DrainChecks(s)
    <2>1. DrainType' /\ DrainOwner'
      BY <1>3, DrainMoves DEF DrainChecks
    <2> QED BY <1>3, <2>1, Frame DEF DrainChecks
  <1>4. CASE DrainCatchesUp(s)
    <2>1. DrainType' /\ DrainOwner'
      BY <1>4, DrainMoves DEF DrainCatchesUp
    <2> QED BY <1>4, <2>1, Frame DEF DrainCatchesUp
  <1>5. CASE DrainRepeats(s)
    <2>1. DrainType' /\ DrainOwner'
      BY <1>5, DrainMoves DEF DrainRepeats
    <2> QED BY <1>5, <2>1, Frame DEF DrainRepeats
  <1>6. CASE DrainEnds(s)
    <2>1. DrainStep(s, "after", "off")
      BY <1>6 DEF DrainEnds
    <2>2. CASE diskFile # 0
      <3>1. Deactivated(cb) /\ Signal
        BY <1>6, <2>2, Zenon DEF DrainEnds
      <3>2. /\ cb' \in Buffer /\ cb'.data = cb.data /\ cb'.sync = cb.sync
        BY <3>1, TotalType DEF Deactivated, BufferType, DiskType
      <3>3. DrainType' /\ \A t \in Stream : drains'[t].gen = drains[t].gen
        BY <2>1 DEF DrainStep, DrainType, DrainState
      <3>4. DiskType' /\ DiskShape' /\ GenType' /\ DrainOwner'
        BY <3>1, <3>3, GiveUp DEF Deactivated
      <3>5. FlowControl'
        BY <1>6, <3>2 DEF DrainEnds, FlowControl
      <3> QED BY <1>6, <3>1, <3>2, <3>3, <3>4, <3>5, Frame DEF DrainEnds, Signal, BufferType
    <2>3. CASE diskFile = 0
      <3>1. UNCHANGED <<cb, diskVars, drainGen, sndPc>>
        BY <1>6, <2>3, Zenon DEF DrainEnds
      <3>2. DrainType' /\ DrainOwner'
        BY <1>6, <2>1, <3>1, DrainMoves DEF DrainEnds
      <3> QED BY <1>6, <3>1, <3>2, Frame DEF DrainEnds
    <2> QED BY <2>2, <2>3
  <1>7. CASE DrainWrites(s)
    <2> DEFINE n == Writable(cb, drains[s].data)
               x == DropFirst(drains[s].data, n)
               p == IF n > 0 THEN "update" ELSE "check"
    <2>1. cb \in Buffer /\ s \in Writer
      BY WriterAssumption DEF BufferType
    <2>2. n \in 0..Len(drains[s].data)
      BY <1>0, <2>1, WritableType
    <2>3. /\ cb' \in Buffer /\ cb'.sync = cb.sync
          /\ cb.sync => Len(cb'.data) >= Len(cb.data)
      BY <1>0, <1>7, <2>1, WriteType DEF DrainWrites
    <2>4. drains' = [drains EXCEPT ![s].pc = p, ![s].data = x, ![s].n = n]
      BY <1>7, Zenon DEF DrainWrites
    <2>5. x \in Seq(Byte) /\ Len(x) = Len(drains[s].data) - n
      BY <1>0, <2>2, DropType
    <2>6. n \in Nat /\ p \in {"update", "check"} /\ (p = "update" <=> n > 0)
      BY <1>0, <2>2
    <2> HIDE DEF x, n, p
    <2>7. drains' = [drains EXCEPT ![s] =
                       [[[drains[s] EXCEPT !.pc = p] EXCEPT !.data = x] EXCEPT !.n = n]]
      BY <1>0, <2>4 DEF DrainType, DrainState
    <2> DEFINE r == [[[drains[s] EXCEPT !.pc = p] EXCEPT !.data = x] EXCEPT !.n = n]
    <2>8. /\ r \in DrainState /\ r.pc = p /\ r.data = x /\ r.n = n /\ r.gen = drains[s].gen
      BY <1>0, <2>5, <2>6 DEF DrainState
    <2> HIDE DEF r
    <2>9. /\ DrainType'
          /\ \A t \in Stream : t # s => drains'[t] = drains[t]
          /\ drains'[s] = r
      BY <2>7, <2>8 DEF DrainType, r
    <2>10. Running(s) /\ Mine(s) => Carries(s)'
      <3> SUFFICES ASSUME Running(s), Mine(s) PROVE Carries(s)'
        OBVIOUS
      <3> DEFINE from == diskRead - diskStart
                 to   == from + Len(drains[s].data)
      <3>1. drains[s].pc = "write" /\ diskRead' = diskRead /\ diskStart' = diskStart
            /\ content' = content
        BY <1>7 DEF DrainWrites
      <3>2. Carries(s) /\ diskFile # 0
        BY DEF DrainOwner
      <3>3. from \in Nat /\ content \in Seq(Byte)
        BY <3>2 DEF DiskShape, DiskType
      <3>4. from + 0 = from
        BY <3>3
      <3> HIDE DEF from
      <3>5. to \in Nat /\ from <= to
        BY <1>0, <3>3
      <3>6. to <= Len(content) /\ drains[s].data = SubSeq(content, from + 1, to)
        BY <3>1, <3>2, <3>4 DEF Carries, from
      <3>7. n \in 0..(to - from)
        BY <1>0, <2>2, <3>3 DEF n
      <3> HIDE DEF to
      <3>8. x = SubSeq(content, from + n + 1, to) /\ Len(x) = to - from - n
        BY <3>3, <3>5, <3>6, <3>7, SubOfSub DEF x
      <3>9. from + n + Len(x) = to
        BY <2>6, <3>3, <3>5, <3>8
      <3>10. CASE p = "update"
        BY <2>8, <2>9, <3>1, <3>6, <3>8, <3>9, <3>10 DEF Carries, from
      <3>11. CASE p = "check"
        <4>1. n = 0 /\ from + n = from
          BY <2>6, <3>3, <3>11
        <4> QED BY <2>8, <2>9, <3>1, <3>4, <3>6, <3>8, <3>9, <3>11, <4>1 DEF Carries, from
      <3> QED BY <2>6, <3>10, <3>11
    <2>11. DrainOwner'
      <3>1. drains[s].pc = "write" /\ UNCHANGED <<diskVars, drainGen, connected, streamId>>
        BY <1>7 DEF DrainWrites
      <3> SUFFICES ASSUME NEW t \in Stream
                   PROVE  /\ drains'[t].gen <= drainGen
                          /\ Running(t)' /\ Mine(t)' =>
                               connected /\ streamId = t /\ diskFile # 0 /\ Carries(t)'
        BY <3>1 DEF DrainOwner
      <3>2. CASE t # s
        BY <2>9, <3>1, <3>2 DEF DrainOwner, Running, Mine, Carries
      <3>3. CASE t = s
        <4>1. drains[s].gen <= drainGen /\ Running(s) /\ (Mine(s)' <=> Mine(s))
          BY <2>8, <2>9, <3>1 DEF DrainOwner, Running, Mine
        <4> QED BY <2>8, <2>9, <2>10, <3>3, <4>1 DEF DrainOwner
      <3> QED BY <3>2, <3>3
    <2>12. FlowControl'
      <3>1. /\ Len(cb.data) \in Nat /\ Len(cb'.data) \in Nat /\ cb.sync \in BOOLEAN
            /\ sentNotAcked \in Nat
        BY <2>1, <2>3, BufFields DEF AckType
      <3> QED BY <1>7, <2>3, <3>1 DEF DrainWrites, FlowControl
    <2> QED BY <1>7, <2>3, <2>9, <2>11, <2>12, Frame DEF DrainWrites, BufferType
  <1>8. CASE DrainUpdates(s)
    <2> DEFINE to == IF drains[s].data = <<>> THEN "after" ELSE "check"
    <2>1. DrainStep(s, "update", to)
      BY <1>8 DEF DrainUpdates
    <2>2. to \in {"after", "check"}
      OBVIOUS
    <2> HIDE DEF to
    <2>3. /\ DrainType'
          /\ \A t \in Stream : t # s => drains'[t] = drains[t]
          /\ drains[s].pc = "update" /\ drains'[s].pc = to
          /\ drains'[s].gen = drains[s].gen /\ drains'[s].data = drains[s].data
      BY <1>0, <2>1, <2>2 DEF DrainStep, DrainType, DrainState
    <2>4. CASE Mine(s)
      <3>1. diskRead' = diskRead + drains[s].n
        BY <1>8, <2>4 DEF DrainUpdates
      <3>2. diskFile # 0 /\ streamId = s /\ Carries(s)
        BY <2>3, <2>4 DEF DrainOwner, Running
      <3> DEFINE from == diskRead - diskStart + drains[s].n
      <3>3. /\ from + Len(drains[s].data) <= Len(content)
            /\ drains[s].data = SubSeq(content, from + 1, from + Len(drains[s].data))
        BY <2>3, <3>2 DEF Carries
      <3>4. DiskType' /\ DiskShape' /\ diskRead' - diskStart = from
        <4>1. UNCHANGED <<diskFile, diskStart, diskEnd, content>>
          BY <1>8 DEF DrainUpdates
        <4>2. /\ diskStart \in Int /\ diskEnd \in Int /\ diskRead \in Int
              /\ diskStart <= diskRead /\ Len(content) = diskEnd - diskStart
          BY <3>2 DEF DiskType, DiskShape
        <4>3. diskRead' \in Int /\ diskStart <= diskRead' /\ diskRead' <= diskEnd
              /\ diskRead' - diskStart = from
          <5> DEFINE len  == Len(drains[s].data)
                     left == Len(content)
          <5>1. from + len <= left /\ len \in Nat /\ left = diskEnd - diskStart
            BY <1>0, <3>3, <4>2
          <5> HIDE DEF len, left
          <5>2. drains[s].n \in Nat /\ diskRead' = diskRead + drains[s].n
            BY <1>0, <3>1
          <5>3. diskRead' \in Int /\ diskStart <= diskRead'
            BY <4>2, <5>2
          <5>4. diskRead' - diskStart = from
            BY <4>2, <5>2
          <5>5. diskRead' <= diskEnd
            BY <4>2, <5>1, <5>2
          <5> QED BY <5>3, <5>4, <5>5
        <4> QED BY <4>1, <4>2, <4>3 DEF DiskType, DiskShape
      <3> HIDE DEF from
      <3>5. Carries(s)'
        <4>1. diskRead' - diskStart' + 0 = from /\ content' = content
          BY <1>0, <1>8, <3>4 DEF DrainUpdates, DiskType
        <4> QED BY <2>2, <2>3, <3>3, <4>1 DEF Carries
      <3>6. DrainOwner'
        BY <1>8, <2>2, <2>3, <2>4, <3>2, <3>5 DEF DrainUpdates, DrainOwner, Running, Mine
      <3> QED BY <1>8, <2>3, <3>4, <3>6, Frame DEF DrainUpdates, Signal
    <2>5. CASE ~Mine(s)
      <3>1. diskRead' = diskRead
        BY <1>8, <2>5 DEF DrainUpdates
      <3>2. DrainOwner'
        BY <1>8, <2>3, <2>5, <3>1 DEF DrainUpdates, DrainOwner, Running, Mine, Carries
      <3> QED BY <1>8, <2>3, <3>1, <3>2, Frame DEF DrainUpdates, Signal
    <2> QED BY <2>4, <2>5
  <1> QED BY <1>1, <1>2, <1>3, <1>4, <1>5, <1>6, <1>7, <1>8 DEF Drain

-----------------------------------------------------------------------------
(* The client's calls *)

\* The effective window is a size, the congestion window at most.
LEMMA WindowBound ==
    ASSUME NEW rwnd \in Nat
    PROVE  EffectiveWindow(rwnd) \in Nat /\ EffectiveWindow(rwnd) <= Cwnd
  BY SizesAssumption DEF EffectiveWindow, Lesser

\* A synchronous window keeps the bytes in flight in the buffer.
LEMMA SyncWindow ==
    ASSUME NEW b \in Buffer, NEW rwnd \in Nat, cb' = BufSetWindow(b, TRUE, EffectiveWindow(rwnd))
    PROVE  BufferType' /\ cb'.sync /\ Len(cb'.data) = Len(b.data)
  <1> DEFINE yes == TRUE
             w   == EffectiveWindow(rwnd)
  <1>1. yes \in BOOLEAN /\ yes /\ w \in Nat
    BY WindowBound
  <1>2. cb' = BufSetWindow(b, yes, w)
    BY Zenon
  <1> HIDE DEF yes, w
  <1>3. /\ BufSetWindow(b, yes, w) \in Buffer
        /\ BufSetWindow(b, yes, w).sync = yes
        /\ Len(BufSetWindow(b, yes, w).data) = Len(b.data)
    BY <1>1, WindowType
  <1> QED BY <1>1, <1>2, <1>3, Zenon DEF BufferType

\* The first step of ClientConnected keeps the invariant.
LEMMA ConnectBeginsStep ==
    ASSUME IInv, NEW s \in Stream, NEW rwnd \in Nat, NEW seq \in Nat,
           ConnectBegins(s, rwnd, seq)
    PROVE  IInv'
  <1> USE DEF IInv, Types
  <1> DEFINE at == Lesser(seq, Greater(cb.total, diskEnd))
             p  == IF at > HeadOf(cb) THEN "consume" ELSE "window"
  <1>1. HeadOf(cb) \in Int /\ cb.total \in Int
    BY BufFields DEF HeadOf, BufferType
  <1>2. at \in Int /\ rwnd \in Nat
    BY <1>1, SizesAssumption DEF Lesser, Greater, DiskType
  <1>3. cc' = [pc |-> p, id |-> s, rwnd |-> rwnd, seq |-> at, head |-> HeadOf(cb)]
    BY Zenon DEF ConnectBegins
  <1>4. p \in {"consume", "window"} /\ (p = "consume" => HeadOf(cb) < at)
    BY <1>1, <1>2
  <1> HIDE DEF at, p
  <1>5. CallType'
    BY <1>1, <1>2, <1>3, <1>4 DEF CallType, CallState
  <1>6. Locked'
    BY <1>3, <1>4 DEF ConnectBegins, Locked
  <1> QED BY <1>5, <1>6, Frame DEF ConnectBegins

\* So does the second.
LEMMA ConnectConsumesStep == ASSUME IInv, ConnectConsumes PROVE IInv'
  <1> USE DEF IInv, Types
  <1> DEFINE n == cc.seq - cc.head
             k == Len(cb.data)
  <1>1. /\ cb \in Buffer /\ k \in Nat /\ n \in Nat /\ cc.seq \in Int
        /\ ~connected /\ cc.id \in Stream /\ cc \in CallState
    BY BufFields DEF ConnectConsumes, BufferType, Locked, CallType, CallState
  <1>2. cb' \in Buffer
    <2>1. CASE n > k
      <3>1. /\ BufSetTotal(cb, cc.seq) \in Buffer
            /\ BufSetTotal(cb, cc.seq).data = cb.data
        BY <1>1, TotalType
      <3>2. cb' = BufConsume(BufSetTotal(cb, cc.seq), k)
        BY <2>1, Zenon DEF ConnectConsumes
      <3> QED BY <1>1, <3>1, <3>2, ConsumeType
    <2>2. CASE ~(n > k)
      <3>1. cb' = BufConsume(cb, n)
        BY <2>2, Zenon DEF ConnectConsumes
      <3>2. n <= Len(cb.data)
        BY <1>1, <2>2
      <3> HIDE DEF n
      <3> QED BY <1>1, <3>1, <3>2, ConsumeType
    <2> QED BY <2>1, <2>2
  <1>3. HeadOf(cb') \in Int /\ Len(cb'.data) \in Nat
    BY <1>2, BufFields DEF HeadOf
  <1> DEFINE h == HeadOf(cb')
  <1>4. cc' = [cc EXCEPT !.pc = "window", !.head = h]
    BY Zenon DEF ConnectConsumes
  <1> HIDE DEF h
  <1>5. cc' = [[cc EXCEPT !.pc = "window"] EXCEPT !.head = h]
    BY <1>1, <1>4 DEF CallState
  <1>6. CallType' /\ cc'.pc = "window" /\ cc'.id = cc.id
    BY <1>1, <1>3, <1>5 DEF CallType, CallState, h
  <1>7. Locked'
    BY <1>1, <1>6 DEF ConnectConsumes, Locked
  <1>8. FlowControl'
    BY <1>1, <1>3, SizesAssumption DEF ConnectConsumes, FlowControl, AckType
  <1> QED BY <1>2, <1>6, <1>7, <1>8, Frame DEF ConnectConsumes, BufferType

\* And the third, which starts a drain or gives the disk file up.
LEMMA ConnectEndsStep == ASSUME IInv, ConnectEnds PROVE IInv'
  <1> USE DEF IInv, Types
  <1> DEFINE b == BufSetWindow(cb, TRUE, EffectiveWindow(cc.rwnd))
  <1>1. /\ cb \in Buffer /\ cc.rwnd \in Nat /\ cc.seq \in Int /\ cc.id \in Stream
        /\ cc.id # NoStream
    BY WriterAssumption DEF ConnectEnds, BufferType, Locked, CallType, CallState
  <1>2. b \in Buffer /\ b.sync /\ Len(b.data) \in Nat
    <2> DEFINE yes == TRUE
               w   == EffectiveWindow(cc.rwnd)
    <2>1. yes \in BOOLEAN /\ yes /\ w \in Nat
      BY <1>1, WindowBound
    <2> HIDE DEF yes, w
    <2>2. /\ BufSetWindow(cb, yes, w) \in Buffer /\ BufSetWindow(cb, yes, w).sync
      BY <1>1, <2>1, WindowType
    <2>3. b = BufSetWindow(cb, yes, w)
      BY Zenon DEF yes, w
    <2> HIDE DEF b
    <2> QED BY <2>2, <2>3, BufFields
  <1>3. connected' /\ streamId' = cc.id /\ sentNotAcked' = 0 /\ rwndSize' = cc.rwnd
    BY Zenon DEF ConnectEnds
  <1>4. LinkType'
    BY <1>1, Zenon DEF ConnectEnds, LinkType
  <1>5. AckType'
    BY <1>1, <1>3 DEF ConnectEnds, AckType
  <1>6. CallType' /\ Locked'
    BY DEF ConnectEnds, CallType, CallState, Locked, Idle
  <1>7. \/ cb' = b
        \/ cb' = BufSetTotal(b, diskEnd)
    BY Zenon DEF ConnectEnds, Deactivated
  <1> HIDE DEF b
  <1>8. cb' \in Buffer /\ cb'.sync /\ Len(cb'.data) \in Nat
    BY <1>2, <1>7, TotalType DEF DiskType
  <1>9. FlowControl'
    BY <1>1, <1>3, <1>8, SizesAssumption DEF FlowControl
  <1>10. drains \in [Stream -> DrainState] /\ drains[cc.id] \in DrainState
    BY <1>1 DEF DrainType
  <1>11. CASE diskFile # 0 /\ cc.seq < diskEnd
    <2> DEFINE r == [NoDrain EXCEPT !.pc = "snap", !.gen = drainGen + 1]
    <2>1. /\ diskRead' = Greater(Greater(diskRead, diskStart), cc.seq)
          /\ drainGen' = drainGen + 1
          /\ drains' = [drains EXCEPT ![cc.id] = r]
          /\ UNCHANGED <<diskFile, diskStart, diskEnd, content>>
      <3>1. ~(diskFile = 0) /\ ~(cc.seq >= diskEnd)
        BY <1>1, <1>11 DEF DiskType
      <3> QED BY <3>1, Zenon DEF ConnectEnds
    <2>2. r \in DrainState /\ r.pc = "snap" /\ r.gen = drainGen + 1
      <3> DEFINE g == drainGen + 1
                 q == [pc |-> "snap", gen |-> 0, data |-> <<>>, n |-> 0]
      <3>1. r = [pc |-> "snap", gen |-> drainGen + 1, data |-> <<>>, n |-> 0]
        <4>1. r = [NoDrain EXCEPT !.pc = "snap", !.gen = g]
          BY Zenon
        <4> HIDE DEF g
        <4>2. [NoDrain EXCEPT !.pc = "snap", !.gen = g]
              = [[NoDrain EXCEPT !.pc = "snap"] EXCEPT !.gen = g]
          BY DEF NoDrain
        <4>3. [NoDrain EXCEPT !.pc = "snap"] = q
          BY DEF NoDrain
        <4>4. [q EXCEPT !.gen = g] = [pc |-> "snap", gen |-> g, data |-> <<>>, n |-> 0]
          OBVIOUS
        <4> QED BY <4>1, <4>2, <4>3, <4>4, Zenon DEF g
      <3> HIDE DEF r
      <3> QED BY <3>1 DEF DrainState, GenType
    <2> HIDE DEF r
    <2>3. DiskType' /\ DiskShape'
      BY <1>1, <1>11, <2>1 DEF DiskType, DiskShape, Greater
    <2>4. GenType' /\ DrainType'
      BY <1>1, <2>1, <2>2 DEF GenType, DrainType
    <2>5. DrainOwner'
      <3>1. \A s \in Stream : drains[s].gen \in Nat /\ drains[s].gen <= drainGen
        BY DEF DrainType, DrainState, DrainOwner
      <3>2. \A s \in Stream : s # cc.id => drains'[s] = drains[s]
        BY <2>1, <1>10
      <3>3. drains'[cc.id].pc = "snap" /\ drains'[cc.id].gen = drainGen + 1
        BY <1>1, <1>10, <2>1, <2>2
      <3> QED BY <1>3, <1>11, <2>1, <3>1, <3>2, <3>3
              DEF GenType, DrainOwner, Mine, Running, Carries
    <2> QED BY <1>4, <1>5, <1>6, <1>8, <1>9, <2>3, <2>4, <2>5, Frame
            DEF ConnectEnds, Signal, BufferType
  <1>12. CASE ~(diskFile # 0 /\ cc.seq < diskEnd)
    <2>1. drains' = [drains EXCEPT ![cc.id] = [drains[cc.id] EXCEPT !.pc = "off"]]
      BY <1>12, Zenon DEF ConnectEnds
    <2>2. /\ [drains[cc.id] EXCEPT !.pc = "off"] \in DrainState
          /\ [drains[cc.id] EXCEPT !.pc = "off"].pc = "off"
          /\ [drains[cc.id] EXCEPT !.pc = "off"].gen = drains[cc.id].gen
      BY <1>10 DEF DrainState
    <2>3. /\ DrainType'
          /\ \A s \in Stream : drains'[s].gen = drains[s].gen
          /\ \A s \in Stream : s # cc.id => drains'[s] = drains[s]
          /\ drains'[cc.id].pc = "off"
      BY <1>1, <1>10, <2>1, <2>2 DEF DrainType
    <2>4. CASE diskFile # 0
      <3>1. Deactivated(b)
        BY <1>12, <2>4, Zenon DEF ConnectEnds, b
      <3>2. DiskType' /\ DiskShape' /\ GenType' /\ DrainOwner'
        BY <2>3, <3>1, GiveUp DEF Deactivated
      <3> QED BY <1>4, <1>5, <1>6, <1>8, <1>9, <2>3, <3>2, Frame
              DEF ConnectEnds, Signal, BufferType
    <2>5. CASE diskFile = 0
      <3>1. UNCHANGED <<diskVars, drainGen>>
        BY <2>5, Zenon DEF ConnectEnds
      <3>2. DrainOwner'
        BY <2>3, <2>5, <3>1 DEF DrainOwner, Mine, Running
      <3> QED BY <1>4, <1>5, <1>6, <1>8, <1>9, <2>3, <3>1, <3>2, Frame
              DEF ConnectEnds, Signal, BufferType
    <2> QED BY <2>4, <2>5
  <1> QED BY <1>11, <1>12

\* An acknowledgement keeps the invariant: it consumes bytes that were sent.
LEMMA RecvAckStep ==
    ASSUME IInv, NEW a, a.seq \in Nat, a.rwnd \in Nat, RecvAck(a)
    PROVE  IInv'
  <1> USE DEF IInv, Types
  <1>1. a.seq \in Nat /\ a.rwnd \in Nat
    OBVIOUS
  <1>2. CASE RecvFin(a)
    <2>1. TermType'
      BY <1>2, Zenon DEF RecvAck, RecvFin, TermType
    <2> QED BY <1>2, <2>1, Frame DEF RecvAck, RecvFin, Signal
  <1>3. CASE RecvIgnored(a)
    BY <1>3, Frame DEF RecvAck, RecvIgnored
  <1>4. CASE RecvFresh(a)
    <2>1. maxAcked' \in Nat \X Nat
      BY <1>1, <1>4 DEF RecvFresh
    <2>2. TermType'
      BY <1>4, Zenon DEF RecvAck, RecvFresh, TermType
    <2>3. connected
      BY <1>4 DEF RecvFresh, Expected
    <2>4. CASE Acknowledges(a)
      <3> DEFINE acked == a.seq - HeadOf(cb)
                 b     == IF acked > 0 THEN BufConsume(cb, acked) ELSE cb
      <3>1. /\ cb' = BufSetWindow(b, TRUE, EffectiveWindow(a.rwnd))
            /\ sentNotAcked' = sentNotAcked - acked
            /\ rwndSize' = a.rwnd
            /\ sndPc' \in {sndPc, Woken}
        BY <1>4, <2>4, Zenon DEF RecvFresh
      <3>2. /\ cb \in Buffer /\ HeadOf(cb) \in Int /\ Len(cb.data) \in Nat
            /\ sentNotAcked \in Nat
        BY BufFields DEF BufferType, HeadOf, AckType
      <3>3. acked \in Nat /\ acked <= sentNotAcked /\ acked <= Len(cb.data)
        BY <1>1, <2>4, <3>2 DEF Acknowledges, CanConsume
      <3> HIDE DEF acked
      <3>4. b \in Buffer /\ Len(b.data) = Len(cb.data) - acked
        <4>1. CASE acked > 0
          BY <3>2, <3>3, <4>1, ConsumeType
        <4>2. CASE ~(acked > 0)
          <5>1. acked = 0
            BY <3>3, <4>2
          <5> QED BY <3>2, <4>2, <5>1
        <4> QED BY <4>1, <4>2
      <3> HIDE DEF b
      <3>5. BufferType' /\ cb'.sync /\ Len(cb'.data) = Len(b.data)
        BY <1>1, <3>1, <3>4, SyncWindow
      <3>6. AckType'
        BY <1>1, <2>1, <3>1, <3>2, <3>3 DEF AckType
      <3>7. FlowControl'
        <4>1. /\ 0 <= sentNotAcked' /\ sentNotAcked' <= Len(cb'.data)
              /\ sentNotAcked' <= Cwnd
          <5>1. Cwnd \in Nat /\ sentNotAcked <= Len(cb.data) /\ sentNotAcked <= Cwnd
            BY SizesAssumption DEF FlowControl
          <5>2. sentNotAcked' = sentNotAcked - acked /\ Len(cb'.data) = Len(cb.data) - acked
            BY <3>1, <3>4, <3>5
          <5> QED BY <3>2, <3>3, <5>1, <5>2
        <4>2. connected' = connected /\ streamId' = streamId
          BY DEF RecvAck
        <4> QED BY <2>3, <3>5, <4>1, <4>2 DEF FlowControl
      <3> QED BY <2>2, <3>1, <3>5, <3>6, <3>7, Frame DEF RecvAck
    <2>5. CASE ~Acknowledges(a)
      <3>1. UNCHANGED <<cb, sentNotAcked, rwndSize, sndPc>>
        BY <1>4, <2>5, Zenon DEF RecvFresh
      <3>2. AckType'
        BY <2>1, <3>1 DEF AckType
      <3> QED BY <2>2, <3>1, <3>2, Frame DEF RecvAck
    <2> QED BY <2>4, <2>5
  <1> QED BY <1>2, <1>3, <1>4, Zenon DEF RecvAck

\* A new receive window keeps the invariant.
LEMMA SetRwndSizeStep == ASSUME IInv, NEW rwnd \in Nat, SetRwndSize(rwnd) PROVE IInv'
  <1> USE DEF IInv, Types
  <1>1. cb \in Buffer
    BY DEF BufferType
  <1>2. BufferType' /\ cb'.sync /\ Len(cb'.data) = Len(cb.data)
    BY <1>1, SyncWindow DEF SetRwndSize
  <1>3. AckType' /\ sndPc' = Woken
    BY DEF SetRwndSize, AckType, Signal
  <1>4. FlowControl'
    BY <1>2 DEF SetRwndSize, FlowControl
  <1> QED BY <1>2, <1>3, <1>4, Frame DEF SetRwndSize

\* So does the pty reader that is attached.
LEMMA AttachStep == ASSUME IInv, AttachReader PROVE IInv'
  <1> USE DEF IInv, Types
  <1>1. ReadType'
    BY DEF AttachReader, ReadType, ReadLoopState
  <1> QED BY <1>1, Frame DEF AttachReader

\* So do the loss of the client, and the disk file that follows it.
LEMMA OfflineStep ==
    ASSUME IInv, ClientDisconnected \/ ActivateDiskBuffering
    PROVE  IInv'
  <1>1. SendType
    BY DEF IInv, Types
  <1>2. CASE ClientDisconnected
    <2>1. sndPc' \in {sndPc, Woken}
      BY <1>2, Zenon DEF ClientDisconnected
    <2> QED BY <1>2, <2>1, Frame, DisconnectStep DEF ClientDisconnected
  <1>3. CASE ActivateDiskBuffering
    BY <1>3, Frame, ActivateStep DEF ActivateDiskBuffering
  <1> QED BY <1>2, <1>3

\* Every call of the client keeps the invariant.
LEMMA ClientStep == ASSUME IInv, Client PROVE IInv'
  <1>1. Cwnd \in Nat /\ MaxSeq \in Nat
    BY SizesAssumption
  <1>2. ASSUME NEW a \in Ack, RecvAck(a) PROVE IInv'
    <2>1. a.seq \in Nat /\ a.rwnd \in Nat
      BY <1>1 DEF Ack
    <2> QED BY <1>2, <2>1, RecvAckStep
  <1>3. ASSUME NEW rwnd \in 0..Cwnd, SetRwndSize(rwnd) PROVE IInv'
    BY <1>1, <1>3, SetRwndSizeStep
  <1>4. ASSUME NEW s \in Stream, NEW rwnd \in 0..Cwnd, NEW seq \in 0..MaxSeq,
               ConnectBegins(s, rwnd, seq)
        PROVE  IInv'
    BY <1>1, <1>4, ConnectBeginsStep
  <1> QED BY <1>2, <1>3, <1>4, AttachStep, OfflineStep, ConnectConsumesStep,
             ConnectEndsStep, Zenon DEF Client

-----------------------------------------------------------------------------
(* The theorems *)

\* So does a step of something else.
LEMMA OtherStep == ASSUME IInv, UNCHANGED vars PROVE IInv'
  BY Frame DEF vars, IInv, Types

\* The invariant is inductive.
LEMMA NextIInv == IInv /\ [Next]_vars => IInv'
  <1> SUFFICES ASSUME IInv, [Next]_vars PROVE IInv'
    OBVIOUS
  <1>1. CASE UNCHANGED vars
    BY <1>1, OtherStep
  <1>2. CASE Next
    BY <1>2, ReadLoopStep, SenderStep, DrainLoopStep, ClientStep DEF Next
  <1> QED BY <1>1, <1>2

\* Every variable of the stream manager keeps its type.
THEOREM TypeCorrect == Spec => []TypeOK
  <1>1. IInv => TypeOK
    BY TypesTypeOK DEF IInv
  <1> QED BY <1>1, InitIInv, NextIInv, PTL DEF Spec

\* Flow control, for every window, buffer size and set of connections: the
\* bytes in flight stay in the buffer and within the congestion window.
THEOREM FlowControlCorrect == Spec => []FlowControl
  <1>1. IInv => FlowControl
    BY DEF IInv
  <1> QED BY <1>1, InitIInv, NextIInv, PTL DEF Spec

\* The inductive invariant says of the disk file and its drain what DiskInv says.
LEMMA InvDisk == IInv => DiskInv
  <1> SUFFICES ASSUME IInv PROVE DiskInv
    OBVIOUS
  <1>1. DiskShape /\ DrainOwner
    BY DEF IInv
  <1>2. \A s, t \in Stream : Running(s) /\ Mine(s) /\ Running(t) /\ Mine(t) => s = t
    BY <1>1 DEF DrainOwner
  <1>3. ASSUME NEW s \in Stream, Running(s), Mine(s), drains[s].pc \in {"check", "write"}
        PROVE  LET from == diskRead - diskStart
                   to   == from + Len(drains[s].data)
               IN  /\ to <= Len(content)
                   /\ drains[s].data = SubSeq(content, from + 1, to)
    <2>1. Carries(s) /\ diskRead - diskStart + 0 = diskRead - diskStart
      BY <1>1, <1>3 DEF DrainOwner, IInv, Types, DiskType
    <2> QED BY <1>3, <2>1 DEF Carries
  <1> QED BY <1>1, <1>2, <1>3 DEF DiskInv, DiskShape, DrainOwner

\* The disk file holds the positions it says, and a drain of the current
\* generation is the only one and carries the block that diskRead points at.
THEOREM DiskCorrect == Spec => []DiskInv
  <1> QED BY InvDisk, InitIInv, NextIInv, PTL DEF Spec
=============================================================================

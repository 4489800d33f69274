------------------------------ MODULE CalmProofs ------------------------------
(***************************************************************************)
(* The durable terminal when none of the four windows of DurableStream is  *)
(* hit, for every window, packet, buffer and number of connections, faults *)
(* and bytes: the buffer and the disk file meet, no second writer waits,   *)
(* the job manager discards no byte that the main server lacks, and the    *)
(* reader is never sent more than it has room for.                         *)
(*                                                                         *)
(* MInv is what the stream manager keeps by itself: which of its two       *)
(* stores the read loop writes to, and how a drain and a ClientConnected   *)
(* call find the seam between them.  WInv is what the two ends keep        *)
(* together: nothing between them reaches past the reader's room.          *)
(***************************************************************************)
EXTENDS DurableProofs

USE CirBufSizeAssumption, NoWriterAssumption
USE DEF readVars, ackVars, termVars, diskVars, drainVars, netVars, clientVars

-----------------------------------------------------------------------------
(* The stream manager's part *)

\* Without a disk file its positions are 0.
NoFile == diskFile = 0 => diskStart = 0 /\ diskEnd = 0 /\ diskRead = 0

\* Before the pty reader is attached nothing was written anywhere.
Fresh == rl.pc = "off" => cb.total = 0 /\ diskFile = 0

\* The read loop never carries a chunk for the buffer while a disk file is
\* open, nor one for a file that was replaced.
OneStore ==
    /\ diskFile # 0 => rl.pc # "buf"
    /\ rl.pc = "disk" => rl.file # 0 /\ (diskFile # 0 => rl.file = diskFile)
    /\ rl.pc = "buf" => rl.data # <<>>
    /\ rl.pc = "disk" => rl.data # <<>>

\* A drain that writes, or has written and not counted yet, is not replaced.
Cutless ==
    \A s \in Stream : /\ drains[s].pc \in {"write", "update"} => Mine(s)
                      /\ drains[s].pc = "update" => drains[s].n > 0

\* ClientConnected still knows the head of the buffer, and its client is not
\* past what the program wrote.
CallHead == cc.pc # "idle" => cc.head = HeadOf(cb)
CallSeq  ==
    cc.pc # "idle" => /\ diskFile # 0 => cc.seq <= diskEnd
                      /\ diskFile = 0 => cc.seq <= cb.total
                      /\ cc.pc = "window" => cc.seq <= cb.total

Updating(s) == drains[s].pc = "update"

\* The seam between the buffer and the disk file.
Seam ==
    diskFile # 0 =>
        /\ cc.pc # "window" /\ (\A s \in Stream : ~Updating(s)) => cb.total = diskRead
        /\ \A s \in Stream : Updating(s) => cb.total = diskRead + drains[s].n
        /\ cc.pc = "window" => cb.total = Greater(diskRead, cc.seq)

\* Who waits for room.
Waits ==
    /\ cb.waiter = Loop => rl.pc = "buf"
    /\ \A s \in Stream : cb.waiter = s => drains[s].pc = "check" /\ Mine(s)
    /\ ~cb.panic

MInv == NoFile /\ Fresh /\ OneStore /\ Cutless /\ CallHead /\ CallSeq /\ Seam /\ Waits

\* The first state satisfies it.
LEMMA InitM == Init => MInv
  BY WriterAssumption, NoWriterAssumption
     DEF Init, MInv, NoFile, Fresh, OneStore, Cutless, CallHead, CallSeq, Seam, Waits,
         MakeBuf, NoDrain, Idle

\* What the writers are.
LEMMA Writers ==
    /\ Loop \in Writer /\ Loop # NoWriter /\ Loop \notin Stream
    /\ NoWriter \notin Stream /\ Stream \subseteq Writer
  BY WriterAssumption, NoWriterAssumption

\* The parts of the invariant that a step leaves alone.
LEMMA MFrame ==
    ASSUME MInv
    PROVE  /\ UNCHANGED diskVars => NoFile'
           /\ rl' = rl /\ cb'.total = cb.total /\ diskFile' = diskFile => Fresh'
           /\ UNCHANGED <<rl, diskFile>> => OneStore'
           /\ UNCHANGED drainVars => Cutless'
           /\ UNCHANGED <<cc, cb>> => CallHead'
           /\ cc' = cc /\ cb'.total = cb.total /\ UNCHANGED diskVars => CallSeq'
           /\ UNCHANGED <<cc, diskVars, drainVars>> /\ cb'.total = cb.total => Seam'
           /\ UNCHANGED <<rl, drainVars>> /\ cb'.waiter \in {cb.waiter, NoWriter}
                /\ cb'.panic = cb.panic => Waits'
           /\ cc'.pc = "idle" => CallHead' /\ CallSeq'
           /\ diskFile' = 0 => Seam'
  <1>1. UNCHANGED diskVars => NoFile'
    BY DEF MInv, NoFile
  <1>2. rl' = rl /\ cb'.total = cb.total /\ diskFile' = diskFile => Fresh'
    BY DEF MInv, Fresh
  <1>3. UNCHANGED <<rl, diskFile>> => OneStore'
    BY DEF MInv, OneStore
  <1>4. UNCHANGED drainVars => Cutless'
    BY DEF MInv, Cutless, Mine
  <1>5. UNCHANGED <<cc, cb>> => CallHead'
    BY DEF MInv, CallHead
  <1>6. cc' = cc /\ cb'.total = cb.total /\ UNCHANGED diskVars => CallSeq'
    BY DEF MInv, CallSeq
  <1>7. UNCHANGED <<cc, diskVars, drainVars>> /\ cb'.total = cb.total => Seam'
    BY DEF MInv, Seam, Updating
  <1>8. UNCHANGED <<rl, drainVars>> /\ cb'.waiter \in {cb.waiter, NoWriter}
          /\ cb'.panic = cb.panic => Waits'
    BY Writers DEF MInv, Waits, Mine
  <1>9. cc'.pc = "idle" => CallHead' /\ CallSeq'
    BY DEF CallHead, CallSeq
  <1>10. diskFile' = 0 => Seam'
    BY DEF Seam
  <1> QED BY <1>1, <1>2, <1>3, <1>4, <1>5, <1>6, <1>7, <1>8, <1>9, <1>10

\* A step of something else, and one that only opens or closes the window of a
\* manager whose lock is free.
LEMMA MStill ==
    ASSUME MInv, UNCHANGED <<rl, diskVars, drainVars, cc>>,
           \/ cb' = cb
           \/ /\ Unlocked /\ cb'.total = cb.total
              /\ cb'.waiter \in {cb.waiter, NoWriter} /\ cb'.panic = cb.panic
    PROVE  MInv'
  BY MFrame DEF Unlocked, MInv

\* What Calm says of a step.
LEMMA CalmStep ==
    ASSUME Calm
    PROVE  /\ diskFile' \notin {0, diskFile} => rl.pc \notin {"buf", "disk"}
           /\ drainGen' # drainGen =>
                \A s \in Stream : drains[s].pc \notin {"write", "update"} /\ cb'.waiter # s
           /\ cc' = cc /\ cc.pc # "idle" => HeadOf(cb') = HeadOf(cb)
  BY DEF Calm, Straddles, CutsDrain, Outruns

\* What the invariants of the stream manager say where a proof needs them.
LEMMA ManagerFacts ==
    ASSUME IInv
    PROVE  /\ cb \in Buffer /\ cb.total \in Int /\ Len(cb.data) \in Nat /\ HeadOf(cb) \in Int
           /\ cb.data \in Seq(Byte) /\ cb.waiter \in Writer \union {NoWriter}
           /\ rl \in ReadLoopState /\ rl.data \in Seq(Byte) /\ Len(rl.data) \in Nat
           /\ diskFile \in Nat /\ diskStart \in Int /\ diskEnd \in Int /\ diskRead \in Int
           /\ drainGen \in Nat /\ drains \in [Stream -> DrainState]
           /\ cc \in CallState /\ cc.seq \in Int /\ cc.head \in Int
           /\ HeadOf(cb) <= cb.total
  <1>1. /\ cb \in Buffer /\ rl \in ReadLoopState /\ cc \in CallState
        /\ diskFile \in Nat /\ diskStart \in Int /\ diskEnd \in Int /\ diskRead \in Int
        /\ drainGen \in Nat /\ drains \in [Stream -> DrainState]
    BY DEF IInv, Types, BufferType, ReadType, CallType, DiskType, GenType, DrainType
  <1>2. /\ cb.total \in Int /\ Len(cb.data) \in Nat /\ cb.data \in Seq(Byte)
        /\ cb.waiter \in Writer \union {NoWriter}
    BY <1>1, BufFields
  <1>3. rl.data \in Seq(Byte) /\ cc.seq \in Int /\ cc.head \in Int
    BY <1>1 DEF ReadLoopState, CallState
  <1> QED BY <1>1, <1>2, <1>3 DEF HeadOf

\* A drain that runs in the current generation is alone, has a client and a
\* file, and no ClientConnected call is in progress.
LEMMA OwnerAlone ==
    ASSUME IInv, NEW s \in Stream, Running(s), Mine(s)
    PROVE  /\ connected /\ streamId = s /\ diskFile # 0 /\ cc.pc = "idle" /\ Carries(s)
           /\ \A t \in Stream : Running(t) /\ Mine(t) => t = s
  BY DEF IInv, DrainOwner, Locked

\* So no drain is about to count while no client is connected, or while another
\* drain writes.
LEMMA Quiet ==
    ASSUME IInv, MInv
    PROVE  /\ (~connected \/ cc.pc # "idle" \/ diskFile = 0) =>
                \A s \in Stream : drains[s].pc \notin {"write", "update"} /\ cb.waiter # s
           /\ \A s, t \in Stream :
                (drains[s].pc = "update" \/ (Running(s) /\ Mine(s))) /\ Updating(t) => s = t
  BY OwnerAlone DEF MInv, Cutless, Waits, Running, Updating

\* The read loop keeps the invariant: it writes to the buffer only while there
\* is no disk file, so it never waits there together with a drain.
LEMMA ReadLoopKeepsM == ASSUME IInv, MInv, Calm, ReadLoop PROVE MInv'
  <1>0. rl \in ReadLoopState /\ diskFile \in Nat
    BY ManagerFacts
  <1>1. ASSUME NEW n \in 1..MaxPacket, ReadData(n) PROVE MInv'
    <2> DEFINE p == IF diskFile # 0 THEN "disk" ELSE "buf"
               d == [i \in 1..n |-> produced + i]
    <2>1. /\ rl.pc = "read" /\ rl' = [pc |-> p, data |-> d, file |-> diskFile]
          /\ UNCHANGED <<cb, diskVars, drainVars, cc>>
      BY <1>1 DEF ReadData
    <2>2. d # <<>>
      <3>1. 1 \in DOMAIN d
        BY SizesAssumption
      <3> QED BY <3>1
    <2>3. (p = "disk" <=> diskFile # 0) /\ p \in {"disk", "buf"}
      OBVIOUS
    <2> HIDE DEF p, d
    <2>4. rl'.pc = p /\ rl'.data = d /\ rl'.file = diskFile
      BY <2>1
    <2>5. OneStore' /\ Fresh'
      BY <2>1, <2>2, <2>3, <2>4 DEF OneStore, Fresh
    <2>6. Waits'
      <3>1. cb.waiter # Loop
        BY <2>1 DEF MInv, Waits
      <3> QED BY <2>1, <3>1 DEF MInv, Waits, Mine
    <2> QED BY <2>1, <2>5, <2>6, MFrame DEF MInv
  <1>2. CASE StoreOnDisk
    <2>1. /\ rl.pc = "disk" /\ rl' = [pc |-> "read", data |-> <<>>, file |-> 0]
          /\ diskFile # 0 /\ cc.pc = "idle" /\ cc' = cc
          /\ UNCHANGED <<cb, diskFile, diskRead, drainVars, cc>>
      BY <1>2 DEF StoreOnDisk, Unlocked, MInv, OneStore
    <2>2. rl'.pc = "read"
      BY <2>1
    <2>3. NoFile' /\ OneStore' /\ Fresh'
      BY <2>1, <2>2 DEF NoFile, OneStore, Fresh
    <2>4. Seam'
      BY <2>1 DEF MInv, Seam, Updating
    <2>5. Waits'
      <3>1. cb.waiter # Loop
        BY <2>1 DEF MInv, Waits
      <3> QED BY <2>1, <3>1 DEF MInv, Waits, Mine
    <2> QED BY <2>1, <2>3, <2>4, <2>5, MFrame DEF MInv
  <1>3. CASE DiskWriteFails
    <2>1. /\ rl.pc = "disk" /\ rl' = [rl EXCEPT !.pc = "buf"]
          /\ cc.pc = "idle" /\ UNCHANGED <<cb, drains, cc>>
          /\ diskFile' = 0 /\ diskStart' = 0 /\ diskEnd' = 0 /\ diskRead' = 0
          /\ drainGen' = drainGen + 1
      BY <1>3 DEF DiskWriteFails, Unlocked
    <2>2. rl'.pc = "buf" /\ rl'.data = rl.data
      BY <1>0, <2>1 DEF ReadLoopState
    <2>3. \A s \in Stream : drains[s].pc \notin {"write", "update"} /\ cb'.waiter # s
      <3>1. drainGen' # drainGen
        BY <2>1, ManagerFacts
      <3> QED BY <3>1, CalmStep
    <2>4. NoFile' /\ OneStore' /\ Fresh' /\ Cutless'
      BY <2>1, <2>2, <2>3 DEF NoFile, OneStore, Fresh, Cutless, MInv
    <2>5. Waits'
      BY <2>1, <2>2, <2>3 DEF MInv, Waits
    <2> QED BY <2>1, <2>4, <2>5, MFrame DEF MInv
  <1>4. CASE DiskFileChanged
    <2>1. /\ rl.pc = "disk" /\ rl' = [rl EXCEPT !.pc = "buf"]
          /\ diskFile = 0 /\ UNCHANGED <<cb, diskVars, drainVars, cc>>
      BY <1>4 DEF DiskFileChanged, MInv, OneStore
    <2>2. rl'.pc = "buf" /\ rl'.data = rl.data
      BY <1>0, <2>1 DEF ReadLoopState
    <2>3. OneStore' /\ Fresh' /\ Waits'
      BY <2>1, <2>2 DEF OneStore, Fresh, Waits, MInv, Mine
    <2> QED BY <2>1, <2>3, MFrame DEF MInv
  <1>5. CASE \E how \in Terminal : ReadEnds(how)
    <2>1. /\ rl.pc = "read" /\ rl' = [rl EXCEPT !.pc = "done"]
          /\ UNCHANGED <<cb, diskVars, drainVars, cc>>
      BY <1>5 DEF ReadEnds
    <2>2. rl'.pc = "done"
      BY <1>0, <2>1 DEF ReadLoopState
    <2>3. OneStore' /\ Fresh' /\ Waits'
      BY <2>1, <2>2, Writers DEF OneStore, Fresh, Waits, MInv, Mine
    <2> QED BY <2>1, <2>3, MFrame DEF MInv
  <1>6. CASE StoreInBuffer
    <2> DEFINE n == Writable(cb, rl.data)
    <2>1. /\ rl.pc = "buf" /\ cb.waiter # Loop /\ cb' = BufWrite(cb, Loop, rl.data)
          /\ rl' = IF n = Len(rl.data) THEN [pc |-> "read", data |-> <<>>, file |-> 0]
                   ELSE [rl EXCEPT !.data = DropFirst(@, n)]
          /\ UNCHANGED <<diskVars, drainVars, cc>> /\ diskFile = 0
      BY <1>6 DEF StoreInBuffer, MInv, OneStore
    <2>2. n \in 0..Len(rl.data) /\ rl.data # <<>> /\ Len(rl.data) > 0
      BY <2>1, ManagerFacts, WritableType DEF MInv, OneStore
    <2>3. cb.waiter = NoWriter
      BY <2>1, ManagerFacts, Quiet, WriterAssumption
    <2>4. /\ cb'.total = cb.total + n /\ cb'.panic = cb.panic
          /\ cb'.waiter = IF n > 0 THEN cb.waiter ELSE Loop
      BY <2>1, <2>3, ManagerFacts, WritePlaces, Writers
    <2>5. rl'.pc # "off" /\ rl'.pc # "disk" /\ (rl'.pc = "buf" => rl'.data # <<>>) /\ (n = 0 => rl'.pc = "buf")
      <3>1. CASE n = Len(rl.data)
        BY <2>1, <2>2, <3>1
      <3>2. CASE n # Len(rl.data)
        <4>1. rl' = [rl EXCEPT !.data = DropFirst(@, n)]
          BY <2>1, <3>2
        <4> HIDE DEF n
        <4>2. rl'.pc = rl.pc /\ rl'.data = DropFirst(rl.data, n)
          BY <1>0, <4>1 DEF ReadLoopState
        <4>3. Len(DropFirst(rl.data, n)) = Len(rl.data) - n
          BY <2>2, ManagerFacts, DropType
        <4>4. DropFirst(rl.data, n) # <<>>
          BY <2>2, <3>2, <4>3, ManagerFacts
        <4> QED BY <2>1, <4>2, <4>4
      <3> QED BY <3>1, <3>2
    <2>6. n \in Nat /\ cb.total \in Int /\ cc.seq \in Int
      BY <2>2, ManagerFacts
    <2> HIDE DEF n
    <2>7. OneStore' /\ Fresh'
      BY <2>1, <2>5 DEF OneStore, Fresh
    <2>8. Waits'
      BY <2>1, <2>3, <2>4, <2>5, Writers DEF Waits, MInv
    <2>9. CallHead'
      BY <2>1, CalmStep DEF MInv, CallHead
    <2>10. CallSeq'
      BY <2>1, <2>4, <2>6 DEF MInv, CallSeq
    <2> QED BY <2>1, <2>7, <2>8, <2>9, <2>10, MFrame DEF MInv
  <1> QED BY <1>1, <1>2, <1>3, <1>4, <1>5, <1>6 DEF ReadLoop

\* The bytes a drain has written and not counted are bytes of the file.
LEMMA CarriedEnd ==
    ASSUME IInv, NEW s \in Stream, drains[s].pc = "update", Mine(s)
    PROVE  diskRead + drains[s].n <= diskEnd
  <1>1. Running(s)
    BY DEF Running
  <1>2. Carries(s) /\ diskFile # 0
    BY <1>1, OwnerAlone
  <1> DEFINE n == drains[s].n
             l == Len(drains[s].data)
  <1>3. n \in Nat /\ l \in Nat
    BY ManagerFacts DEF DrainState
  <1>4. Len(content) = diskEnd - diskStart
    BY <1>2 DEF IInv, DiskShape
  <1>5. (diskRead - diskStart + n) + l <= Len(content)
    BY <1>2 DEF Carries
  <1> HIDE DEF n, l
  <1>6. diskRead + n <= diskEnd
    BY <1>3, <1>4, <1>5, ManagerFacts
  <1> QED BY <1>6 DEF n

\* When everything is drained, the buffer ends where the disk file does.
LEMMA DrainedBuffer ==
    ASSUME IInv, MInv, Unlocked, diskFile # 0, Drained
    PROVE  cb.total = diskEnd
  <1>1. diskRead = diskEnd
    BY ManagerFacts DEF Drained, IInv, DiskShape
  <1>2. ASSUME NEW t \in Stream, drains[t].pc = "update" PROVE FALSE
    <2> DEFINE n == drains[t].n
    <2>1. Mine(t) /\ n > 0
      BY <1>2 DEF MInv, Cutless
    <2>2. n \in Nat /\ diskRead + n <= diskEnd
      BY <1>2, <2>1, CarriedEnd, ManagerFacts DEF DrainState
    <2> HIDE DEF n
    <2> QED BY <1>1, <2>1, <2>2, ManagerFacts
  <1> QED BY <1>1, <1>2 DEF MInv, Seam, Updating, Unlocked

\* A drain keeps the invariant: it writes where the buffer ends, and counts what
\* it wrote before anyone looks.
LEMMA DrainKeepsM == ASSUME IInv, MInv, Calm, NEW s \in Stream, Drain(s) PROVE MInv'
  <1>0. drains \in [Stream -> DrainState]
    BY ManagerFacts
  <1>1. ASSUME NEW from, NEW to, DrainStep(s, from, to),
               UNCHANGED <<rl, cb, diskFile, diskStart, diskEnd, drainGen, cc>>,
               diskRead' = IF from = "update" THEN diskRead + drains[s].n ELSE diskRead,
               cb.waiter # s, to # "update",
               to = "write" => Mine(s)
        PROVE  MInv'
    <2>1. /\ drains[s].pc = from /\ drains'[s].pc = to
          /\ drains'[s].gen = drains[s].gen
          /\ \A t \in Stream : t # s => drains'[t] = drains[t]
          /\ \A t \in Stream : drains'[t].n = drains[t].n /\ drains'[t].gen = drains[t].gen
      BY <1>0, <1>1 DEF DrainStep, DrainState
    <2>2. Cutless' /\ Waits'
      BY <1>1, <2>1 DEF MInv, Cutless, Waits, Mine
    <2>3. NoFile' /\ Fresh' /\ OneStore'
      <3>1. from = "update" => diskFile # 0
        BY <2>1, Quiet
      <3> QED BY <1>1, <3>1 DEF MInv, NoFile, Fresh, OneStore
    <2>4. Seam'
      <3>1. CASE from = "update"
        <4>1. cb.total = diskRead + drains[s].n \/ diskFile = 0
          BY <2>1, <3>1 DEF MInv, Seam, Updating
        <4>2. \A t \in Stream : drains'[t].pc # "update"
          BY <1>1, <2>1, <3>1, Quiet DEF Updating
        <4>3. cc.pc # "window"
          BY <2>1, <3>1, Quiet
        <4> QED BY <1>1, <3>1, <4>1, <4>2, <4>3 DEF Seam, Updating
      <3>2. CASE from # "update"
        <4>1. \A t \in Stream : drains'[t].pc = "update" <=> drains[t].pc = "update"
          BY <1>1, <2>1, <3>2
        <4>2. diskRead' = diskRead
          BY <1>1, <3>2
        <4> QED BY <1>1, <2>1, <4>1, <4>2 DEF MInv, Seam, Updating
      <3> QED BY <3>1, <3>2
    <2>5. CallSeq'
      BY <1>1 DEF MInv, CallSeq
    <2> QED BY <1>1, <2>2, <2>3, <2>4, <2>5, MFrame DEF MInv
  <1>2. CASE DrainGivesUp(s)
    <2>1. cb.waiter # s
      BY <1>2 DEF DrainGivesUp, DrainStep, MInv, Waits
    <2> QED BY <1>1, <1>2, <2>1 DEF DrainGivesUp
  <1>3. CASE DrainChecks(s)
    BY <1>1, <1>3 DEF DrainChecks
  <1>4. CASE DrainCatchesUp(s) \/ DrainRepeats(s)
    <2>1. cb.waiter # s
      BY <1>4 DEF DrainCatchesUp, DrainRepeats, DrainStep, MInv, Waits
    <2> QED BY <1>1, <1>4, <2>1 DEF DrainCatchesUp, DrainRepeats
  <1>5. CASE DrainUpdates(s)
    <2> DEFINE to == IF drains[s].data = <<>> THEN "after" ELSE "check"
    <2>1. /\ DrainStep(s, "update", to) /\ diskRead' = diskRead + drains[s].n
          /\ UNCHANGED <<rl, cb, diskFile, diskStart, diskEnd, drainGen, cc>>
      BY <1>5 DEF DrainUpdates, DrainStep, MInv, Cutless
    <2>2. cb.waiter # s /\ to \in {"after", "check"}
      BY <2>1 DEF DrainStep, MInv, Waits
    <2> HIDE DEF to
    <2> QED BY <1>1, <2>1, <2>2
  <1>6. CASE DrainReads(s)
    <2>1. /\ drains[s].pc = "snap" /\ UNCHANGED <<rl, cb, diskVars, drainGen, cc>>
          /\ drains' = [drains EXCEPT ![s].pc = "check", ![s].data = Block]
      BY <1>6 DEF DrainReads
    <2>2. /\ drains'[s].pc = "check"
          /\ \A t \in Stream : t # s => drains'[t] = drains[t]
          /\ \A t \in Stream : drains'[t].n = drains[t].n /\ drains'[t].gen = drains[t].gen
      BY <1>0, <2>1 DEF DrainState
    <2>3. \A t \in Stream : drains'[t].pc = "update" <=> drains[t].pc = "update"
      BY <2>1, <2>2
    <2>4. Cutless' /\ Waits'
      BY <2>1, <2>2, <2>3 DEF MInv, Cutless, Waits, Mine
    <2>5. Seam'
      BY <2>1, <2>2, <2>3 DEF MInv, Seam, Updating
    <2> QED BY <2>1, <2>4, <2>5, MFrame DEF MInv
  <1>7. CASE DrainWrites(s)
    <2> DEFINE n == Writable(cb, drains[s].data)
               p == IF n > 0 THEN "update" ELSE "check"
    <2>1. /\ drains[s].pc = "write" /\ cb' = BufWrite(cb, s, drains[s].data)
          /\ drains' = [drains EXCEPT ![s].pc = p, ![s].data = DropFirst(@, n), ![s].n = n]
          /\ UNCHANGED <<rl, diskVars, drainGen, cc>>
      BY <1>7 DEF DrainWrites
    <2>2. drains[s].data \in Seq(Byte) /\ n \in 0..Len(drains[s].data) /\ n \in Nat
      BY <1>0, ManagerFacts, WritableType DEF DrainState
    <2>3. Mine(s) /\ Running(s)
      BY <2>1 DEF MInv, Cutless, Running
    <2>4. /\ diskFile # 0 /\ cc.pc = "idle"
          /\ \A t \in Stream : drains[t].pc \in {"write", "update", "check"} /\ Mine(t) => t = s
      BY <2>3, OwnerAlone DEF Running
    <2>5. cb.waiter = NoWriter
      <3>1. cb.waiter # Loop
        BY <2>4 DEF MInv, Waits, OneStore
      <3>2. cb.waiter \notin Stream
        BY <2>1, <2>4 DEF MInv, Waits
      <3> QED BY <3>1, <3>2, ManagerFacts, WriterAssumption
    <2>6. /\ cb'.total = cb.total + n /\ cb'.panic = cb.panic
          /\ cb'.waiter = IF n > 0 THEN cb.waiter ELSE s
      BY <2>1, <2>2, <2>5, ManagerFacts, WritePlaces, Writers
    <2>7. p \in {"update", "check"} /\ (p = "update" <=> n > 0)
      OBVIOUS
    <2> HIDE DEF n, p
    <2>8. /\ drains'[s].pc = p /\ drains'[s].n = n /\ drains'[s].gen = drains[s].gen
          /\ \A t \in Stream : t # s => drains'[t] = drains[t]
      BY <1>0, <2>1 DEF DrainState
    <2>9. \A t \in Stream : drains[t].pc # "update"
      BY <2>1, <2>4 DEF MInv, Cutless
    <2>10. cb.total = diskRead
      BY <2>4, <2>9 DEF MInv, Seam, Updating
    <2>11. Fresh' /\ OneStore' /\ CallHead' /\ CallSeq'
      BY <2>1, <2>4 DEF MInv, Fresh, OneStore, CallHead, CallSeq
    <2>12. Cutless'
      BY <2>1, <2>3, <2>7, <2>8 DEF MInv, Cutless, Mine
    <2>13. Seam'
      <3>1. CASE n > 0
        BY <2>1, <2>4, <2>6, <2>7, <2>8, <2>9, <2>10, <3>1 DEF Seam, Updating
      <3>2. CASE ~(n > 0)
        <4>1. cb'.total = diskRead
          BY <2>2, <2>6, <2>10, <3>2, ManagerFacts
        <4>2. \A t \in Stream : drains'[t].pc # "update"
          BY <2>7, <2>8, <2>9, <3>2
        <4> QED BY <2>1, <2>4, <4>1, <4>2 DEF Seam, Updating
      <3> QED BY <3>1, <3>2
    <2>14. Waits'
      BY <2>1, <2>3, <2>5, <2>6, <2>7, <2>8, Writers DEF MInv, Waits, Mine
    <2> QED BY <2>1, <2>11, <2>12, <2>13, <2>14, MFrame DEF MInv
  <1>8. CASE DrainEnds(s)
    <2>1. CASE diskFile = 0
      <3>1. DrainStep(s, "after", "off") /\ UNCHANGED <<rl, cb, diskVars, drainGen, cc>>
        BY <1>8, <2>1 DEF DrainEnds
      <3>2. cb.waiter # s
        BY <3>1 DEF DrainStep, MInv, Waits
      <3> QED BY <1>1, <3>1, <3>2
    <2>2. CASE diskFile # 0
      <3>1. /\ DrainStep(s, "after", "off") /\ Deactivated(cb) /\ Drained
            /\ UNCHANGED <<rl, cc>> /\ cc.pc = "idle"
        BY <1>8, <2>2 DEF DrainEnds, Unlocked
      <3>2. cb.total = diskEnd
        BY <2>2, <3>1, DrainedBuffer DEF Unlocked
      <3>3. /\ cb' = cb /\ drainGen' = drainGen + 1
            /\ diskFile' = 0 /\ diskStart' = 0 /\ diskEnd' = 0 /\ diskRead' = 0
        BY <3>1, <3>2, TotalPlaces, ManagerFacts DEF Deactivated
      <3>4. \A t \in Stream : drains[t].pc \notin {"write", "update"} /\ cb'.waiter # t
        BY <3>3, ManagerFacts, CalmStep
      <3>5. \A t \in Stream : drains'[t].pc \in {drains[t].pc, "off"}
        BY <1>0, <3>1 DEF DrainStep, DrainState
      <3>6. NoFile' /\ Fresh' /\ OneStore' /\ Cutless'
        BY <3>1, <3>3, <3>4, <3>5 DEF MInv, NoFile, Fresh, OneStore, Cutless
      <3>7. Waits'
        BY <3>1, <3>3, <3>4 DEF MInv, Waits
      <3> QED BY <3>1, <3>3, <3>6, <3>7, MFrame DEF MInv
    <2> QED BY <2>1, <2>2
  <1> QED BY <1>2, <1>3, <1>4, <1>5, <1>6, <1>7, <1>8 DEF Drain

\* Losing the client keeps the invariant, and so does the file that is opened.
LEMMA DisconnectKeepsM ==
    ASSUME IInv, MInv, Calm, Unlocked, Disconnect PROVE MInv'
  <1>1. /\ UNCHANGED <<rl, diskVars, drains, cc>> /\ cb'.total = cb.total
        /\ cb'.waiter \in {cb.waiter, NoWriter} /\ cb'.panic = cb.panic
    BY DisconnectPlaces DEF Disconnect
  <1>2. CASE connected
    <2>1. drainGen' = drainGen + 1 /\ cb'.waiter = NoWriter
      BY <1>2, DisconnectPlaces
    <2>2. \A t \in Stream : drains[t].pc \notin {"write", "update"} /\ cb'.waiter # t
      BY <2>1, ManagerFacts, CalmStep
    <2>3. Cutless' /\ Waits'
      BY <1>1, <2>1, <2>2, Writers DEF MInv, Cutless, Waits
    <2>4. Seam'
      BY <1>1 DEF MInv, Seam, Updating
    <2> QED BY <1>1, <2>3, <2>4, MFrame DEF MInv, Unlocked
  <1>3. CASE ~connected
    BY <1>1, <1>3, MStill DEF Disconnect
  <1> QED BY <1>2, <1>3

\* activateDiskBuffering opens its file where the buffer ends: the two meet.
LEMMA ActivateKeepsM ==
    ASSUME IInv, MInv, Calm, Unlocked, Activate PROVE MInv'
  <1>1. UNCHANGED <<rl, cb, drainVars, cc>>
    BY DEF Activate
  <1>2. CASE UNCHANGED diskVars
    BY <1>1, <1>2, MStill
  <1>3. CASE /\ diskFile = 0 /\ rl.pc # "off" /\ diskFile' = drainGen + 1
             /\ diskEnd' = cb.total /\ diskRead' = cb.total
    <2>1. diskFile' # 0
      BY <1>3, ManagerFacts
    <2>2. rl.pc \notin {"buf", "disk"}
      BY <1>3, <2>1, CalmStep
    <2>3. \A t \in Stream : drains[t].pc # "update"
      BY <1>3, Quiet
    <2>4. Seam'
      BY <1>1, <1>3, <2>3 DEF Seam, Updating, Unlocked
    <2>5. NoFile' /\ Fresh' /\ OneStore'
      BY <1>1, <1>3, <2>1, <2>2 DEF NoFile, Fresh, OneStore
    <2> QED BY <1>1, <2>4, <2>5, MFrame DEF MInv, Unlocked
  <1> QED BY <1>2, <1>3 DEF Activate

\* The sender loop keeps the invariant.
LEMMA SenderKeepsM ==
    ASSUME IInv, MInv, Calm, SenderLoop \/ SendReturns \/ SendFails PROVE MInv'
  <1>1. CASE FailureDisconnects
    BY <1>1, DisconnectKeepsM DEF FailureDisconnects
  <1>2. CASE FailureActivates
    BY <1>2, ActivateKeepsM DEF FailureActivates
  <1>3. CASE UNCHANGED <<rl, cb, diskVars, drainVars, cc>>
    BY <1>3, MStill
  <1> QED BY <1>1, <1>2, <1>3 DEF SenderLoop, SenderStops, SenderWaits, PrepareBytes,
             PrepareTerminal, SendReturns, SendFails

\* ClientConnected looks at the buffer: its client is clamped to what the
\* program wrote, which ends where the disk file does when there is one.
LEMMA BeginsKeepsM ==
    ASSUME IInv, Place, MInv, Calm, NEW s \in Stream, NEW rwnd \in Nat, NEW seq \in Nat,
           ConnectBegins(s, rwnd, seq)
    PROVE  MInv'
  <1> DEFINE at == Lesser(seq, Greater(cb.total, diskEnd))
             p  == IF at > HeadOf(cb) THEN "consume" ELSE "window"
             k  == HeadOf(cb)
  <1>1. /\ cc.pc = "idle" /\ ~connected
        /\ cc' = [pc |-> p, id |-> s, rwnd |-> rwnd, seq |-> at, head |-> k]
        /\ UNCHANGED <<rl, cb, diskVars, drainVars>>
    BY Zenon DEF ConnectBegins, Unlocked, diskVars, drainVars, readVars
  <1>2. \A t \in Stream : drains[t].pc # "update"
    BY <1>1, Quiet
  <1>3. diskFile # 0 => cb.total = diskRead /\ diskRead <= diskEnd
    BY <1>1, <1>2 DEF MInv, Seam, Updating, IInv, DiskShape
  <1>4. /\ diskFile # 0 => at <= diskEnd
        /\ diskFile = 0 => at <= cb.total
        /\ p = "window" => at <= cb.total
        /\ p # "idle"
    BY <1>3, ManagerFacts DEF Lesser, Greater, MInv, NoFile, Place
  <1>5. at \in Int
    BY ManagerFacts DEF Lesser, Greater
  <1> HIDE DEF at, p, k
  <1>6. cc'.pc = p /\ cc'.seq = at /\ cc'.head = k
    BY <1>1
  <1>7. CallHead' /\ CallSeq'
    BY <1>1, <1>4, <1>6 DEF CallHead, CallSeq, k
  <1>8. Seam'
    <2>1. p = "window" /\ diskFile # 0 => cb.total = Greater(diskRead, at)
      BY <1>3, <1>4, <1>5, ManagerFacts DEF Greater
    <2> QED BY <1>1, <1>2, <1>3, <1>6, <2>1 DEF Seam, Updating
  <1> QED BY <1>1, <1>7, <1>8, MFrame DEF MInv

\* It drops what the client has, and moves the tail to a client that is past it:
\* the drain will go on from there.
LEMMA ConsumesKeepsM == ASSUME IInv, Place, MInv, Calm, ConnectConsumes PROVE MInv'
  <1>1. /\ cc.pc = "consume" /\ UNCHANGED <<rl, diskVars, drainVars>>
        /\ cc' = [cc EXCEPT !.pc = "window", !.head = HeadOf(cb')]
    BY DEF ConnectConsumes
  <1> DEFINE k == HeadOf(cb')
  <1>2. cc'.pc = "window" /\ cc'.seq = cc.seq /\ cc'.head = k
    <2>1. cc' = [cc EXCEPT !.pc = "window", !.head = k]
      BY <1>1
    <2> HIDE DEF k
    <2> QED BY <2>1, ManagerFacts DEF CallState
  <1>3. /\ cb'.total = Greater(cb.total, cc.seq)
        /\ cb'.waiter = NoWriter /\ cb'.panic = cb.panic
    BY <1>1, ConsumePlace DEF MInv, CallHead
  <1>4. \A t \in Stream : drains[t].pc # "update"
    BY <1>1, Quiet
  <1>5. diskFile # 0 => cb.total = diskRead
    BY <1>1, <1>4 DEF MInv, Seam, Updating
  <1>6. CallHead'
    BY <1>2 DEF CallHead
  <1>7. cc.seq <= cb'.total
    BY <1>3, ManagerFacts DEF Greater
  <1>8. CallSeq'
    BY <1>1, <1>2, <1>7 DEF MInv, CallSeq
  <1>9. Seam'
    BY <1>1, <1>2, <1>3, <1>4, <1>5 DEF Seam, Updating
  <1>10. Fresh'
    <2>1. rl.pc = "off" => cb'.total = 0
      BY <1>1, <1>3, ManagerFacts DEF MInv, CallSeq, Fresh, Greater
    <2> QED BY <1>1, <2>1 DEF MInv, Fresh
  <1> QED BY <1>1, <1>3, <1>6, <1>8, <1>9, <1>10, MFrame DEF MInv

\* It opens the window: a new drain starts at the seam, or the file is given up,
\* and then the buffer ends where the file did.
LEMMA EndsKeepsM ==
    ASSUME IInv, MInv, Calm, ConnectEnds
    PROVE  MInv' /\ connected' /\ streamId' = cc.id /\ rwndSize' = cc.rwnd
             /\ HeadOf(cb') = HeadOf(cb) /\ HeadOf(cb) <= StartSeq
  <1> DEFINE b == BufSetWindow(cb, TRUE, EffectiveWindow(cc.rwnd))
  <1>1. /\ cc.pc = "window" /\ connected' /\ streamId' = cc.id /\ rwndSize' = cc.rwnd
        /\ rl' = rl /\ cc' = Idle /\ cc.rwnd \in Nat /\ ~connected
        /\ cc.head = HeadOf(cb)
    BY DEF ConnectEnds, IInv, Types, CallType, CallState, Locked, MInv, CallHead
  <1>2. /\ b \in Buffer /\ b.total = cb.total /\ HeadOf(b) = HeadOf(cb)
        /\ b.panic = cb.panic /\ b.waiter \in {cb.waiter, NoWriter}
    <2>1. b = BufSetWindow(cb, TRUE, EffectiveWindow(cc.rwnd)) /\ cb \in Buffer
      BY ManagerFacts
    <2>2. cc.rwnd \in Nat
      BY <1>1
    <2> HIDE DEF b
    <2>3. /\ b \in Buffer /\ b.total = cb.total /\ HeadOf(b) = HeadOf(cb)
          /\ b.panic = cb.panic /\ b.waiter \in {cb.waiter, NoWriter}
      BY <2>1, <2>2, OpenWindowPlaces, Zenon
    <2> QED BY <2>3
  <1>3. \A t \in Stream : drains[t].pc \notin {"write", "update"} /\ cb.waiter # t
    BY <1>1, Quiet
  <1>4. diskFile # 0 => cb.total = Greater(diskRead, cc.seq)
    BY <1>1 DEF MInv, Seam
  <1>5. HeadOf(cb) <= StartSeq
    BY <1>1, ManagerFacts DEF StartSeq, Greater
  <1>6. cc'.pc = "idle"
    BY <1>1 DEF Idle
  <1>7. ASSUME cb' = b, drainGen' # drainGen \/ drainGen' = drainGen,
               \A t \in Stream : drains'[t].pc \notin {"write", "update", "check"}
                                   \/ drains'[t] = drains[t],
               diskFile' = 0 \/ (diskFile' = diskFile /\ diskRead' = cb.total),
               NoFile'
        PROVE  MInv' /\ HeadOf(cb') = HeadOf(cb)
    <2> HIDE DEF b
    <2>1. cb'.total = cb.total /\ HeadOf(cb') = HeadOf(cb) /\ cb'.panic = cb.panic
          /\ cb'.waiter \in {cb.waiter, NoWriter}
      BY <1>2, <1>7
    <2>2. Fresh' /\ OneStore'
      BY <1>1, <1>7, <2>1 DEF MInv, Fresh, OneStore
    <2>3. \A t \in Stream : drains'[t].pc \notin {"write", "update"} /\ cb'.waiter # t
      BY <1>3, <1>7, <2>1, Writers
    <2>4. Cutless' /\ Waits'
      BY <1>1, <2>1, <2>3, Writers DEF MInv, Cutless, Waits
    <2>5. Seam'
      BY <1>6, <1>7, <2>1, <2>3 DEF Seam, Updating
    <2> QED BY <1>6, <1>7, <2>1, <2>2, <2>4, <2>5, MFrame DEF MInv
  <1>8. ASSUME NEW d, drains' = [drains EXCEPT ![cc.id] = d],
               d.pc \in {"snap", "off"}
        PROVE  \A t \in Stream : drains'[t].pc \notin {"write", "update", "check"}
                                   \/ drains'[t] = drains[t]
    BY <1>8, ManagerFacts
  <1>9. \/ /\ diskFile # 0 /\ cb' = b
           /\ diskRead' = Greater(Greater(diskRead, diskStart), cc.seq)
           /\ diskFile' = diskFile
           /\ drains' = [drains EXCEPT ![cc.id] =
                            [NoDrain EXCEPT !.pc = "snap", !.gen = drainGen + 1]]
        \/ /\ diskFile # 0 /\ cc.seq >= diskEnd /\ Deactivated(b)
           /\ drains' = [drains EXCEPT ![cc.id].pc = "off"]
        \/ /\ diskFile = 0 /\ cb' = b /\ UNCHANGED diskVars
           /\ drains' = [drains EXCEPT ![cc.id].pc = "off"]
    <2> HIDE DEF Deactivated
    <2> QED BY Zenon DEF ConnectEnds, diskVars
  <1>10. ASSUME drains' = [drains EXCEPT ![cc.id].pc = "off"]
         PROVE  \A t \in Stream : drains'[t].pc \notin {"write", "update", "check"}
                                    \/ drains'[t] = drains[t]
    BY <1>10, ManagerFacts DEF DrainState
  <1>11. CASE /\ diskFile # 0 /\ cb' = b
              /\ diskRead' = Greater(Greater(diskRead, diskStart), cc.seq)
              /\ diskFile' = diskFile
              /\ drains' = [drains EXCEPT ![cc.id] =
                               [NoDrain EXCEPT !.pc = "snap", !.gen = drainGen + 1]]
    <2>1. diskRead' = cb.total
      BY <1>4, <1>11, ManagerFacts DEF Greater, IInv, DiskShape
    <2>2. [NoDrain EXCEPT !.pc = "snap", !.gen = drainGen + 1].pc = "snap"
      BY DEF NoDrain
    <2>3. NoFile'
      BY <1>11 DEF NoFile
    <2> HIDE DEF b
    <2>4. \A t \in Stream : drains'[t].pc \notin {"write", "update", "check"}
                              \/ drains'[t] = drains[t]
      BY <1>8, <1>11, <2>2
    <2> QED BY <1>1, <1>5, <1>7, <1>11, <2>1, <2>3, <2>4
  <1>12. CASE /\ diskFile # 0 /\ cc.seq >= diskEnd /\ Deactivated(b)
              /\ drains' = [drains EXCEPT ![cc.id].pc = "off"]
    <2>1. cb.total = diskEnd
      BY <1>1, <1>4, <1>12, ManagerFacts DEF Greater, IInv, DiskShape, MInv, CallSeq
    <2>2. cb' = b
      BY <1>2, <1>12, <2>1, TotalPlaces DEF Deactivated
    <2>3. NoFile' /\ diskFile' = 0
      BY <1>12 DEF Deactivated, NoFile
    <2> HIDE DEF b
    <2> QED BY <1>1, <1>5, <1>7, <1>10, <1>12, <2>2, <2>3
  <1>13. CASE /\ diskFile = 0 /\ cb' = b /\ UNCHANGED diskVars
              /\ drains' = [drains EXCEPT ![cc.id].pc = "off"]
    <2>1. NoFile' /\ diskFile' = 0
      BY <1>13 DEF NoFile, MInv
    <2> HIDE DEF b
    <2> QED BY <1>1, <1>5, <1>7, <1>10, <1>13, <2>1
  <1> QED BY <1>9, <1>11, <1>12, <1>13

\* What an acknowledgement does to the buffer: nothing, or its head becomes the
\* position that is acknowledged.
LEMMA AckMoves ==
    ASSUME IInv, NEW a, a.seq \in Nat, a.rwnd \in Nat, RecvAck(a)
    PROVE  /\ Unlocked /\ UNCHANGED <<readVars, connected, streamId, diskVars, drainVars, pkt, cc>>
           /\ cb'.total = cb.total
           /\ cb'.waiter \in {cb.waiter, NoWriter} /\ cb'.panic = cb.panic
           /\ \/ cb' = cb /\ rwndSize' = rwndSize
              \/ /\ connected /\ a.id = streamId /\ ~a.fin
                 /\ HeadOf(cb') = a.seq /\ rwndSize' = a.rwnd
  <1>0. Unlocked /\ UNCHANGED <<readVars, connected, streamId, diskVars, drainVars, pkt, cc>>
    BY DEF RecvAck
  <1>1. CASE cb' = cb /\ rwndSize' = rwndSize
    BY <1>0, <1>1
  <1>2. CASE RecvFresh(a) /\ Acknowledges(a)
    <2> DEFINE n == a.seq - HeadOf(cb)
               b == IF n > 0 THEN BufConsume(cb, n) ELSE cb
    <2>1. /\ cb' = BufSetWindow(b, TRUE, EffectiveWindow(a.rwnd))
          /\ rwndSize' = a.rwnd
      BY <1>2, Zenon DEF RecvFresh
    <2>2. connected /\ a.id = streamId /\ ~a.fin
      BY <1>2 DEF RecvFresh, Expected
    <2>3. n \in Nat /\ n <= Len(cb.data) /\ cb \in Buffer
      BY <1>2, ManagerFacts DEF Acknowledges, CanConsume
    <2> HIDE DEF n
    <2>4. /\ b \in Buffer /\ b.total = cb.total /\ HeadOf(b) = HeadOf(cb) + n
          /\ b.waiter \in {cb.waiter, NoWriter} /\ b.panic = cb.panic
      <3>1. CASE n > 0
        BY <2>3, <3>1, ConsumeType, ConsumePlaces
      <3>2. CASE ~(n > 0)
        <4>1. n = 0 /\ b = cb
          BY <2>3, <3>2
        <4> QED BY <2>3, <4>1, ManagerFacts
      <3> QED BY <3>1, <3>2
    <2> HIDE DEF b
    <2>5. a.rwnd \in Nat /\ b \in Buffer
      BY <2>4
    <2>6. /\ cb'.total = b.total /\ HeadOf(cb') = HeadOf(b)
          /\ cb'.panic = b.panic /\ cb'.waiter \in {b.waiter, NoWriter}
      BY <2>1, <2>5, OpenWindowPlaces, Zenon
    <2>7. HeadOf(cb') = a.seq
      BY <2>4, <2>6, ManagerFacts DEF n
    <2> QED BY <1>0, <2>1, <2>2, <2>4, <2>6, <2>7
  <1>3. (cb' = cb /\ rwndSize' = rwndSize) \/ (RecvFresh(a) /\ Acknowledges(a))
    BY Zenon DEF RecvAck, RecvFin, RecvFresh, RecvIgnored, ackVars
  <1> QED BY <1>1, <1>2, <1>3

\* What a new receive window does to it.
LEMMA RwndMoves ==
    ASSUME IInv, NEW rwnd \in Nat, SetRwndSize(rwnd)
    PROVE  /\ Unlocked /\ UNCHANGED <<readVars, connected, streamId, diskVars, drainVars, pkt, cc>>
           /\ connected /\ rwndSize' = rwnd
           /\ cb'.total = cb.total /\ HeadOf(cb') = HeadOf(cb)
           /\ cb'.waiter \in {cb.waiter, NoWriter} /\ cb'.panic = cb.panic
  <1>1. /\ Unlocked /\ UNCHANGED <<readVars, connected, streamId, diskVars, drainVars, pkt, cc>>
        /\ connected /\ rwndSize' = rwnd /\ cb' = BufSetWindow(cb, TRUE, EffectiveWindow(rwnd))
    BY Zenon DEF SetRwndSize, readVars, diskVars, drainVars
  <1>2. cb \in Buffer /\ cb' = BufSetWindow(cb, TRUE, EffectiveWindow(rwnd))
    BY <1>1, ManagerFacts
  <1>3. /\ cb'.total = cb.total /\ HeadOf(cb') = HeadOf(cb)
        /\ cb'.waiter \in {cb.waiter, NoWriter} /\ cb'.panic = cb.panic
    BY <1>2, OpenWindowPlaces, Zenon
  <1> QED BY <1>1, <1>3

\* Whatever the stream manager does as a part of the whole, it keeps the invariant.
LEMMA ManagerKeepsM == ASSUME IInv, Place, MInv, Calm, ManagerStep PROVE MInv'
  <1>1. CASE ReadLoop
    BY <1>1, ReadLoopKeepsM
  <1>2. CASE SenderLoop \/ SendReturns \/ SendFails
    BY <1>2, SenderKeepsM
  <1>3. ASSUME NEW s \in Stream, Drain(s) PROVE MInv'
    BY <1>3, DrainKeepsM
  <1>4. CASE AttachReader
    <2>1. /\ rl.pc = "off" /\ rl' = [rl EXCEPT !.pc = "read"]
          /\ UNCHANGED <<cb, diskVars, drainVars, cc>>
      BY <1>4 DEF AttachReader
    <2>2. rl'.pc = "read"
      BY <2>1, ManagerFacts DEF ReadLoopState
    <2>3. Fresh' /\ OneStore' /\ Waits'
      BY <2>1, <2>2 DEF Fresh, OneStore, MInv, Waits, Mine
    <2> QED BY <2>1, <2>3, MFrame DEF MInv
  <1>5. CASE ClientDisconnected
    BY <1>5, DisconnectKeepsM DEF ClientDisconnected
  <1>6. CASE ActivateDiskBuffering
    BY <1>6, ActivateKeepsM DEF ActivateDiskBuffering
  <1>7. ASSUME NEW s \in Stream, NEW rwnd \in Nat, NEW seq \in Nat, ConnectBegins(s, rwnd, seq)
        PROVE  MInv'
    BY <1>7, BeginsKeepsM
  <1>8. CASE ConnectConsumes
    BY <1>8, ConsumesKeepsM
  <1>9. CASE ConnectEnds
    BY <1>9, EndsKeepsM
  <1>10. ASSUME NEW a \in AckState, RecvAck(a) PROVE MInv'
    <2>1. a.seq \in Nat /\ a.rwnd \in Nat
      BY <1>10, RwndAssumption DEF AckState
    <2> QED BY <1>10, <2>1, AckMoves, MStill
  <1>11. ASSUME NEW rwnd \in Nat, SetRwndSize(rwnd) PROVE MInv'
    BY <1>11, RwndMoves, MStill
  <1>12. CASE UNCHANGED vars
    BY <1>12, MStill DEF vars
  <1> QED BY <1>1, <1>2, <1>3, <1>4, <1>5, <1>6, <1>7, <1>8, <1>9, <1>10, <1>11, <1>12
          DEF ManagerStep

\* While a client stays connected, neither the read loop nor the sender loop nor
\* a drain moves the head of the buffer.
LEMMA HeadKept ==
    ASSUME IInv, MInv, connected',
           \/ ReadLoop \/ SenderLoop \/ SendReturns \/ SendFails \/ AttachReader
           \/ \E s \in Stream : Drain(s)
    PROVE  /\ connected /\ streamId' = streamId /\ rwndSize' = rwndSize
           /\ HeadOf(cb') = HeadOf(cb)
  <1>1. connected => cb.sync
    BY DEF IInv, FlowControl
  <1>2. CASE UNCHANGED <<connected, streamId, rwndSize, cb>>
    BY <1>2
  <1>3. ASSUME NEW w \in Writer, NEW d \in Seq(Byte), cb' = BufWrite(cb, w, d),
               UNCHANGED <<connected, streamId, rwndSize>>
        PROVE  /\ connected /\ streamId' = streamId /\ rwndSize' = rwndSize
               /\ HeadOf(cb') = HeadOf(cb)
    <2>1. cb.sync
      BY <1>1, <1>3
    <2> QED BY <1>3, <2>1, WritePlaces, ManagerFacts
  <1>4. CASE StoreInBuffer
    BY <1>3, <1>4, ManagerFacts, Writers DEF StoreInBuffer
  <1>5. ASSUME NEW s \in Stream, DrainWrites(s)
        PROVE  /\ connected /\ streamId' = streamId /\ rwndSize' = rwndSize
               /\ HeadOf(cb') = HeadOf(cb)
    <2>1. drains[s].data \in Seq(Byte) /\ s \in Writer
      BY ManagerFacts, Writers DEF DrainState
    <2> QED BY <1>3, <1>5, <2>1 DEF DrainWrites
  <1>6. ASSUME NEW s \in Stream, DrainEnds(s)
        PROVE  UNCHANGED <<connected, streamId, rwndSize, cb>>
    <2>1. Unlocked /\ Drained /\ UNCHANGED <<connected, streamId, rwndSize>>
      BY <1>6 DEF DrainEnds
    <2>2. diskFile # 0 => cb' = cb
      BY <1>6, <2>1, DrainedBuffer, TotalPlaces, ManagerFacts DEF DrainEnds, Deactivated
    <2> QED BY <1>6, <2>1, <2>2 DEF DrainEnds
  <1>7. ASSUME NEW s \in Stream, Drain(s)
        PROVE  /\ connected /\ streamId' = streamId /\ rwndSize' = rwndSize
               /\ HeadOf(cb') = HeadOf(cb)
    BY <1>2, <1>5, <1>6, <1>7 DEF Drain, DrainGivesUp, DrainReads, DrainChecks,
       DrainUpdates, DrainCatchesUp, DrainRepeats
  <1>8. CASE ReadLoop
    BY <1>2, <1>4, <1>8 DEF ReadLoop, ReadData, StoreOnDisk, DiskWriteFails,
       DiskFileChanged, ReadEnds
  <1>9. CASE SenderLoop \/ SendReturns \/ SendFails
    <2>1. ~FailureDisconnects
      BY DisconnectPlaces DEF FailureDisconnects
    <2> QED BY <1>2, <1>9, <2>1 DEF SenderLoop, SenderStops, SenderWaits, PrepareBytes,
               PrepareTerminal, FailureActivates, Activate, SendReturns, SendFails
  <1>10. CASE AttachReader
    BY <1>2, <1>10 DEF AttachReader
  <1> QED BY <1>7, <1>8, <1>9, <1>10

\* A step of the whole is a step of its stream manager, or none.
LEMMA WholeStep == ASSUME DInv, DNext PROVE ManagerStep
  <1>1. CASE ReadLoopRuns \/ SenderLoopRuns \/ Sent \/ SendTimesOut
    BY <1>1 DEF ReadLoopRuns, SenderLoopRuns, Sent, SendTimesOut, ManagerStep
  <1>2. CASE \E s \in Stream : DrainRuns(s)
    BY <1>2 DEF DrainRuns, ManagerStep
  <1>3. CASE \/ HandlerDisconnects \/ HandlerActivates \/ HandlerConsumes
             \/ HandlerConnected \/ JobStarted
    BY <1>3 DEF HandlerDisconnects, HandlerActivates, HandlerConsumes, HandlerConnected,
       JobStarted, ManagerStep
  <1>4. CASE HandlerConnects
    <2> DEFINE r == IF h.job THEN Rwnd ELSE 0
    <2>1. r \in Nat /\ h.id \in Stream /\ h.seq \in Nat
      BY RwndAssumption, SizesAssumption DEF DInv, HandlerInv, HandlerState
    <2>2. ConnectBegins(h.id, r, h.seq)
      BY <1>4 DEF HandlerConnects
    <2> HIDE DEF r
    <2> QED BY <2>1, <2>2 DEF ManagerStep
  <1>5. CASE StartStream
    <2>1. Rwnd \in Nat
      BY RwndAssumption, SizesAssumption
    <2> QED BY <1>5, <2>1 DEF StartStream, ManagerStep
  <1>6. CASE AckArrives
    <2>1. Head(anet) \in AckState
      BY <1>6, TailElements DEF AckArrives, DInv, AckInv
    <2> QED BY <1>6, <2>1, Zenon DEF AckArrives, ManagerStep, vars
  <1>7. CASE UNCHANGED vars
    BY <1>7 DEF ManagerStep
  <1>8. CASE \/ PrepareConnect \/ HandlerRefused \/ JobController \/ DataArrives
             \/ LoopReads \/ LoopEnds \/ LinkDrops \/ MainServerQuits \/ LinkReturns
    BY <1>7, <1>8, Zenon DEF PrepareConnect, HandlerRefused, JobController, Restart, Reconcile,
       AlreadyDone, CallFails, CloseReader, LoopStarts, DataArrives, LoopReads, LoopEnds,
       LinkDrops, MainServerQuits, LinkLost, LinkReturns
  <1> QED BY <1>1, <1>2, <1>3, <1>4, <1>5, <1>6, <1>8, Zenon DEF DNext, JobManager

\* So the stream manager's part is an invariant of the whole.
LEMMA StepKeepsM ==
    DInv /\ MInv /\ [DNext /\ Calm]_dvars => DInv' /\ MInv'
  <1>1. ASSUME DInv, MInv, UNCHANGED dvars PROVE MInv'
    BY <1>1, MStill DEF dvars, vars
  <1>2. ASSUME DInv, MInv, DNext, Calm PROVE MInv'
    BY <1>2, WholeStep, ManagerKeepsM DEF DInv
  <1> QED BY <1>1, <1>2, StepKeepsD

\* Before the job starts the stream manager's part holds.
LEMMA InitDM == DInit => DInv /\ MInv
  BY InitD, InitM DEF DInit

\* Outside the four windows, in every behaviour of every size: the disk file
\* goes on where the buffer ends, through drains that were replaced, repeated
\* restarts, disk files given up and clients that are past the buffer.
THEOREM SeamHolds == CalmSpec => []SeamMeets
  <1>1. DInv /\ MInv => SeamMeets
    BY DEF MInv, Seam, Updating, SeamMeets, Unlocked
  <1> QED BY <1>1, InitDM, StepKeepsM, PTL DEF CalmSpec

\* Nor do the read loop and a drain ever wait for room together, so cirbuf.go's
\* panic on a second blocked writer is never reached.
THEOREM OneWaits == CalmSpec => []NoPanic
  <1>1. DInv /\ MInv => NoPanic
    BY DEF MInv, Waits, NoPanic
  <1> QED BY <1>1, InitDM, StepKeepsM, PTL DEF CalmSpec

-----------------------------------------------------------------------------
(* What the two ends keep together *)

\* The reader has room for the bytes up to here.
Limit == Position + Rwnd

Fits(p) == p.data # <<>> => EndOf(p) <= Limit

\* Every byte of the stream that was sent, or taken to be sent, fits.
SentFits ==
    rd.open => /\ \A p \in Elements(dnet) : p.id = cur => Fits(p)
               /\ \A p \in rd.ooo : Fits(p)
               /\ pkt.id = cur => Fits(pkt)

\* So does every byte the job manager may send next,
GrantFits ==
    connected /\ streamId = cur /\ rd.open /\ rwndSize > 0
        => HeadOf(cb) + EffectiveWindow(rwndSize) <= Limit

\* and every byte an acknowledgement on its way allows; it names no byte that
\* the reader did not receive.
AcksFit ==
    rd.open => \A a \in Elements(anet) :
        a.id = cur /\ ~a.fin => a.seq + a.rwnd <= Limit /\ a.seq <= rd.next

\* The position that answers a restart is not behind the buffer's head.
Offered ==
    cl.pc = "resp" /\ ~cl.done /\ connected /\ streamId = cur /\ rd.open
        => HeadOf(cb) <= cl.seq

\* The newest stream's handler runs only while the restart waits for it, and
\* StartJob's only before the pty reader is attached.
HandlerBusy ==
    /\ h.pc # "idle" /\ h.id = cur /\ rd.open => cl.pc \in {"wait", "failed"}
    /\ h.pc # "idle" /\ h.job => rl.pc = "off"

WInv == /\ SentFits /\ GrantFits /\ AcksFit /\ Offered /\ HandlerBusy
        /\ KeepsUnacked /\ NotOverrun

CInv == DInv /\ MInv /\ WInv

\* A client that is connected after a step was before, with the same window.
HeadSame ==
    connected' => /\ connected /\ streamId' = streamId /\ rwndSize' = rwndSize
                  /\ HeadOf(cb') = HeadOf(cb)

\* The parts of the invariant that a step leaves alone.
LEMMA WFrame ==
    ASSUME WInv, UNCHANGED <<file, gap, cur, rd>>
    PROVE  /\ dnet' = dnet /\ pkt' \in {pkt, NoPacket} => SentFits'
           /\ HeadSame => GrantFits'
           /\ Elements(anet') \subseteq Elements(anet) => AcksFit'
           /\ HeadSame /\ cl' = cl => Offered' /\ KeepsUnacked'
           /\ UNCHANGED <<h, cl, rl>> => HandlerBusy'
           /\ NotOverrun'
  <1>1. dnet' = dnet /\ pkt' \in {pkt, NoPacket} => SentFits'
    BY DEF WInv, SentFits, Fits, EndOf, Limit, Position, NoPacket
  <1>2. HeadSame => GrantFits'
    BY DEF WInv, GrantFits, Limit, Position, HeadSame
  <1>3. Elements(anet') \subseteq Elements(anet) => AcksFit'
    BY DEF WInv, AcksFit, Limit, Position
  <1>4. HeadSame /\ cl' = cl => Offered' /\ KeepsUnacked'
    BY DEF WInv, Offered, KeepsUnacked, HeadSame
  <1>5. UNCHANGED <<h, cl, rl>> => HandlerBusy'
    BY DEF WInv, HandlerBusy
  <1>6. NotOverrun'
    BY DEF WInv, NotOverrun
  <1> QED BY <1>1, <1>2, <1>3, <1>4, <1>5, <1>6

\* A step that only the stream manager takes part in.
LEMMA WManager ==
    ASSUME WInv, UNCHANGED <<netVars, h, clientVars>>, HeadSame,
           pkt' \in {pkt, NoPacket}, rl' = rl
    PROVE  WInv'
  BY WFrame DEF WInv

\* A reader that closed is sent nothing that counts.
LEMMA WClosed ==
    ASSUME WInv, ~rd'.open, UNCHANGED <<h, rl>>, NotOverrun'
    PROVE  WInv'
  BY DEF WInv, SentFits, GrantFits, AcksFit, Offered, KeepsUnacked, HandlerBusy

\* What the invariant of the whole says of its numbers.
LEMMA WholeFacts ==
    ASSUME DInv
    PROVE  /\ IInv /\ Place
           /\ rd \in ReaderState /\ rd.next \in Nat /\ Len(rd.buf) \in Nat /\ rd.id = cur
           /\ Position \in Nat /\ Limit \in Nat /\ Rwnd \in Nat
           /\ rd.open => Position + Len(rd.buf) = rd.next
           /\ HeadOf(cb) \in Int /\ rwndSize \in Nat
           /\ h \in HandlerState /\ cl \in CallerState /\ cur \in Stream
  <1>1. /\ IInv /\ Place /\ rd \in ReaderState /\ rd.id = cur /\ h \in HandlerState
        /\ cl \in CallerState /\ cur \in Stream /\ file \in Seq(Byte) /\ gap \in Nat /\ Aligned
    BY DEF DInv, ReaderInv, HandlerInv, CallerInv, ProgressInv
  <1>2. Rwnd \in Nat
    BY RwndAssumption, SizesAssumption
  <1>3. Position \in Nat
    BY <1>1 DEF Position
  <1>4. rwndSize \in Nat
    BY <1>1 DEF IInv, Types, AckType
  <1> QED BY <1>1, <1>2, <1>3, <1>4, ReaderFields, ManagerFacts, SMTT(30) DEF Limit, Aligned

\* The reader's place is within its room.
LEMMA NextFits == ASSUME DInv, NotOverrun, rd.open PROVE rd.next <= Limit
  <1> DEFINE n == Len(rd.buf)
             e == rd.next
  <1>1. n \in Nat /\ e \in Nat /\ n <= Rwnd /\ Position + n = e
    BY WholeFacts DEF NotOverrun
  <1> HIDE DEF n, e
  <1>2. e <= Limit
    BY <1>1, WholeFacts DEF Limit
  <1> QED BY <1>2 DEF e

\* The first state satisfies it.
LEMMA InitW == DInit => WInv
  <1> SUFFICES ASSUME DInit PROVE WInv
    OBVIOUS
  <1>1. /\ Init /\ dnet = <<>> /\ anet = <<>> /\ rd = NewReader(1, 0)
        /\ cl.pc = "wait" /\ file = <<>> /\ gap = 0
    BY DEF DInit
  <1>2. rl.pc = "off" /\ ~connected /\ pkt = NoPacket
    BY <1>1 DEF Init
  <1>3. rd.buf = <<>> /\ rd.ooo = {}
    BY <1>1 DEF NewReader
  <1>4. SentFits
    BY <1>1, <1>2, <1>3 DEF SentFits, Elements, Fits, NoPacket
  <1>5. NotOverrun
    BY <1>3, RwndAssumption, SizesAssumption DEF NotOverrun
  <1>6. GrantFits /\ Offered /\ KeepsUnacked /\ AcksFit
    BY <1>1, <1>2 DEF GrantFits, Offered, KeepsUnacked, AcksFit, Elements
  <1> QED BY <1>1, <1>2, <1>4, <1>5, <1>6 DEF WInv, HandlerBusy

\* The bytes the sender prepares are within what the reader granted.
LEMMA PreparedFits ==
    ASSUME CInv, PrepareBytes \/ PrepareTerminal
    PROVE  rd.open /\ pkt'.id = cur => Fits(pkt')
  <1>1. CASE PrepareTerminal
    <2>1. pkt'.data = <<>>
      BY <1>1 DEF PrepareTerminal
    <2> QED BY <2>1 DEF Fits
  <1>2. CASE PrepareBytes
    <2> DEFINE n == Len(NextBytes)
               k == HeadOf(cb)
               w == EffectiveWindow(rwndSize)
    <2>1. /\ pkt' = [id |-> streamId, seq |-> k + sentNotAcked, data |-> NextBytes, end |-> "none"]
          /\ connected /\ Credit > 0
      BY <1>2 DEF PrepareBytes, BytesDue
    <2>2. sentNotAcked \in Nat /\ n \in Nat /\ n <= Credit /\ rwndSize \in Nat /\ k \in Int
      BY <2>1, NextBytesType, WholeFacts DEF CInv, DInv, IInv, Types, AckType
    <2>3. w \in Nat /\ (rwndSize = 0 => w = 0)
      BY <2>2, WindowBound, SizesAssumption DEF EffectiveWindow, Lesser
    <2>4. rwndSize > 0 /\ sentNotAcked + n <= w
      BY <2>1, <2>2, <2>3 DEF Credit
    <2> HIDE DEF n, k, w
    <2>5. EndOf(pkt') = (k + sentNotAcked) + n
      BY <2>1 DEF EndOf, n
    <2>6. pkt'.id = streamId
      BY <2>1
    <2>7. ASSUME rd.open, pkt'.id = cur PROVE k + w <= Limit
      BY <2>1, <2>4, <2>6, <2>7 DEF CInv, WInv, GrantFits, k, w
    <2>8. ASSUME rd.open, pkt'.id = cur PROVE EndOf(pkt') <= Limit
      BY <2>2, <2>3, <2>4, <2>5, <2>7, <2>8, WholeFacts DEF CInv
    <2> QED BY <2>8 DEF Fits
  <1> QED BY <1>1, <1>2

\* The read loop, the sender loop and the drains keep the invariant.
LEMMA LoopsKeepW ==
    ASSUME CInv, ReadLoopRuns \/ SenderLoopRuns \/ \E s \in Stream : DrainRuns(s)
    PROVE  WInv'
  <1>0. /\ UNCHANGED <<netVars, h, clientVars>> /\ IInv /\ MInv /\ WInv
        /\ ReadLoop \/ SenderLoop \/ \E s \in Stream : Drain(s)
    BY DEF ReadLoopRuns, SenderLoopRuns, DrainRuns, CInv, DInv
  <1>1. HeadSame
    BY <1>0, HeadKept DEF HeadSame
  <1>2. CASE ReadLoop
    <2>1. pkt' = pkt /\ rl.pc # "off"
      BY <1>2 DEF ReadLoop, ReadData, StoreOnDisk, DiskWriteFails, DiskFileChanged,
         StoreInBuffer, ReadEnds
    <2>2. HandlerBusy'
      BY <1>0, <2>1 DEF WInv, HandlerBusy
    <2> QED BY <1>0, <1>1, <2>1, <2>2, WFrame DEF WInv
  <1>3. CASE \E s \in Stream : Drain(s)
    <2>1. pkt' = pkt /\ rl' = rl
      BY <1>3 DEF Drain, DrainGivesUp, DrainReads, DrainChecks, DrainWrites, DrainUpdates,
         DrainCatchesUp, DrainRepeats, DrainEnds
    <2> QED BY <1>0, <1>1, <2>1, WManager
  <1>4. CASE SenderLoop
    <2>1. rl' = rl
      BY <1>4 DEF SenderLoop, SenderStops, SenderWaits, PrepareBytes, PrepareTerminal,
         FailureDisconnects, FailureActivates, Disconnect, Activate
    <2>2. CASE PrepareBytes \/ PrepareTerminal
      <3>1. rd.open /\ pkt'.id = cur => Fits(pkt')
        BY <2>2, PreparedFits
      <3>2. SentFits'
        BY <1>0, <3>1 DEF WInv, SentFits, Fits, Limit, Position
      <3> QED BY <1>0, <1>1, <2>1, <3>2, WFrame DEF WInv
    <2>3. CASE ~(PrepareBytes \/ PrepareTerminal)
      <3>1. pkt' = pkt
        BY <1>4, <2>3 DEF SenderLoop, SenderStops, SenderWaits,
           FailureDisconnects, FailureActivates, Disconnect, Activate
      <3> QED BY <1>0, <1>1, <2>1, <3>1, WManager
    <2> QED BY <2>2, <2>3
  <1> QED BY <1>0, <1>2, <1>3, <1>4

\* So does the network with the packet it takes.
LEMMA SendKeepsW == ASSUME CInv, Sent \/ SendTimesOut PROVE WInv'
  <1>0. /\ UNCHANGED <<up, live, attached, anet, h, clientVars>> /\ Delivered
        /\ SendReturns \/ SendFails
        /\ IInv /\ MInv /\ WInv /\ DInv
    BY DEF Sent, SendTimesOut, CInv, DInv
  <1>1. HeadSame
    BY <1>0, HeadKept DEF HeadSame
  <1>2. rl' = rl /\ pkt' \in {pkt, NoPacket}
    BY <1>0 DEF SendReturns, SendFails
  <1>3. \A p \in Elements(dnet') : p \in Elements(dnet) \/ p = pkt
    BY <1>0, DeliveredEffect
  <1>4. SentFits'
    BY <1>0, <1>2, <1>3 DEF WInv, SentFits, Fits, EndOf, Limit, Position, NoPacket
  <1> QED BY <1>0, <1>1, <1>2, <1>4, WFrame DEF WInv

\* A packet that arrives fits, so the reader has room for it, and what it
\* acknowledges allows no more than that room.
LEMMA DataKeepsW == ASSUME CInv, DataArrives PROVE WInv'
  <1> DEFINE p == Head(dnet)
  <1>0. /\ dnet # <<>> /\ RecvData(p) /\ dnet' = Tail(dnet)
        /\ UNCHANGED <<vars, up, live, attached, faults, h, cur, cl, loop, file, gap, done>>
        /\ DInv /\ DInv' /\ WInv
    BY StepKeepsD, DataKeepsD DEF DataArrives, CInv
  <1>1. /\ p \in Packet /\ p \in Elements(dnet)
        /\ Elements(dnet') \subseteq Elements(dnet)
    BY <1>0, TailElements DEF DInv, DataInv
  <1> HIDE DEF p
  <1>2. /\ Received(p, rd, rd')
        /\ anet' = anet \/ \E a : Answered(p, rd', a) /\ Acked(a)
    BY <1>0, <1>1, RecvDataEffect DEF DInv, ReaderInv
  <1>3. \A a \in Elements(anet') : a \in Elements(anet) \/ Answered(p, rd', a)
    <2>1. ASSUME NEW a, Answered(p, rd', a), Acked(a)
          PROVE  Elements(anet') \subseteq Elements(anet) \union {a}
      <3>1. a \in AckState
        BY <2>1 DEF Answered
      <3> QED BY <1>0, <2>1, <3>1, AckedEffect DEF DInv, AckInv
    <2> QED BY <1>2, <2>1
  <1>4. /\ rd'.open = rd.open /\ rd'.id = cur
        /\ \A q \in rd'.ooo : q \in rd.ooo \/ (q = p /\ p.id = cur)
        /\ \/ rd'.next = rd.next
           \/ \E q \in rd.ooo : q.data # <<>> /\ rd'.next = EndOf(q)
           \/ p.id = cur /\ p.data # <<>> /\ rd'.next = EndOf(p)
        /\ rd.next <= rd'.next /\ (~rd.open => rd' = rd)
    BY <1>2, WholeFacts DEF Received, CInv
  <1>5. Limit' = Limit /\ Position' = Position
    BY <1>0 DEF Limit, Position
  <1>6. SentFits'
    BY <1>0, <1>1, <1>4, <1>5 DEF WInv, SentFits, Fits, EndOf, vars
  <1>7. CASE ~rd.open
    <2>1. rd' = rd /\ UNCHANGED <<h, rl>>
      BY <1>0, <1>4, <1>7 DEF vars
    <2> QED BY <1>0, <1>7, <2>1, WClosed DEF WInv, NotOverrun
  <1>8. CASE rd.open
    <2>1. rd'.next <= Limit
      <3>1. \A q : q.data # <<>> /\ Fits(q) => EndOf(q) <= Limit
        BY DEF Fits
      <3>2. rd.next <= Limit
        BY <1>0, <1>8, NextFits DEF WInv
      <3>3. (\A q \in rd.ooo : Fits(q)) /\ (p.id = cur => Fits(p))
        BY <1>0, <1>1, <1>8 DEF WInv, SentFits
      <3> QED BY <1>4, <3>1, <3>2, <3>3
    <2> DEFINE n == Len(rd'.buf)
               e == rd'.next
    <2>2. /\ n \in Nat /\ e \in Nat /\ Position + n = e /\ e <= Limit /\ rd' \in ReaderState
      <3>1. rd' \in ReaderState
        BY <1>2 DEF Received
      <3>2. Aligned'
        BY <1>0 DEF DInv
      <3>3. Position' + Len(rd'.buf) = rd'.next
        BY <1>4, <1>8, <3>2 DEF Aligned
      <3> QED BY <1>5, <2>1, <3>1, <3>3, ReaderFields
    <2>3. n <= Rwnd
      <3> HIDE DEF n, e
      <3> QED BY <2>2, WholeFacts DEF Limit, CInv
    <2>4. FreeWindow(rd') = Rwnd - n
      BY <2>2, <2>3, FreeWindowType
    <2>5. e + (Rwnd - n) = Limit
      <3> HIDE DEF n, e
      <3> QED BY <2>2, WholeFacts DEF Limit, CInv
    <2>6. NotOverrun'
      BY <2>3 DEF NotOverrun
    <2>7. AcksFit'
      <3>1. ASSUME NEW a \in Elements(anet'), a.id = cur, ~a.fin
            PROVE  a.seq + a.rwnd <= Limit /\ a.seq <= rd'.next
        <4>1. CASE a \in Elements(anet)
          <5>1. a.seq + a.rwnd <= Limit /\ a.seq <= rd.next /\ a.seq \in Nat
            <6>1. a \in AckState
              BY <1>0, <4>1 DEF DInv, AckInv, Elements
            <6> QED BY <1>0, <1>8, <3>1, <4>1, <6>1 DEF WInv, AcksFit, AckState
          <5> QED BY <1>4, <2>2, <5>1, WholeFacts DEF CInv
        <4>2. CASE Answered(p, rd', a)
          <5>1. a.seq = e /\ a.rwnd = Rwnd - n
            BY <2>4, <4>2 DEF Answered
          <5> HIDE DEF n, e
          <5>2. a.seq + a.rwnd <= Limit /\ a.seq <= e
            <6>1. Limit \in Nat /\ Rwnd \in Nat
              BY WholeFacts DEF CInv
            <6> QED BY <2>2, <2>5, <5>1, <6>1
          <5> QED BY <5>2 DEF e
        <4> QED BY <1>3, <3>1, <4>1, <4>2
      <3> QED BY <1>0, <1>5, <3>1 DEF AcksFit
    <2>8. GrantFits'
      BY <1>0, <1>4, <1>5 DEF WInv, GrantFits, vars
    <2>9. Offered'
      BY <1>0, <1>4 DEF WInv, Offered, vars
    <2>10. HandlerBusy'
      BY <1>0, <1>4 DEF WInv, HandlerBusy, vars
    <2>11. KeepsUnacked'
      <3>1. KeepsUnacked /\ UNCHANGED <<connected, streamId, cur, cl, cb>>
        BY <1>0 DEF WInv, vars
      <3>2. HeadOf(cb) <= rd.next => HeadOf(cb) <= rd'.next
        BY <1>4, <2>2, WholeFacts DEF CInv
      <3> QED BY <1>4, <3>1, <3>2 DEF KeepsUnacked
    <2> QED BY <1>6, <2>6, <2>7, <2>8, <2>9, <2>10, <2>11 DEF WInv
  <1>9. rd.open \in BOOLEAN
    BY WholeFacts, ReaderFields DEF CInv
  <1> QED BY <1>7, <1>8

\* A Read of the output loop makes room, and says so.
LEMMA LoopReadsKeepsW == ASSUME CInv, LoopReads PROVE WInv'
  <1>0. /\ UNCHANGED <<vars, up, live, attached, dnet, faults, h, cur, cl, loop, gap, done>>
        /\ DInv /\ DInv' /\ WInv /\ rd.open
    BY LoopReadsKeepsD DEF LoopReads, CInv
  <1>1. /\ rd' \in ReaderState /\ rd'.id = rd.id /\ rd'.next = rd.next
        /\ rd'.ooo = rd.ooo /\ rd'.open = rd.open
        /\ file' \in Seq(Byte)
        /\ Len(rd'.buf) <= Len(rd.buf)
        /\ Len(file') + Len(rd'.buf) = Len(file) + Len(rd.buf)
        /\ \/ anet' = anet
           \/ \E a \in AckState : /\ Acked(a) /\ a.id = rd.id /\ a.seq = rd.next
                                  /\ a.rwnd = FreeWindow(rd')
    BY <1>0, ReadEffect
  <1> DEFINE n == Len(rd.buf)
             m == Len(rd'.buf)
             e == rd.next
  <1>2. n \in Nat /\ m \in Nat /\ e \in Nat /\ m <= n /\ n <= Rwnd
    BY <1>0, <1>1, WholeFacts, ReaderFields DEF CInv, WInv, NotOverrun
  <1>3. Position + n = e /\ Position' + m = e /\ Position' \in Nat
    <2>1. Aligned' /\ file' \in Seq(Byte) /\ gap' \in Nat
      BY <1>0 DEF DInv, ProgressInv
    <2>2. Position' + m = e
      BY <1>0, <1>1, <2>1 DEF Aligned
    <2>3. Position' \in Nat
      BY <2>1 DEF Position
    <2> QED BY <1>0, <2>2, <2>3, WholeFacts
  <1>4. FreeWindow(rd') = Rwnd - m
    BY <1>1, <1>2, FreeWindowType, WholeFacts, SMTT(30) DEF CInv
  <1>5. /\ \A a \in Elements(anet') : \/ a \in Elements(anet)
                                      \/ a.seq = e /\ a.rwnd = Rwnd - m
        /\ \A a \in Elements(anet') : a.seq \in Nat /\ a.rwnd \in Nat
    <2>1. anet \in Seq(AckState) /\ anet' \in Seq(AckState)
      BY <1>0 DEF DInv, AckInv
    <2>2. ASSUME NEW a \in AckState, Acked(a)
          PROVE  Elements(anet') \subseteq Elements(anet) \union {a}
      BY <2>1, <2>2, AckedEffect
    <2>3. \A a \in Elements(anet') : a \in AckState
      BY <2>1 DEF Elements
    <2>4. \A a \in AckState : a.seq \in Nat /\ a.rwnd \in Nat
      BY RwndAssumption, SizesAssumption DEF AckState
    <2> HIDE DEF m
    <2> QED BY <1>1, <1>4, <2>2, <2>3, <2>4
  <1>6. UNCHANGED <<connected, streamId, rwndSize, cb, pkt, rl>>
    BY <1>0 DEF vars
  <1> HIDE DEF n, m, e
  <1> DEFINE at == Position'
             to == Limit'
  <1>7. Limit \in Nat /\ to \in Nat /\ Limit <= to /\ e + (Rwnd - m) = to
    <2>1. Position \in Nat /\ Rwnd \in Nat
      BY WholeFacts DEF CInv
    <2>2. Limit = Position + Rwnd /\ to = at + Rwnd
      BY DEF Limit
    <2>3. Position + n = e /\ at + m = e /\ at \in Nat
      BY <1>3
    <2> HIDE DEF at, to
    <2> QED BY <1>2, <2>1, <2>2, <2>3
  <1> HIDE DEF to
  <1>8. SentFits'
    <2>1. \A q : EndOf(q) \in Int /\ EndOf(q) <= Limit => EndOf(q) <= to
      BY <1>7
    <2>2. \A q \in Packet : EndOf(q) \in Int
      BY DEF Packet, EndOf
    <2>3. /\ \A q \in Elements(dnet) : q \in Packet
          /\ \A q \in rd.ooo : q \in Packet
          /\ pkt.data # <<>> => pkt \in Packet
      <3>1. pkt \in Packet \union {NoPacket}
        BY WholeFacts DEF CInv, IInv, Types, PktType
      <3> QED BY <1>0, <3>1, WholeFacts, ReaderFields
              DEF DInv, DataInv, Elements, StoredPacket, NoPacket
    <2>4. \A q : q \in Packet /\ Fits(q) => Fits(q)'
      BY <2>1, <2>2 DEF Fits, EndOf, to
    <2> QED BY <1>0, <1>1, <1>6, <2>3, <2>4 DEF WInv, SentFits, Fits, EndOf
  <1>9. GrantFits'
    <2>1. \A w \in Nat : HeadOf(cb) + w <= Limit => HeadOf(cb) + w <= to
      BY <1>7, WholeFacts DEF CInv
    <2>2. EffectiveWindow(rwndSize) \in Nat
      BY WindowBound, WholeFacts DEF CInv
    <2> QED BY <1>0, <1>1, <1>6, <2>1, <2>2 DEF WInv, GrantFits, to
  <1>10. AcksFit'
    <2>1. ASSUME NEW a \in Elements(anet'), a.id = cur, ~a.fin
          PROVE  a.seq + a.rwnd <= to /\ a.seq <= e
      <3>1. CASE a \in Elements(anet)
        <4>1. a.seq + a.rwnd <= Limit /\ a.seq <= e
          BY <1>0, <2>1, <3>1 DEF WInv, AcksFit, e
        <4> QED BY <1>5, <1>7, <4>1
      <3>2. CASE a.seq = e /\ a.rwnd = Rwnd - m
        BY <1>2, <1>7, <3>2
      <3> QED BY <1>5, <3>1, <3>2
    <2> QED BY <1>0, <1>1, <2>1 DEF AcksFit, e, to
  <1>11. Offered' /\ HandlerBusy' /\ KeepsUnacked'
    BY <1>0, <1>1, <1>6 DEF WInv, Offered, HandlerBusy, KeepsUnacked
  <1>12. NotOverrun'
    BY <1>2, WholeFacts DEF NotOverrun, CInv, n, m
  <1> QED BY <1>8, <1>9, <1>10, <1>11, <1>12 DEF WInv

\* A reader that closes, or is thrown away, keeps the invariant.
LEMMA CloseKeepsW ==
    ASSUME CInv, LoopEnds \/ AlreadyDone \/ CallFails \/ MainServerQuits
    PROVE  WInv'
  <1>0. WInv /\ DInv /\ UNCHANGED <<vars, h>>
    BY DEF CInv, LoopEnds, AlreadyDone, CallFails, CloseReader, MainServerQuits, LinkLost
  <1>1. \/ rd' = [rd EXCEPT !.open = FALSE]
        \/ rd' = [rd EXCEPT !.buf = <<>>, !.ooo = {}, !.open = FALSE]
    BY DEF LoopEnds, AlreadyDone, CallFails, CloseReader, MainServerQuits
  <1>2. rl' = rl /\ cur' = cur
    BY <1>0 DEF vars, LoopEnds, AlreadyDone, CallFails, CloseReader, MainServerQuits
  <1>3. ~rd'.open /\ NotOverrun'
    <2>1. CASE rd' = [rd EXCEPT !.open = FALSE]
      <3>1. ~rd'.open
        BY <1>0, <1>2, <2>1, ClosedReader
      <3>2. rd'.buf = rd.buf
        BY <2>1, WholeFacts DEF CInv, ReaderState
      <3> QED BY <1>0, <3>1, <3>2 DEF WInv, NotOverrun
    <2>2. CASE rd' = [rd EXCEPT !.buf = <<>>, !.ooo = {}, !.open = FALSE]
      <3>1. ~rd'.open /\ rd'.buf = <<>>
        BY <1>0, <1>2, <2>2, QuitReader
      <3> QED BY <3>1, RwndAssumption, SizesAssumption DEF NotOverrun
    <2> QED BY <1>1, <2>1, <2>2
  <1> QED BY <1>0, <1>2, <1>3, WClosed

\* A restart keeps the invariant: nothing in flight names the new stream.
LEMMA RestartKeepsW == ASSUME CInv, Restart PROVE WInv'
  <1>0. /\ WInv /\ DInv /\ UNCHANGED <<vars, dnet, h>> /\ cur' = cur + 1 /\ cur < MaxStreams
        /\ rd' = NewReader(cur + 1, Len(file') + gap) /\ cl'.pc = "ask"
        /\ anet' = anet \/ Acked(AckOf(rd, FALSE, TRUE))
    BY DEF CInv, Restart
  <1>1. UNCHANGED <<rl, pkt, connected, streamId, rwndSize>>
    BY <1>0 DEF vars
  <1>2. rd'.buf = <<>> /\ rd'.ooo = {}
    BY <1>0 DEF NewReader
  <1>3. cur \in Nat /\ cur' \in Stream /\ cur' # cur /\ \A i \in Stream : i <= cur => i # cur'
    BY <1>0, StreamNumbers DEF DInv, CallerInv
  <1>4. /\ \A p \in Elements(dnet') : p.id # cur'
        /\ \A a \in Elements(anet') : a.id # cur'
        /\ pkt'.id = cur' => pkt' = NoPacket
        /\ streamId' # cur'
    <2>1. \A p \in Elements(dnet) : p.id \in Stream /\ p.id <= cur
      <3>1. dnet \in Seq(Packet) /\ \A p \in Elements(dnet) : p.id <= cur
        BY <1>0 DEF DInv, DataInv
      <3>2. \A p \in Elements(dnet) : p \in Packet
        BY <3>1 DEF Elements
      <3> QED BY <3>1, <3>2 DEF Packet
    <2>2. \A a \in Elements(anet') : a.id \in Stream /\ a.id <= cur
      <3>1. anet' \in Seq(AckState) /\ \A a \in Elements(anet') : a.id <= cur
        <4>1. CASE anet' = anet
          BY <1>0, <4>1 DEF DInv, AckInv
        <4>2. CASE Acked(AckOf(rd, FALSE, TRUE))
          BY <1>0, <4>2, CloseEffect
        <4> QED BY <1>0, <4>1, <4>2
      <3>2. \A a \in Elements(anet') : a \in AckState
        BY <3>1 DEF Elements
      <3> QED BY <3>1, <3>2 DEF AckState
    <2>3. pkt # NoPacket => pkt.id \in Stream /\ pkt.id <= cur
      BY <1>0, WholeFacts DEF DInv, PacketInv, IInv, Types, PktType, Packet
    <2>4. streamId # NoStream => streamId \in Stream /\ streamId <= cur
      BY <1>0 DEF DInv, OwnerInv, IInv, Types, LinkType
    <2>5. NoStream # cur'
      BY <1>3, StreamNumbers
    <2> QED BY <1>0, <1>1, <1>3, <2>1, <2>2, <2>3, <2>4, <2>5
  <1>5. SentFits'
    BY <1>1, <1>2, <1>4 DEF SentFits, Fits, NoPacket
  <1>6. GrantFits' /\ AcksFit' /\ Offered' /\ KeepsUnacked'
    BY <1>0, <1>4 DEF GrantFits, AcksFit, Offered, KeepsUnacked
  <1>7. HandlerBusy'
    <2>1. h.id \in Stream /\ h.id <= cur
      BY <1>0 DEF DInv, HandlerInv, HandlerState
    <2> QED BY <1>0, <1>1, <1>3, <2>1 DEF WInv, HandlerBusy
  <1>8. NotOverrun'
    BY <1>2, RwndAssumption, SizesAssumption DEF NotOverrun
  <1> QED BY <1>5, <1>6, <1>7, <1>8 DEF WInv

\* The reply to a restart keeps the invariant: the cork keeps every byte from a
\* reader whose place is being changed, and the place is not behind the buffer.
LEMMA ReconcileKeepsW == ASSUME CInv, Reconcile PROVE WInv'
  <1>0. /\ WInv /\ DInv /\ UNCHANGED <<vars, netVars, h, cur>>
        /\ cl.pc = "resp" /\ ~cl.done /\ cl' = [cl EXCEPT !.pc = "start"]
        /\ rd' = [rd EXCEPT !.next = cl.seq]
    BY DEF CInv, Reconcile
  <1>1. /\ rd'.next = cl.seq /\ rd'.open = rd.open /\ rd'.buf = rd.buf /\ rd'.ooo = rd.ooo
        /\ cl'.pc = "start"
    BY <1>0, WholeFacts DEF CInv, ReaderState, CallerState
  <1>2. UNCHANGED <<cb, rl, pkt, connected, streamId, rwndSize, dnet, anet>>
    BY <1>0 DEF vars
  <1>3. NotOverrun'
    BY <1>0, <1>1 DEF WInv, NotOverrun
  <1>4. CASE ~rd.open
    BY <1>0, <1>1, <1>2, <1>3, <1>4, WClosed
  <1>5. CASE rd.open
    <2>1. Corked
      BY <1>0, <1>5 DEF Corked, DInv, CallerInv
    <2>2. SentFits'
      BY <1>0, <1>1, <1>2, <2>1 DEF SentFits, Fits, DInv, CorkSend, CorkRead
    <2>3. GrantFits'
      BY <1>0, <1>2, <2>1, WholeFacts DEF GrantFits, DInv, CorkSend
    <2>4. AcksFit'
      BY <1>0, <1>2, <2>1 DEF AcksFit, DInv, CorkRead
    <2>5. KeepsUnacked'
      BY <1>0, <1>1, <1>2, <1>5 DEF KeepsUnacked, WInv, Offered
    <2>6. HandlerBusy' /\ Offered'
      BY <1>0, <1>1, <1>2, <1>5 DEF HandlerBusy, Offered, WInv
    <2> QED BY <1>3, <2>2, <2>3, <2>4, <2>5, <2>6 DEF WInv
  <1>6. rd.open \in BOOLEAN
    BY WholeFacts, ReaderFields DEF CInv
  <1> QED BY <1>4, <1>5, <1>6

\* So does the output loop that starts, and the connection that is lost or returns.
LEMMA LinkKeepsW == ASSUME CInv, LoopStarts \/ LinkDrops \/ LinkReturns PROVE WInv'
  <1>0. WInv /\ UNCHANGED <<vars, h, cur, rd, file, gap>>
    BY DEF CInv, LoopStarts, LinkDrops, LinkReturns, LinkLost
  <1>1. UNCHANGED <<cb, rl, pkt, connected, streamId, rwndSize>> /\ HeadSame
    BY <1>0 DEF vars, HeadSame
  <1>2. dnet' = dnet \/ dnet' = <<>>
    BY DEF LoopStarts, LinkDrops, LinkReturns, LinkLost
  <1>3. Elements(anet') \subseteq Elements(anet)
    BY DEF LoopStarts, LinkDrops, LinkReturns, LinkLost, Elements
  <1>4. SentFits'
    BY <1>0, <1>1, <1>2 DEF WInv, SentFits, Fits, Limit, Position, Elements
  <1>5. \/ cl' = cl
        \/ cl.pc = "startok" /\ cl' = [cl EXCEPT !.pc = "run"]
        \/ cl' = [cl EXCEPT !.pc = "failed"]
    BY DEF LoopStarts, LinkDrops, LinkReturns
  <1>6. cl' = cl \/ (cl.pc = "startok" /\ cl'.pc = "run") \/ cl'.pc = "failed"
    BY <1>5, WholeFacts DEF CInv, CallerState
  <1>7. Offered' /\ KeepsUnacked' /\ HandlerBusy'
    BY <1>0, <1>1, <1>6 DEF WInv, Offered, KeepsUnacked, HandlerBusy
  <1> QED BY <1>0, <1>1, <1>3, <1>4, <1>7, WFrame DEF WInv

\* An acknowledgement that arrives grants no more than the reader's room, and
\* moves the head no further than the reader's place.
LEMMA AckKeepsW == ASSUME CInv, AckArrives PROVE WInv'
  <1> DEFINE a == Head(anet)
  <1>0. WInv /\ DInv /\ UNCHANGED <<up, live, dnet, faults, h, clientVars>>
    BY DEF AckArrives, CInv
  <1>1. /\ a \in AckState /\ a \in Elements(anet)
        /\ Elements(anet') \subseteq Elements(anet)
    BY TailElements DEF AckArrives, CInv, DInv, AckInv
  <1>2. UNCHANGED vars \/ (a.id \in attached /\ RecvAck(a))
    BY DEF AckArrives
  <1> HIDE DEF a
  <1>3. CASE UNCHANGED vars
    <2>1. HeadSame /\ UNCHANGED <<pkt, rl>>
      BY <1>3 DEF vars, HeadSame
    <2> QED BY <1>0, <1>1, <2>1, WFrame DEF WInv
  <1>4. CASE a.id \in attached /\ RecvAck(a)
    <2>1. a.seq \in Nat /\ a.rwnd \in Nat
      BY <1>1, RwndAssumption, SizesAssumption DEF AckState
    <2>2. /\ UNCHANGED <<rl, connected, streamId, pkt>>
          /\ \/ cb' = cb /\ rwndSize' = rwndSize
             \/ /\ connected /\ a.id = streamId /\ ~a.fin
                /\ HeadOf(cb') = a.seq /\ rwndSize' = a.rwnd
      BY <1>0, <1>4, <2>1, AckMoves DEF DInv
    <2>3. CASE cb' = cb /\ rwndSize' = rwndSize
      <3>1. HeadSame
        BY <2>2, <2>3 DEF HeadSame
      <3> QED BY <1>0, <1>1, <2>2, <3>1, WFrame DEF WInv
    <2>4. CASE /\ connected /\ a.id = streamId /\ ~a.fin
               /\ HeadOf(cb') = a.seq /\ rwndSize' = a.rwnd
      <3>1. ASSUME streamId = cur, rd.open
            PROVE  a.seq + a.rwnd <= Limit /\ a.seq <= rd.next
        BY <1>0, <1>1, <2>4, <3>1 DEF WInv, AcksFit
      <3>2. EffectiveWindow(a.rwnd) <= a.rwnd /\ EffectiveWindow(a.rwnd) \in Nat
        BY <2>1, SizesAssumption DEF EffectiveWindow, Lesser
      <3>3. ASSUME streamId = cur, rd.open
            PROVE  a.seq + EffectiveWindow(a.rwnd) <= Limit
        BY <2>1, <3>1, <3>2, <3>3, WholeFacts DEF CInv
      <3>4. Limit' = Limit
        BY <1>0 DEF Limit, Position
      <3>5. GrantFits'
        BY <1>0, <2>2, <2>4, <3>3, <3>4 DEF GrantFits
      <3>6. KeepsUnacked'
        BY <1>0, <2>2, <2>4, <3>1 DEF KeepsUnacked
      <3>7. Offered'
        <4>1. ~(cl.pc = "resp" /\ streamId = cur /\ rd.open)
          BY <1>0, <1>4, <2>4 DEF DInv, CallerInv, CorkSend, Corked
        <4> QED BY <1>0, <2>2, <4>1 DEF Offered
      <3> QED BY <1>0, <1>1, <2>2, <3>5, <3>6, <3>7, WFrame DEF WInv
    <2> QED BY <2>2, <2>3, <2>4
  <1> QED BY <1>2, <1>3, <1>4

\* The calls that hold JobManager.lock before ClientConnected keep the invariant.
LEMMA PreludeKeepsW ==
    ASSUME CInv, PrepareConnect \/ HandlerDisconnects \/ HandlerActivates
    PROVE  WInv'
  <1>0. WInv /\ DInv /\ UNCHANGED <<dnet, anet, cur, rd, file, gap>>
    BY DEF CInv, PrepareConnect, HandlerDisconnects, HandlerActivates
  <1>1. CASE PrepareConnect
    <2>1. UNCHANGED vars /\ cl.pc = "ask"
      BY <1>1 DEF PrepareConnect
    <2>2. HeadSame /\ UNCHANGED <<pkt, rl>>
      BY <2>1 DEF vars, HeadSame
    <2>3. \/ cl'.pc = "resp" /\ cl'.done /\ h' = h
          \/ cl'.pc = "wait" /\ ~h'.job
      <3>1. CASE termAcked
        BY <1>1, <3>1 DEF PrepareConnect
      <3>2. CASE ~termAcked
        BY <1>1, <3>2, WholeFacts DEF PrepareConnect, CInv, CallerState
      <3> QED BY <3>1, <3>2
    <2>4. Offered' /\ KeepsUnacked'
      BY <2>3 DEF Offered, KeepsUnacked
    <2>5. HandlerBusy'
      BY <1>0, <2>1, <2>2, <2>3 DEF WInv, HandlerBusy
    <2> QED BY <1>0, <2>2, <2>4, <2>5, WFrame DEF WInv
  <1>2. CASE HandlerDisconnects \/ HandlerActivates
    <2>1. /\ h' = [h EXCEPT !.pc = "activate"] \/ h' = [h EXCEPT !.pc = "connect"]
          /\ h.pc # "idle" /\ UNCHANGED clientVars
      BY <1>2 DEF HandlerDisconnects, HandlerActivates
    <2>2. h'.id = h.id /\ h'.job = h.job
      BY <2>1, WholeFacts DEF CInv, HandlerState
    <2>3. UNCHANGED <<rl, pkt>> /\ HeadSame
      <3>1. CASE HandlerDisconnects
        <4>1. ~connected'
          BY <1>0, <3>1, DisconnectPlaces DEF HandlerDisconnects, ClientDisconnected, DInv
        <4> QED BY <3>1, <4>1 DEF HandlerDisconnects, ClientDisconnected, Disconnect, HeadSame
      <3>2. CASE HandlerActivates
        BY <3>2 DEF HandlerActivates, ActivateDiskBuffering, Activate, HeadSame
      <3> QED BY <1>2, <3>1, <3>2
    <2>4. HandlerBusy'
      BY <1>0, <2>1, <2>2, <2>3 DEF WInv, HandlerBusy
    <2> QED BY <1>0, <2>1, <2>3, <2>4, WFrame DEF WInv
  <1> QED BY <1>1, <1>2

\* So do ClientConnected's first two steps, and the call that is refused.
LEMMA ConnectKeepsW ==
    ASSUME CInv, HandlerConnects \/ HandlerRefused \/ HandlerConsumes
    PROVE  WInv'
  <1>0. WInv /\ DInv /\ UNCHANGED <<dnet, anet, cur, rd, file, gap>>
    BY DEF CInv, HandlerConnects, HandlerRefused, HandlerConsumes
  <1>1. CASE HandlerConnects \/ HandlerConsumes
    <2>1. UNCHANGED <<rl, pkt, connected>> /\ ~connected /\ UNCHANGED clientVars
      <3>1. CASE HandlerConnects
        BY <3>1, Zenon DEF HandlerConnects, ConnectBegins, readVars, clientVars
      <3>2. CASE HandlerConsumes
        <4>1. ConnectConsumes /\ UNCHANGED clientVars
          BY <3>2 DEF HandlerConsumes
        <4>2. UNCHANGED <<rl, pkt, connected>> /\ cc.pc = "consume"
          BY <4>1 DEF ConnectConsumes
        <4> QED BY <1>0, <4>1, <4>2 DEF DInv, IInv, Locked
      <3> QED BY <1>1, <3>1, <3>2
    <2>2. HeadSame
      BY <2>1 DEF HeadSame
    <2>3. h'.id = h.id /\ h'.job = h.job /\ (h'.pc # "idle" => h.pc # "idle")
      <3>1. h' = h \/ (h.pc = "connect" /\ h' = [h EXCEPT !.pc = "connecting"])
        BY <1>1 DEF HandlerConnects, HandlerConsumes
      <3> QED BY <3>1, WholeFacts DEF CInv, HandlerState
    <2>4. HandlerBusy'
      BY <1>0, <2>1, <2>3 DEF WInv, HandlerBusy
    <2> QED BY <1>0, <2>1, <2>2, <2>4, WFrame DEF WInv
  <1>2. CASE HandlerRefused
    <2>1. /\ UNCHANGED vars /\ h' = [h EXCEPT !.pc = "idle"]
          /\ cl' = cl \/ cl' = [cl EXCEPT !.pc = "failed"]
      BY <1>2, RepliedEffect DEF HandlerRefused
    <2>2. h'.pc = "idle" /\ (cl' = cl \/ cl'.pc = "failed")
      BY <2>1, WholeFacts DEF CInv, HandlerState, CallerState
    <2>3. HeadSame /\ UNCHANGED <<pkt, rl, connected, streamId, cb>>
      BY <2>1 DEF vars, HeadSame
    <2>4. HandlerBusy' /\ Offered' /\ KeepsUnacked'
      BY <1>0, <2>2, <2>3 DEF WInv, HandlerBusy, Offered, KeepsUnacked
    <2> QED BY <1>0, <2>3, <2>4, WFrame DEF WInv
  <1> QED BY <1>1, <1>2

\* The client is connected: a restart with its window closed, at the position it
\* is told; StartJob's with a buffer that is still empty.
LEMMA ConnectedKeepsW == ASSUME CInv, Calm, HandlerConnected PROVE WInv'
  <1>0. /\ WInv /\ DInv /\ UNCHANGED <<dnet, anet, cur, rd, file, gap>>
        /\ ConnectEnds /\ h.pc = "connecting"
    BY DEF CInv, HandlerConnected
  <1>1. /\ streamId' = cc.id /\ rwndSize' = cc.rwnd
        /\ HeadOf(cb') = HeadOf(cb) /\ HeadOf(cb) <= StartSeq
    BY <1>0, EndsKeepsM DEF CInv, DInv
  <1>2. cc.id = h.id /\ cc.rwnd = IF h.job THEN Rwnd ELSE 0
    BY <1>0 DEF DInv, CallInv, ConnectEnds
  <1>3. UNCHANGED <<rl, pkt>>
    BY <1>0 DEF ConnectEnds
  <1>4. ASSUME streamId' = cur, rd.open PROVE cl.pc \in {"wait", "failed"}
    BY <1>0, <1>1, <1>2, <1>4 DEF WInv, HandlerBusy
  <1>5. /\ h'.id = h.id /\ h'.job = h.job
        /\ h'.pc = IF h.job THEN "attach" ELSE "idle"
    <2> DEFINE p == IF h.job THEN "attach" ELSE "idle"
    <2>1. h' = [h EXCEPT !.pc = p]
      BY DEF HandlerConnected
    <2> HIDE DEF p
    <2>2. h'.id = h.id /\ h'.job = h.job /\ h'.pc = p
      BY <2>1, WholeFacts DEF CInv, HandlerState
    <2> QED BY <2>2 DEF p
  <1>6. h.job \in BOOLEAN
    BY WholeFacts DEF CInv, HandlerState
  <1>7. CASE h.job
    <2>1. cl' = cl /\ rwndSize' = Rwnd
      BY <1>1, <1>2, <1>7 DEF HandlerConnected
    <2>2. rl.pc = "off"
      BY <1>0, <1>7 DEF WInv, HandlerBusy
    <2>3. HeadOf(cb) <= 0
      BY <2>2, WholeFacts, ManagerFacts DEF CInv, MInv, Fresh
    <2>4. HeadOf(cb) + EffectiveWindow(Rwnd) <= Limit
      <3>1. EffectiveWindow(Rwnd) <= Rwnd /\ EffectiveWindow(Rwnd) \in Nat
        BY RwndAssumption, SizesAssumption DEF EffectiveWindow, Lesser
      <3> QED BY <2>3, <3>1, WholeFacts DEF CInv, Limit
    <2>5. Limit' = Limit
      BY <1>0 DEF Limit, Position
    <2>6. GrantFits'
      BY <1>1, <2>1, <2>4, <2>5 DEF GrantFits
    <2>7. Offered' /\ KeepsUnacked'
      BY <1>0, <1>4, <2>1 DEF Offered, KeepsUnacked
    <2>8. HandlerBusy'
      BY <1>0, <1>3, <1>5, <2>1 DEF WInv, HandlerBusy
    <2> QED BY <1>0, <1>3, <2>6, <2>7, <2>8, WFrame DEF WInv
  <1>8. CASE ~h.job
    <2>1. rwndSize' = 0 /\ h'.pc = "idle"
      BY <1>1, <1>2, <1>5, <1>8
    <2>2. \/ cl' = cl
          \/ cl'.pc = "resp" /\ cl'.seq = StartSeq
      <3>1. Replied([pc |-> "resp", seq |-> StartSeq, done |-> FALSE])
        BY <1>8 DEF HandlerConnected
      <3> QED BY <3>1, RepliedEffect
    <2>3. GrantFits' /\ HandlerBusy'
      BY <2>1 DEF GrantFits, HandlerBusy
    <2>4. Offered' /\ KeepsUnacked'
      BY <1>0, <1>1, <1>4, <2>2 DEF Offered, KeepsUnacked
    <2> QED BY <1>0, <1>3, <2>3, <2>4, WFrame DEF WInv
  <1> QED BY <1>6, <1>7, <1>8

\* StartJob goes on: nothing was written yet, so nothing was discarded.
LEMMA JobStartedKeepsW == ASSUME CInv, JobStarted PROVE WInv'
  <1>0. /\ WInv /\ DInv /\ UNCHANGED <<dnet, anet, cur, rd, file, gap>> /\ AttachReader
        /\ h.pc = "attach" /\ h' = [h EXCEPT !.pc = "idle"]
        /\ cl' = cl \/ cl' = [cl EXCEPT !.pc = "startok"]
    BY RepliedEffect DEF CInv, JobStarted
  <1>1. h'.pc = "idle" /\ (cl' = cl \/ cl'.pc = "startok")
    BY <1>0, WholeFacts DEF CInv, HandlerState, CallerState
  <1>2. UNCHANGED <<cb, connected, streamId, rwndSize, pkt>> /\ HeadSame /\ rl.pc = "off"
    BY <1>0 DEF AttachReader, HeadSame
  <1>3. HeadOf(cb) <= rd.next
    <2>1. HeadOf(cb) <= 0
      BY <1>2, WholeFacts, ManagerFacts DEF CInv, MInv, Fresh
    <2> QED BY <2>1, WholeFacts DEF CInv
  <1>4. Offered' /\ KeepsUnacked'
    BY <1>0, <1>1, <1>2, <1>3 DEF WInv, Offered, KeepsUnacked
  <1>5. HandlerBusy'
    BY <1>1 DEF HandlerBusy
  <1> QED BY <1>0, <1>2, <1>4, <1>5, WFrame DEF WInv

\* StartStream opens the window of a reader that holds nothing: the buffer's
\* head is not past its place, so what is granted fits.
LEMMA StartStreamKeepsW == ASSUME CInv, StartStream PROVE WInv'
  <1>0. /\ WInv /\ DInv /\ UNCHANGED <<dnet, anet, h, cur, rd, file, gap>>
        /\ cl.pc = "start" /\ h.pc = "idle"
    BY DEF CInv, StartStream
  <1>1. CASE UNCHANGED vars /\ cl' = [cl EXCEPT !.pc = "failed"]
    <2>1. HeadSame /\ UNCHANGED <<pkt, rl>>
      BY <1>1 DEF vars, HeadSame
    <2>2. cl'.pc = "failed"
      BY <1>1, WholeFacts DEF CInv, CallerState
    <2>3. Offered' /\ KeepsUnacked' /\ HandlerBusy'
      BY <1>0, <2>2 DEF Offered, KeepsUnacked, HandlerBusy
    <2> QED BY <1>0, <2>1, <2>3, WFrame DEF WInv
  <1>2. CASE SetRwndSize(Rwnd) /\ cl' = [cl EXCEPT !.pc = "startok"]
    <2>1. /\ UNCHANGED <<rl, connected, streamId, pkt>> /\ connected /\ rwndSize' = Rwnd
          /\ HeadOf(cb') = HeadOf(cb)
      BY <1>2, RwndMoves, WholeFacts DEF CInv
    <2>2. cl'.pc = "startok"
      BY <1>2, WholeFacts DEF CInv, CallerState
    <2>3. ASSUME streamId = cur, rd.open PROVE HeadOf(cb) <= rd.next
      BY <1>0, <2>1, <2>3 DEF WInv, KeepsUnacked
    <2>4. ASSUME rd.open PROVE rd.next = Position
      <3>1. rd.buf = <<>>
        BY <1>0, <2>4 DEF DInv, CallerInv, CorkRead, Corked
      <3> QED BY <2>4, <3>1, WholeFacts DEF CInv
    <2>5. ASSUME streamId = cur, rd.open PROVE HeadOf(cb) + EffectiveWindow(Rwnd) <= Limit
      <3>1. EffectiveWindow(Rwnd) <= Rwnd /\ EffectiveWindow(Rwnd) \in Nat
        BY RwndAssumption, SizesAssumption DEF EffectiveWindow, Lesser
      <3>2. HeadOf(cb) <= Position
        BY <2>3, <2>4, <2>5
      <3> QED BY <3>1, <3>2, WholeFacts DEF CInv, Limit
    <2>6. Limit' = Limit
      BY <1>0 DEF Limit, Position
    <2>7. GrantFits' /\ KeepsUnacked'
      BY <1>0, <2>1, <2>3, <2>5, <2>6 DEF GrantFits, KeepsUnacked
    <2>8. Offered' /\ HandlerBusy'
      BY <1>0, <2>2 DEF Offered, HandlerBusy
    <2> QED BY <1>0, <2>1, <2>7, <2>8, WFrame DEF WInv
  <1> QED BY <1>1, <1>2 DEF StartStream

\* Every step outside the windows keeps the invariant.
LEMMA StepKeepsC == CInv /\ [DNext /\ Calm]_dvars => CInv'
  <1>1. ASSUME CInv, UNCHANGED dvars PROVE WInv'
    <2>1. UNCHANGED <<netVars, h, clientVars, pkt, rl, cb, connected, streamId, rwndSize>>
      BY <1>1 DEF dvars, vars
    <2>2. HeadSame
      BY <2>1 DEF HeadSame
    <2> QED BY <1>1, <2>1, <2>2, WManager DEF CInv
  <1>2. ASSUME CInv, DNext, Calm PROVE WInv'
    BY <1>2, LoopsKeepW, SendKeepsW, DataKeepsW, LoopReadsKeepsW, CloseKeepsW, RestartKeepsW,
       ReconcileKeepsW, LinkKeepsW, AckKeepsW, PreludeKeepsW, ConnectKeepsW, ConnectedKeepsW,
       JobStartedKeepsW, StartStreamKeepsW, Zenon
       DEF DNext, JobManager, JobController
  <1> QED BY <1>1, <1>2, StepKeepsM DEF CInv

\* And so does the part of both ends.
LEMMA InitC == DInit => CInv
  BY InitDM, InitW DEF CInv

\* Outside the four windows the job manager never discards a byte that the main
\* server lacks while its stream is connected, for every size of window, packet
\* and buffer and every number of restarts, faults and late acknowledgements.
THEOREM UnackedKept == CalmSpec => []KeepsUnacked
  <1>1. CInv => KeepsUnacked
    BY DEF CInv, WInv
  <1> QED BY <1>1, InitC, StepKeepsC, PTL DEF CalmSpec

\* And its reader is never sent more than it has room for: corks, window
\* updates, packets out of order, repeated sends and restarts never add up to a
\* grant past the end of its window.
THEOREM NeverOverrun == CalmSpec => []NotOverrun
  <1>1. CInv => NotOverrun
    BY DEF CInv, WInv
  <1> QED BY <1>1, InitC, StepKeepsC, PTL DEF CalmSpec
=============================================================================

----------------------------- MODULE PipeProofs -----------------------------
(***************************************************************************)
(* Outside the windows of DurableStream every byte keeps its place, and    *)
(* the durable terminal implements the abstract pipe, for every window,    *)
(* packet, buffer and number of connections, faults and bytes.             *)
(*                                                                         *)
(* Three invariants come on top of what CalmProofs proves.  BInv: every    *)
(* byte the stream manager holds, in the read loop's hands, in the buffer  *)
(* or in the disk file, is the one its position names.  OInv: so is every  *)
(* byte in a packet, in the reader and in the file, which is in the order  *)
(* of the output; and no restart asks for a position past the output.      *)
(* These two hold through every fault but a failed disk write (SInv).      *)
(* PInv: nothing received is lost, acknowledgements and the calls of the   *)
(* restart handshake stay true, and while disk files can be opened the     *)
(* buffer's head never passes what the reader has (RInv, under Faithful).  *)
(***************************************************************************)
EXTENDS CalmProofs

USE CirBufSizeAssumption, NoWriterAssumption
USE DEF readVars, ackVars, termVars, diskVars, drainVars, netVars, clientVars

-----------------------------------------------------------------------------
(* Bytes in their place *)

\* Byte i of the program's output is the number i: the data that starts at a
\* position of the stream holds the bytes that follow it.
At(seq, data) == \A k \in DOMAIN data : data[k] = seq + k

\* What is left of data in its place is in its place.
LEMMA AtDrop ==
    ASSUME NEW s \in Seq(Byte), NEW seq \in Int, At(seq, s), NEW n \in Nat, n <= Len(s)
    PROVE  At(seq + n, DropFirst(s, n))
  <1>1. Len(s) \in Nat /\ \A k \in 1..Len(s) : s[k] = seq + k
    BY DEF At
  <1>2. DropFirst(s, n) = [i \in 1..(Len(s) - n) |-> s[i + n]]
    BY <1>1 DEF DropFirst
  <1>3. ASSUME NEW i \in 1..(Len(s) - n) PROVE s[i + n] = (seq + n) + i
    <2>1. i + n \in 1..Len(s) /\ i \in Int
      BY <1>1
    <2>2. s[i + n] = seq + (i + n)
      BY <1>1, <2>1
    <2> QED BY <2>1, <2>2
  <1> QED BY <1>2, <1>3 DEF At

\* So is a part of it,
LEMMA AtSub ==
    ASSUME NEW s \in Seq(Byte), NEW seq \in Int, At(seq, s),
           NEW a \in Nat, NEW b \in Nat, a <= b, b <= Len(s)
    PROVE  At(seq + a, SubSeq(s, a + 1, b)) /\ Len(SubSeq(s, a + 1, b)) = b - a
  <1>1. Len(s) \in Nat /\ \A k \in 1..Len(s) : s[k] = seq + k
    BY DEF At
  <1>2. SubSeq(s, a + 1, b) = [i \in 1..(b - a) |-> s[i + a]]
    BY <1>1
  <1>3. ASSUME NEW i \in 1..(b - a) PROVE s[i + a] = (seq + a) + i
    <2>1. i + a \in 1..Len(s) /\ i \in Int
      BY <1>1
    <2>2. s[i + a] = seq + (i + a)
      BY <1>1, <2>1
    <2> QED BY <2>1, <2>2
  <1> QED BY <1>2, <1>3 DEF At

\* and data that is put where other data ends.
LEMMA AtJoin ==
    ASSUME NEW s \in Seq(Byte), NEW t \in Seq(Byte), NEW seq \in Int,
           At(seq, s), At(seq + Len(s), t)
    PROVE  At(seq, s \o t)
  <1>1. /\ Len(s) \in Nat /\ Len(t) \in Nat
        /\ \A k \in 1..Len(s) : s[k] = seq + k
        /\ \A k \in 1..Len(t) : t[k] = (seq + Len(s)) + k
    BY DEF At
  <1>2. /\ DOMAIN (s \o t) = 1..(Len(s) + Len(t))
        /\ \A k \in 1..(Len(s) + Len(t)) :
              (s \o t)[k] = IF k <= Len(s) THEN s[k] ELSE t[k - Len(s)]
    OBVIOUS
  <1>3. ASSUME NEW k \in 1..(Len(s) + Len(t)) PROVE (s \o t)[k] = seq + k
    <2>1. CASE k <= Len(s)
      BY <1>1, <1>2, <2>1
    <2>2. CASE ~(k <= Len(s))
      <3>1. k - Len(s) \in 1..Len(t)
        BY <1>1, <2>2
      <3>2. t[k - Len(s)] = (seq + Len(s)) + (k - Len(s))
        BY <1>1, <3>1
      <3>3. (seq + Len(s)) + (k - Len(s)) = seq + k
        BY <1>1
      <3> QED BY <1>2, <2>2, <3>2, <3>3
    <2> QED BY <2>1, <2>2
  <1> QED BY <1>2, <1>3 DEF At

\* A buffer that holds its bytes in their place.
Holds(b) == At(HeadOf(b), b.data) /\ Len(b.data) <= CirBufSize

\* A write of bytes that follow those of the buffer keeps them in their place.
LEMMA WriteHolds ==
    ASSUME NEW b \in Buffer, Holds(b), NEW w \in Writer, NEW d \in Seq(Byte),
           At(b.total, d)
    PROVE  Holds(BufWrite(b, w, d))
  <1> DEFINE n == Writable(b, d)
             l == Dropped(b, n)
             c == BufWrite(b, w, d)
             k == Len(b.data)
  <1>1. /\ b.data \in Seq(Byte) /\ k \in Nat /\ b.total \in Int /\ b.window \in 0..CirBufSize
        /\ n \in 0..Len(d) /\ n \in Nat /\ Len(d) \in Nat
        /\ b.sync /\ n > 0 => k + n <= b.window
    BY BufFields, WritableType
  <1>2. CASE n > 0
    <2> DEFINE whole == b.data \o SubSeq(d, 1, n)
    <2>1. At(b.total, SubSeq(d, 1, n)) /\ Len(SubSeq(d, 1, n)) = n /\ SubSeq(d, 1, n) \in Seq(Byte)
      <3> HIDE DEF n
      <3>1. At(b.total + 0, SubSeq(d, 0 + 1, n)) /\ Len(SubSeq(d, 0 + 1, n)) = n - 0
        <4>1. 0 \in Nat /\ 0 <= n /\ n <= Len(d)
          BY <1>1
        <4> QED BY <1>1, <4>1, AtSub
      <3>2. b.total + 0 = b.total /\ 0 + 1 = 1 /\ n - 0 = n
        BY <1>1
      <3>3. SubSeq(d, 1, n) \in Seq(Byte)
        BY <1>1
      <3> QED BY <3>1, <3>2, <3>3
    <2>2. At(HeadOf(b), b.data) /\ HeadOf(b) + k = b.total /\ HeadOf(b) \in Int
      BY <1>1 DEF Holds, HeadOf
    <2>3. At(HeadOf(b), whole)
      BY <1>1, <2>1, <2>2, AtJoin
    <2>4. whole \in Seq(Byte) /\ Len(whole) = k + n
      BY <1>1, <2>1, JoinType
    <2>5. l \in Nat /\ l <= k + n /\ k + n - l <= b.window
      BY <1>1 DEF Dropped, Greater
    <2>6. c.data = DropFirst(whole, l) /\ c.total = b.total + n
      BY <1>2, WriteRec DEF BufRec
    <2> HIDE DEF n, l, c, k, whole
    <2>7. At(HeadOf(b) + l, c.data) /\ Len(c.data) = k + n - l
      <3>1. l <= Len(whole)
        BY <2>4, <2>5
      <3>2. At(HeadOf(b) + l, DropFirst(whole, l))
        BY <2>2, <2>3, <2>4, <2>5, <3>1, AtDrop
      <3>3. Len(DropFirst(whole, l)) = k + n - l
        <4>1. Len(DropFirst(whole, l)) = Len(whole) - l
          BY <2>4, <2>5, <3>1, DropType
        <4>2. Len(whole) - l = k + n - l
          BY <1>1, <2>4, <2>5
        <4> QED BY <4>1, <4>2
      <3> QED BY <2>6, <3>2, <3>3
    <2>8. HeadOf(c) = HeadOf(b) + l
      BY <1>1, <2>2, <2>5, <2>6, <2>7 DEF HeadOf
    <2>9. Len(c.data) <= CirBufSize
      BY <1>1, <2>5, <2>7
    <2> QED BY <2>7, <2>8, <2>9 DEF Holds, c
  <1>3. CASE ~(n > 0)
    <2> DEFINE yes == TRUE
    <2>1. c = [b EXCEPT !.waiter = w] \/ c = [b EXCEPT !.panic = yes]
      BY <1>3, Zenon DEF BufWrite
    <2> HIDE DEF c, n, yes
    <2>2. c.data = b.data /\ c.total = b.total
      BY <2>1 DEF Buffer
    <2> QED BY <2>2 DEF Holds, HeadOf, c
  <1> QED BY <1>2, <1>3

\* Dropping bytes at the head keeps the others in their place.
LEMMA ConsumeHolds ==
    ASSUME NEW b \in Buffer, Holds(b), NEW n \in Nat, n <= Len(b.data)
    PROVE  Holds(BufConsume(b, n))
  <1>1. /\ b.data \in Seq(Byte) /\ Len(b.data) \in Nat /\ b.total \in Int
    BY BufFields
  <1>2. /\ BufConsume(b, n).data = DropFirst(b.data, n)
        /\ BufConsume(b, n).total = b.total
    BY ConsumeRec DEF BufRec
  <1>3. HeadOf(b) \in Int /\ HeadOf(BufConsume(b, n)) = HeadOf(b) + n
    BY <1>1, ConsumePlaces DEF HeadOf
  <1>4. /\ Len(BufConsume(b, n).data) = Len(b.data) - n
        /\ At(HeadOf(b) + n, DropFirst(b.data, n))
    BY <1>1, <1>3, AtDrop, ConsumeType DEF Holds
  <1>5. Len(BufConsume(b, n).data) <= CirBufSize
    BY <1>1, <1>4 DEF Holds
  <1> QED BY <1>2, <1>3, <1>4, <1>5 DEF Holds

\* A window that blocks drops nothing, nor does one that does not block and is
\* the whole buffer.
LEMMA WindowHolds ==
    ASSUME NEW b \in Buffer, Holds(b), NEW sync \in BOOLEAN, NEW window \in Nat,
           sync \/ window = CirBufSize
    PROVE  /\ Holds(BufSetWindow(b, sync, window))
           /\ HeadOf(BufSetWindow(b, sync, window)) = HeadOf(b)
  <1> DEFINE w    == Lesser(window, CirBufSize)
             over == IF sync THEN 0 ELSE Greater(0, Len(b.data) - w)
             c    == BufSetWindow(b, sync, window)
  <1>1. /\ b.data \in Seq(Byte) /\ Len(b.data) \in Nat /\ b.total \in Int
    BY BufFields
  <1>2. over = 0
    <2>1. Len(b.data) <= CirBufSize
      BY DEF Holds
    <2>2. CASE sync
      BY <2>2
    <2>3. CASE ~sync
      <3>1. w = CirBufSize /\ over = Greater(0, Len(b.data) - w)
        BY <2>3 DEF Lesser
      <3> HIDE DEF w, over
      <3> QED BY <1>1, <2>1, <3>1 DEF Greater
    <2> QED BY <2>2, <2>3
  <1>3. c.data = DropFirst(b.data, over) /\ c.total = b.total
    BY WindowRec DEF BufRec
  <1> HIDE DEF over, c
  <1>4. c.data = b.data
    BY <1>1, <1>2, <1>3 DEF DropFirst
  <1>5. HeadOf(c) = HeadOf(b) /\ Holds(c)
    BY <1>3, <1>4 DEF Holds, HeadOf
  <1> QED BY <1>5 DEF c

-----------------------------------------------------------------------------
(* The stream manager keeps bytes in their place *)

\* How many bytes the read loop has put into one of its two stores.
Stored == produced - Len(rl.data)

\* The output has ended, at this position.
Ended(at) == rl.pc = "done" /\ at = produced

\* A packet names its bytes, which are stored, or the end.
Good(p) ==
    /\ At(p.seq, p.data) /\ EndOf(p) <= Stored
    /\ p.end # "none" => p.end \in Terminal /\ Ended(p.seq)

\* What the read loop carries comes after what it stored.
LoopHolds ==
    /\ rl.pc \notin {"disk", "buf"} => rl.data = <<>>
    /\ At(Stored, rl.data) /\ Len(rl.data) <= produced

\* What it stored ends where the disk file does, or the buffer without one.
StoreEnds == IF diskFile = 0 THEN cb.total = Stored ELSE diskEnd = Stored

FileHolds == diskFile # 0 => At(diskStart, content)

\* The end is the end.
EndKnown ==
    /\ term \in Terminal \union {"none"} /\ (term # "none" <=> rl.pc = "done")
    /\ term # "none" => eofPos = produced

BInv == LoopHolds /\ StoreEnds /\ Holds(cb) /\ FileHolds /\ EndKnown /\ Good(pkt)

\* What the proofs below take from the invariants: types, and that the buffer
\* never ends past what was stored.
LEMMA ByteFacts ==
    ASSUME IInv, Place, MInv, BInv
    PROVE  /\ produced \in Nat /\ Stored \in Nat /\ Stored <= produced
           /\ produced = Stored + Len(rl.data)
           /\ cb.total \in Nat /\ cb.total <= Stored
           /\ Greater(cb.total, diskEnd) = Stored
           /\ diskFile # 0 => /\ diskStart <= diskRead /\ diskRead <= diskEnd
                              /\ Len(content) = diskEnd - diskStart /\ content \in Seq(Byte)
  <1>1. /\ produced \in Nat /\ cb.total \in Nat /\ diskEnd \in Nat /\ content \in Seq(Byte)
        /\ diskRead \in Int /\ diskStart \in Int /\ cc.seq \in Int
        /\ Len(rl.data) \in Nat /\ Len(rl.data) <= produced
    BY ManagerFacts DEF Place, IInv, Types, ProducedType, DiskType, BInv, LoopHolds
  <1>2. Stored \in Nat /\ Stored <= produced /\ produced = Stored + Len(rl.data)
    BY <1>1 DEF Stored
  <1>3. CASE diskFile = 0
    <2>1. cb.total = Stored /\ diskEnd = 0
      BY <1>3 DEF BInv, StoreEnds, MInv, NoFile
    <2> QED BY <1>1, <1>2, <1>3, <2>1 DEF Greater
  <1>4. CASE diskFile # 0
    <2>1. /\ diskStart <= diskRead /\ diskRead <= diskEnd
          /\ Len(content) = diskEnd - diskStart /\ diskEnd = Stored
      BY <1>4 DEF IInv, DiskShape, BInv, StoreEnds
    <2>2. cb.total <= diskEnd
      <3>1. CASE cc.pc = "window"
        <4>1. cb.total = Greater(diskRead, cc.seq) /\ cc.seq <= diskEnd
          BY <1>4, <3>1 DEF MInv, Seam, CallSeq
        <4> QED BY <1>1, <2>1, <4>1 DEF Greater
      <3>2. ASSUME NEW s \in Stream, Updating(s) PROVE cb.total <= diskEnd
        <4>1. cb.total = diskRead + drains[s].n /\ Mine(s)
          BY <1>4, <3>2 DEF MInv, Seam, Cutless, Updating
        <4> QED BY <3>2, <4>1, CarriedEnd DEF Updating
      <3>3. CASE cc.pc # "window" /\ \A s \in Stream : ~Updating(s)
        BY <1>4, <2>1, <3>3 DEF MInv, Seam
      <3> QED BY <3>1, <3>2, <3>3
    <2> QED BY <1>1, <1>2, <1>4, <2>1, <2>2 DEF Greater
  <1> QED BY <1>1, <1>2, <1>3, <1>4

\* The output only grows, and not at all once it has ended.
Onward == Stored <= Stored' /\ (rl.pc = "done" => UNCHANGED readVars)

\* A packet that is good stays so.
LEMMA GoodStays ==
    ASSUME Onward, Stored \in Int, Stored' \in Int, NEW p, EndOf(p) \in Int, Good(p)
    PROVE  Good(p)'
  <1>1. At(p.seq, p.data) /\ EndOf(p) <= Stored /\ (p.end # "none" => p.end \in Terminal /\ Ended(p.seq))
    BY DEF Good
  <1> DEFINE e == EndOf(p)
             u == Stored
             v == Stored'
  <1>2. e <= u /\ u <= v /\ e \in Int /\ u \in Int /\ v \in Int
    BY <1>1 DEF Onward
  <1> HIDE DEF e, u, v
  <1>3. e <= v
    BY <1>2
  <1>4. Ended(p.seq) => Ended(p.seq)'
    BY DEF Ended, Onward
  <1> QED BY <1>1, <1>3, <1>4 DEF Good, e, v, At, EndOf

\* The end of a packet is a number.
LEMMA PacketEnd ==
    ASSUME NEW p \in Packet \union {NoPacket}
    PROVE  EndOf(p) \in Int /\ p.seq \in Int /\ p.data \in Seq(Byte) /\ Len(p.data) \in Nat
  <1>1. p.seq \in Int /\ p.data \in Seq(Byte)
    <2>1. CASE p \in Packet
      BY <2>1 DEF Packet
    <2>2. CASE p = NoPacket
      <3>1. p.seq = 0 /\ p.data = <<>>
        BY <2>2 DEF NoPacket
      <3> QED BY <3>1
    <2> QED BY <2>1, <2>2
  <1> QED BY <1>1 DEF EndOf

\* A step that reads nothing and stores nothing.
LEMMA ByteFrame ==
    ASSUME IInv, BInv, UNCHANGED readVars, UNCHANGED <<term, eofPos>>
    PROVE  /\ LoopHolds' /\ EndKnown' /\ Onward /\ Stored' = Stored
           /\ UNCHANGED <<diskFile, diskEnd>> /\ cb'.total = cb.total => StoreEnds'
           /\ UNCHANGED <<diskFile, diskStart, content>> => FileHolds'
           /\ cb' = cb => Holds(cb)'
           /\ pkt' \in {pkt, NoPacket} => Good(pkt)'
  <1>1. rl' = rl /\ produced' = produced /\ Stored' = Stored /\ Stored \in Nat
    <2>1. produced \in Nat /\ Len(rl.data) \in Nat /\ Len(rl.data) <= produced
      BY ManagerFacts DEF IInv, Types, ProducedType, BInv, LoopHolds
    <2> QED BY <2>1 DEF Stored
  <1>2. Onward
    BY <1>1 DEF Onward
  <1>3. LoopHolds' /\ EndKnown'
    BY <1>1 DEF BInv, LoopHolds, EndKnown, At
  <1>4. UNCHANGED <<diskFile, diskEnd>> /\ cb'.total = cb.total => StoreEnds'
    BY <1>1 DEF BInv, StoreEnds
  <1>5. UNCHANGED <<diskFile, diskStart, content>> => FileHolds'
    BY DEF BInv, FileHolds, At
  <1>6. cb' = cb => Holds(cb)'
    BY DEF BInv
  <1>7. pkt' = pkt => Good(pkt)'
    BY <1>1 DEF BInv, Good, Ended, At, EndOf
  <1>8. pkt' = NoPacket => Good(pkt)'
    BY <1>1 DEF Good, Ended, At, EndOf, NoPacket
  <1> QED BY <1>1, <1>2, <1>3, <1>4, <1>5, <1>6, <1>7, <1>8

\* While a disk file can always be opened, the head of the buffer stays.
HeadStays == FALSE \notin CreateOk => HeadOf(cb') = HeadOf(cb)

\* The packet that is being sent stays good.
LEMMA PacketStays ==
    ASSUME IInv, BInv, pkt' = pkt, Onward, Stored \in Int, Stored' \in Int
    PROVE  Good(pkt)'
  <1>1. PICK q : q = pkt
    OBVIOUS
  <1>2. EndOf(q) \in Int
    BY <1>1, PacketEnd DEF IInv, Types, PktType
  <1>3. Good(q)
    BY <1>1 DEF BInv
  <1>4. Good(q)'
    BY <1>2, <1>3, GoodStays
  <1> QED BY <1>1, <1>4 DEF Good, At, EndOf, Ended

\* The read loop keeps every byte in its place: what it reads comes after what
\* it stored, and it stores it where the disk file or the buffer ends.
LEMMA ReadLoopKeepsB ==
    ASSUME ~WriteMayFail, IInv, Place, MInv, BInv, ReadLoop
    PROVE  BInv' /\ Onward /\ (~Overfull => HeadStays)
  <1>0. /\ rl \in ReadLoopState /\ diskFile \in Nat /\ rl' \in ReadLoopState
        /\ rl.data \in Seq(Byte) /\ Len(rl.data) \in Nat
        /\ rl'.data \in Seq(Byte) /\ Len(rl'.data) \in Nat
    <2>1. IInv'
      BY ReadLoopStep
    <2>2. rl' \in ReadLoopState
      BY <2>1 DEF IInv, Types, ReadType
    <2>3. rl'.data \in Seq(Byte)
      BY <2>2 DEF ReadLoopState
    <2> QED BY <2>2, <2>3, ManagerFacts
  <1>f. /\ produced \in Nat /\ Stored \in Nat /\ Stored <= produced
        /\ produced = Stored + Len(rl.data)
        /\ LoopHolds /\ StoreEnds /\ Holds(cb) /\ FileHolds /\ EndKnown
    BY ByteFacts DEF BInv
  <1>1. ASSUME NEW n \in 1..MaxPacket, ReadData(n) PROVE BInv' /\ Onward /\ HeadStays
    <2> DEFINE p == IF diskFile # 0 THEN "disk" ELSE "buf"
               d == [i \in 1..n |-> produced + i]
    <2>1. /\ rl.pc = "read" /\ rl' = [pc |-> p, data |-> d, file |-> diskFile]
          /\ produced' = produced + n
          /\ UNCHANGED <<cb, diskVars, term, eofPos, pkt>>
      BY <1>1 DEF ReadData
    <2>2. p \in {"disk", "buf"} /\ DOMAIN d = 1..n /\ At(produced, d) /\ n \in Nat
      BY SizesAssumption DEF At
    <2> HIDE DEF p, d
    <2>3. rl'.pc = p /\ rl'.data = d
      BY <2>1
    <2>4. Len(d) = n
      BY <1>0, <2>2, <2>3
    <2>5. Len(rl.data) = 0 /\ Stored = produced
      <3>1. rl.data = <<>>
        BY <1>f, <2>1 DEF LoopHolds
      <3> QED BY <1>f, <3>1
    <2>6. Stored' = Stored
      BY <1>f, <2>1, <2>2, <2>3, <2>4, <2>5 DEF Stored
    <2>7. Onward
      BY <1>f, <2>1, <2>6 DEF Onward
    <2>8. LoopHolds'
      <3>1. At(Stored', rl'.data) /\ Len(rl'.data) <= produced'
        BY <1>f, <2>1, <2>2, <2>3, <2>4, <2>5, <2>6
      <3> QED BY <2>2, <2>3, <3>1 DEF LoopHolds, At
    <2>9. StoreEnds' /\ Holds(cb)' /\ FileHolds'
      BY <1>f, <2>1, <2>6 DEF StoreEnds, FileHolds, At
    <2>10. EndKnown'
      BY <1>f, <2>1, <2>2, <2>3 DEF EndKnown
    <2>11. Good(pkt)'
      BY <1>f, <2>1, <2>6, <2>7, PacketStays
    <2> QED BY <2>1, <2>7, <2>8, <2>9, <2>10, <2>11 DEF BInv, HeadStays
  <1>2. CASE StoreOnDisk
    <2>1. /\ rl.pc = "disk" /\ rl' = [pc |-> "read", data |-> <<>>, file |-> 0]
          /\ diskFile # 0 /\ content' = content \o rl.data /\ diskEnd' = diskEnd + Len(rl.data)
          /\ UNCHANGED <<cb, produced, diskFile, diskStart, term, eofPos, pkt>>
      BY <1>2 DEF StoreOnDisk, MInv, OneStore
    <2>2. rl'.pc = "read" /\ rl'.data = <<>> /\ Len(rl'.data) = 0
      BY <2>1
    <2>3. Stored' = produced /\ Stored <= Stored'
      BY <1>f, <2>1, <2>2 DEF Stored
    <2>4. diskEnd = Stored /\ diskEnd' = Stored'
      BY <1>f, <2>1, <2>3 DEF StoreEnds
    <2>5. At(diskStart, content')
      <3>1. /\ content \in Seq(Byte) /\ diskStart + Len(content) = Stored /\ diskStart \in Int
        BY <1>f, <2>1, <2>4, ByteFacts, ManagerFacts
      <3>2. At(diskStart, content) /\ At(diskStart + Len(content), rl.data)
        BY <1>f, <2>1, <3>1 DEF FileHolds, LoopHolds
      <3> QED BY <1>0, <2>1, <3>1, <3>2, AtJoin
    <2>6. Onward
      BY <2>1, <2>3 DEF Onward
    <2>7. LoopHolds' /\ StoreEnds' /\ FileHolds'
      BY <1>f, <2>1, <2>2, <2>4, <2>5 DEF LoopHolds, StoreEnds, FileHolds, At
    <2>8. Holds(cb)' /\ EndKnown'
      BY <1>f, <2>1, <2>2 DEF EndKnown
    <2>9. Good(pkt)'
      BY <1>f, <2>1, <2>3, <2>6, PacketStays
    <2> QED BY <2>1, <2>6, <2>7, <2>8, <2>9 DEF BInv, HeadStays
  <1>3. CASE DiskWriteFails
    BY <1>3, Zenon DEF DiskWriteFails
  <1>4. CASE DiskFileChanged
    <2>1. /\ rl.pc = "disk" /\ rl' = [rl EXCEPT !.pc = "buf"]
          /\ UNCHANGED <<cb, produced, diskVars, term, eofPos, pkt>>
      BY <1>4 DEF DiskFileChanged
    <2>2. rl'.pc = "buf" /\ rl'.data = rl.data
      BY <1>0, <2>1 DEF ReadLoopState
    <2>3. Stored' = Stored /\ Onward
      BY <1>f, <2>1, <2>2 DEF Stored, Onward
    <2>4. LoopHolds' /\ StoreEnds' /\ Holds(cb)' /\ FileHolds' /\ EndKnown'
      BY <1>f, <2>1, <2>2, <2>3 DEF LoopHolds, StoreEnds, FileHolds, EndKnown, At
    <2>5. Good(pkt)'
      BY <1>f, <2>1, <2>3, PacketStays
    <2> QED BY <2>1, <2>3, <2>4, <2>5 DEF BInv, HeadStays
  <1>5. ASSUME NEW how \in Terminal, ReadEnds(how) PROVE BInv' /\ Onward /\ HeadStays
    <2>1. /\ rl.pc = "read" /\ rl' = [rl EXCEPT !.pc = "done"] /\ term' = how
          /\ eofPos' = Greater(cb.total, diskEnd)
          /\ UNCHANGED <<cb, produced, diskVars, pkt>>
      BY <1>5 DEF ReadEnds
    <2>2. rl'.pc = "done" /\ rl'.data = rl.data /\ rl.data = <<>> /\ Len(rl.data) = 0
      BY <1>0, <1>f, <2>1 DEF ReadLoopState, LoopHolds
    <2>3. Stored' = Stored /\ Stored = produced /\ Onward
      BY <1>f, <2>1, <2>2 DEF Stored, Onward
    <2>4. LoopHolds' /\ StoreEnds' /\ Holds(cb)' /\ FileHolds'
      BY <1>f, <2>1, <2>2, <2>3 DEF LoopHolds, StoreEnds, FileHolds, At
    <2>5. EndKnown'
      <3>1. how # "none"
        BY <1>5, TerminalAssumption
      <3> QED BY <1>5, <2>1, <2>2, <2>3, <3>1, ByteFacts DEF EndKnown
    <2>6. Good(pkt)'
      BY <1>f, <2>1, <2>3, PacketStays
    <2> QED BY <2>1, <2>3, <2>4, <2>5, <2>6 DEF BInv, HeadStays
  <1>6. CASE StoreInBuffer
    <2> DEFINE n == Writable(cb, rl.data)
    <2>1. /\ rl.pc = "buf" /\ cb' = BufWrite(cb, Loop, rl.data)
          /\ rl' = IF n = Len(rl.data) THEN [pc |-> "read", data |-> <<>>, file |-> 0]
                   ELSE [rl EXCEPT !.data = DropFirst(@, n)]
          /\ UNCHANGED <<produced, diskVars, term, eofPos, pkt, cc>> /\ diskFile = 0
      BY <1>6 DEF StoreInBuffer, MInv, OneStore
    <2>2. n \in Nat /\ n <= Len(rl.data) /\ cb \in Buffer /\ HeadOf(cb) \in Int /\ cb.total \in Int
      BY ManagerFacts, WritableType
    <2>3. cb.total = Stored /\ cb'.total = cb.total + n
      BY <1>0, <1>f, <2>1, <2>2, WritePlaces, Writers DEF StoreEnds
    <2>4. Holds(cb)'
      <3>1. At(cb.total, rl.data)
        BY <1>f, <2>3 DEF LoopHolds
      <3>2. Holds(BufWrite(cb, Loop, rl.data))
        BY <1>0, <1>f, <2>2, <3>1, WriteHolds, Writers
      <3> QED BY <2>1, <3>2
    <2>5. ~Overfull => HeadStays
      <3>1. cb.sync => HeadOf(cb') = HeadOf(cb)
        BY <1>0, <2>1, <2>2, WritePlaces, Writers
      <3>2. ~Overfull /\ ~cb.sync /\ FALSE \notin CreateOk => HeadOf(cb') = HeadOf(cb)
        <4>1. Len(rl.data) \in Nat /\ Dropped(cb, Len(rl.data)) \in Nat
          BY <1>0, <2>2, BufFields DEF Dropped, Greater
        <4>2. Dropped(cb, Len(rl.data)) > 0 \/ Dropped(cb, Len(rl.data)) = 0
          BY <4>1
        <4>3. Dropped(cb, Len(rl.data)) = 0 => HeadOf(cb') = HeadOf(cb)
          BY <1>0, <2>1, <2>2, WritePlaces, Writers
        <4> QED BY <2>1, <4>2, <4>3, Zenon DEF Overfull
      <3> QED BY <3>1, <3>2, Zenon DEF HeadStays
    <2>6. rl'.data = DropFirst(rl.data, n) /\ rl'.pc \in {"read", "buf"}
          /\ (rl'.pc = "read" => rl'.data = <<>>)
      <3>1. CASE n = Len(rl.data)
        <4>1. rl'.data = <<>> /\ rl'.pc = "read"
          BY <2>1, <3>1
        <4>2. DropFirst(rl.data, n) = <<>>
          <5> HIDE DEF n
          <5> QED BY <1>0, <3>1 DEF DropFirst
        <4> QED BY <4>1, <4>2
      <3>2. CASE n # Len(rl.data)
        <4>1. rl' = [rl EXCEPT !.data = DropFirst(@, n)]
          BY <2>1, <3>2
        <4> HIDE DEF n
        <4> QED BY <1>0, <2>1, <4>1 DEF ReadLoopState
      <3> QED BY <3>1, <3>2
    <2> HIDE DEF n
    <2>7. Len(rl'.data) = Len(rl.data) - n
      BY <1>0, <2>2, <2>6, DropType
    <2>8. Stored' = Stored + n
      BY <1>0, <1>f, <2>1, <2>2, <2>7 DEF Stored
    <2>9. LoopHolds'
      <3>1. At(Stored, rl.data)
        BY <1>f DEF LoopHolds
      <3>2. At(Stored + n, DropFirst(rl.data, n))
        BY <1>0, <1>f, <2>2, <3>1, AtDrop
      <3>3. Len(rl'.data) <= produced'
        BY <1>0, <1>f, <2>1, <2>2, <2>7
      <3> QED BY <2>6, <2>8, <3>2, <3>3 DEF LoopHolds, At
    <2>10. StoreEnds' /\ FileHolds'
      BY <2>1, <2>3, <2>8 DEF StoreEnds, FileHolds
    <2>11. Onward
      BY <1>f, <2>1, <2>2, <2>8 DEF Onward
    <2>12. EndKnown'
      BY <1>f, <2>1, <2>6 DEF EndKnown
    <2>13. Good(pkt)'
      BY <1>f, <2>1, <2>2, <2>8, <2>11, PacketStays
    <2> QED BY <2>4, <2>5, <2>9, <2>10, <2>11, <2>12, <2>13 DEF BInv
  <1> QED BY <1>1, <1>2, <1>3, <1>4, <1>5, <1>6 DEF ReadLoop

\* A step that moves no byte in the two stores.
LEMMA BStill ==
    ASSUME IInv, Place, MInv, BInv,
           UNCHANGED <<readVars, term, eofPos, diskFile, diskStart, diskEnd, content>>,
           cb'.total = cb.total, Holds(cb)', pkt' \in {pkt, NoPacket}
    PROVE  BInv' /\ Onward
  <1>1. /\ LoopHolds' /\ EndKnown' /\ Onward /\ StoreEnds' /\ FileHolds' /\ Good(pkt)'
    BY ByteFrame
  <1> QED BY <1>1 DEF BInv

\* Losing the client keeps the bytes in their place: the whole buffer is its
\* window again.
LEMMA DisconnectKeepsB ==
    ASSUME IInv, Place, MInv, BInv, Disconnect, pkt' = pkt
    PROVE  BInv' /\ Onward /\ HeadOf(cb') = HeadOf(cb)
  <1>1. /\ UNCHANGED <<readVars, term, eofPos, diskFile, diskStart, diskEnd, content>>
        /\ cb'.total = cb.total
    BY DisconnectPlaces DEF Disconnect
  <1>2. Holds(cb)' /\ HeadOf(cb') = HeadOf(cb)
    <2>1. CASE connected
      <3>1. cb' = BufSetWindow(cb, FALSE, CirBufSize)
        BY <2>1, Zenon DEF Disconnect
      <3>2. \A sync \in BOOLEAN : /\ Holds(BufSetWindow(cb, sync, CirBufSize))
                                  /\ HeadOf(BufSetWindow(cb, sync, CirBufSize)) = HeadOf(cb)
        <4>1. CirBufSize \in Nat /\ cb \in Buffer /\ Holds(cb)
          BY ManagerFacts DEF BInv
        <4> QED BY <4>1, WindowHolds
      <3>3. Holds(cb') /\ HeadOf(cb') = HeadOf(cb)
        BY <3>1, <3>2
      <3> QED BY <3>3
    <2>2. CASE ~connected
      BY <2>2, DisconnectPlaces DEF BInv
    <2> QED BY <2>1, <2>2
  <1> QED BY <1>1, <1>2, BStill

\* The disk file that is opened goes on where the buffer ends.
LEMMA ActivateKeepsB ==
    ASSUME IInv, Place, MInv, BInv, Activate
    PROVE  BInv' /\ Onward /\ HeadOf(cb') = HeadOf(cb)
  <1>1. UNCHANGED <<readVars, cb, term, eofPos, pkt>>
    BY DEF Activate
  <1>2. /\ LoopHolds' /\ EndKnown' /\ Onward /\ Stored' = Stored /\ Holds(cb)' /\ Good(pkt)'
    BY <1>1, ByteFrame
  <1>3. StoreEnds' /\ FileHolds'
    <2>1. CASE UNCHANGED diskVars
      BY <1>1, <2>1, ByteFrame
    <2>2. CASE /\ diskFile = 0 /\ diskFile' = drainGen + 1
               /\ diskStart' = cb.total /\ diskEnd' = cb.total /\ content' = <<>>
      <3>1. diskFile' # 0 /\ cb.total = Stored
        BY <2>2, ManagerFacts DEF BInv, StoreEnds
      <3> QED BY <1>2, <2>2, <3>1 DEF StoreEnds, FileHolds, At
    <2> QED BY <2>1, <2>2 DEF Activate
  <1> QED BY <1>1, <1>2, <1>3 DEF BInv

\* A packet of bytes holds those of the buffer after the bytes in flight.
LEMMA BytesAreGood ==
    ASSUME IInv, Place, MInv, BInv, PrepareBytes
    PROVE  Good(pkt)'
  <1> DEFINE a == sentNotAcked
             k == Lesser(Credit, MaxPacket)
             l == Len(cb.data)
             b == Lesser(a + k, l)
             d == NextBytes
             at == HeadOf(cb)
  <1>1. /\ Credit > 0 /\ pkt' = [id |-> streamId, seq |-> at + a, data |-> d, end |-> "none"]
        /\ UNCHANGED readVars
    BY DEF PrepareBytes, BytesDue
  <1>2. /\ a \in Nat /\ a <= l /\ cb.data \in Seq(Byte) /\ l \in Nat /\ at \in Int
        /\ at + l = cb.total /\ cb.total \in Int /\ cb.total <= Stored /\ Stored \in Nat
    BY ManagerFacts, ByteFacts DEF IInv, Types, AckType, FlowControl, HeadOf
  <1>3. k \in Nat
    <2>1. Credit \in Int
      BY SizesAssumption DEF IInv, Types, AckType, Credit, EffectiveWindow, Lesser
    <2> QED BY <1>1, <2>1, SizesAssumption DEF Lesser
  <1>4. d = SubSeq(cb.data, a + 1, b)
    BY Zenon DEF NextBytes, BufPeek
  <1> HIDE DEF k, d
  <1>5. b \in Nat /\ a <= b /\ b <= l
    <2> HIDE DEF l, a
    <2> QED BY <1>2, <1>3 DEF Lesser
  <1> HIDE DEF b
  <1>6. At(at + a, d) /\ Len(d) = b - a
    BY <1>2, <1>4, <1>5, AtSub DEF BInv, Holds
  <1> HIDE DEF at, a, l
  <1>7. (at + a) + Len(d) <= Stored
    BY <1>2, <1>5, <1>6
  <1>8. Stored' = Stored
    BY <1>1 DEF Stored
  <1>9. pkt'.seq = at + a /\ pkt'.data = d /\ pkt'.end = "none"
    BY <1>1
  <1> QED BY <1>6, <1>7, <1>8, <1>9 DEF Good, EndOf, At

\* The sender loop moves no byte, and the packets it prepares are good.
LEMMA SenderKeepsB ==
    ASSUME IInv, Place, MInv, BInv, SenderLoop \/ SendReturns \/ SendFails
    PROVE  BInv' /\ Onward /\ HeadOf(cb') = HeadOf(cb)
  <1>1. CASE FailureDisconnects
    BY <1>1, DisconnectKeepsB DEF FailureDisconnects, Disconnect
  <1>2. CASE FailureActivates
    BY <1>2, ActivateKeepsB DEF FailureActivates
  <1>3. CASE UNCHANGED <<readVars, cb, term, eofPos, diskVars>> /\ pkt' \in {pkt, NoPacket}
    BY <1>3, BStill DEF BInv
  <1>4. CASE PrepareBytes \/ PrepareTerminal
    <2>1. UNCHANGED <<readVars, cb, term, eofPos, diskVars>>
      BY <1>4 DEF PrepareBytes, PrepareTerminal
    <2>2. /\ LoopHolds' /\ EndKnown' /\ Onward /\ Stored' = Stored /\ Holds(cb)'
          /\ StoreEnds' /\ FileHolds'
      BY <2>1, ByteFrame
    <2>3. CASE PrepareBytes
      BY <2>1, <2>2, <2>3, BytesAreGood DEF BInv
    <2>4. CASE PrepareTerminal
      <3>1. /\ pkt'.seq = eofPos /\ pkt'.data = <<>> /\ pkt'.end = term /\ term # "none"
        BY <2>4 DEF PrepareTerminal, TerminalDue
      <3>2. term \in Terminal /\ rl.pc = "done" /\ eofPos = produced /\ rl.data = <<>>
        BY <3>1 DEF BInv, EndKnown, LoopHolds
      <3>3. Stored = produced /\ Len(<<>>) = 0 /\ produced \in Nat
        BY <3>2, ByteFacts DEF Stored
      <3>4. Good(pkt)'
        BY <2>1, <2>2, <3>1, <3>2, <3>3 DEF Good, At, EndOf, Ended
      <3> QED BY <2>1, <2>2, <3>4 DEF BInv
    <2> QED BY <1>4, <2>3, <2>4
  <1> QED BY <1>1, <1>2, <1>3, <1>4 DEF SenderLoop, SenderStops, SenderWaits,
             SendReturns, SendFails

\* What a drain writes are the bytes of the disk file that follow the buffer.
LEMMA DrainedInPlace ==
    ASSUME IInv, MInv, BInv, NEW s \in Stream, drains[s].pc = "write"
    PROVE  /\ diskFile # 0 /\ cb.sync /\ drains[s].data \in Seq(Byte)
           /\ At(cb.total, drains[s].data)
  <1> DEFINE d == drains[s].data
             from == diskRead - diskStart
             l == Len(d)
  <1>1. Mine(s) /\ Running(s)
    BY DEF MInv, Cutless, Running
  <1>2. connected /\ diskFile # 0 /\ cc.pc = "idle" /\ Carries(s)
        /\ \A t \in Stream : Running(t) /\ Mine(t) => t = s
    BY <1>1, OwnerAlone
  <1>3. \A t \in Stream : drains[t].pc # "update"
    BY <1>2 DEF MInv, Cutless, Running
  <1>4. cb.total = diskRead /\ cb.sync
    BY <1>2, <1>3 DEF MInv, Seam, Updating, IInv, FlowControl
  <1>5. /\ d \in Seq(Byte) /\ l \in Nat /\ content \in Seq(Byte) /\ Len(content) \in Nat
        /\ diskStart \in Int /\ diskRead \in Int /\ diskStart <= diskRead
    BY <1>2, ManagerFacts DEF DrainState, IInv, DiskShape, Types, DiskType
  <1>6. from + 0 + l <= Len(content) /\ d = SubSeq(content, from + 0 + 1, from + 0 + l)
    BY <1>2 DEF Carries
  <1>7. from \in Nat /\ from + 0 = from /\ diskStart + from = diskRead
    BY <1>5
  <1>8. At(diskStart, content)
    BY <1>2 DEF BInv, FileHolds
  <1> HIDE DEF d, from, l
  <1>9. At(diskStart + from, SubSeq(content, from + 1, from + l))
    <2>1. from + l \in Nat /\ from <= from + l /\ from + l <= Len(content)
      BY <1>5, <1>6, <1>7
    <2> QED BY <1>5, <1>7, <1>8, <2>1, AtSub
  <1>10. At(diskRead, d)
    BY <1>6, <1>7, <1>9
  <1> QED BY <1>2, <1>4, <1>5, <1>10 DEF d

\* A drain keeps the bytes in their place, and the head of the buffer.
LEMMA DrainKeepsB ==
    ASSUME IInv, Place, MInv, BInv, NEW s \in Stream, Drain(s)
    PROVE  BInv' /\ Onward /\ HeadOf(cb') = HeadOf(cb)
  <1>1. CASE UNCHANGED <<readVars, cb, term, eofPos, diskFile, diskStart, diskEnd, content, pkt>>
    BY <1>1, BStill DEF BInv
  <1>2. CASE DrainWrites(s)
    <2>1. /\ drains[s].pc = "write" /\ cb' = BufWrite(cb, s, drains[s].data)
          /\ UNCHANGED <<readVars, term, eofPos, diskVars, pkt>>
      BY <1>2 DEF DrainWrites
    <2>2. /\ diskFile # 0 /\ cb.sync /\ drains[s].data \in Seq(Byte)
          /\ At(cb.total, drains[s].data)
      BY <2>1, DrainedInPlace
    <2>3. cb \in Buffer /\ s \in Writer /\ Holds(cb)
      BY ManagerFacts, Writers DEF BInv
    <2>4. Holds(BufWrite(cb, s, drains[s].data))
          /\ HeadOf(BufWrite(cb, s, drains[s].data)) = HeadOf(cb)
      BY <2>2, <2>3, WriteHolds, WritePlaces
    <2>5. Holds(cb') /\ HeadOf(cb') = HeadOf(cb)
      BY <2>1, <2>4
    <2>6. /\ LoopHolds' /\ EndKnown' /\ Onward /\ Stored' = Stored
          /\ FileHolds' /\ Good(pkt)'
      BY <2>1, ByteFrame
    <2>7. StoreEnds'
      BY <2>1, <2>2, <2>6 DEF BInv, StoreEnds
    <2> QED BY <2>5, <2>6, <2>7 DEF BInv
  <1>3. CASE DrainEnds(s) /\ diskFile # 0
    <2>1. /\ Deactivated(cb) /\ Drained /\ Unlocked
          /\ UNCHANGED <<readVars, term, eofPos, pkt>>
      BY <1>3 DEF DrainEnds
    <2>2. cb.total = diskEnd /\ cb' = cb /\ diskFile' = 0
      BY <1>3, <2>1, DrainedBuffer, TotalPlaces, ManagerFacts DEF Deactivated
    <2>3. /\ LoopHolds' /\ EndKnown' /\ Onward /\ Stored' = Stored /\ Good(pkt)' /\ Holds(cb)'
      BY <2>1, <2>2, ByteFrame
    <2>4. StoreEnds' /\ FileHolds'
      BY <1>3, <2>2, <2>3 DEF BInv, StoreEnds, FileHolds
    <2> QED BY <2>2, <2>3, <2>4 DEF BInv
  <1>4. CASE DrainEnds(s) /\ diskFile = 0
    <2>1. UNCHANGED <<readVars, cb, term, eofPos, diskVars, pkt>>
      BY <1>4 DEF DrainEnds
    <2> QED BY <1>1, <2>1
  <1> QED BY <1>1, <1>2, <1>3, <1>4 DEF Drain, DrainGivesUp, DrainReads, DrainChecks,
             DrainUpdates, DrainCatchesUp, DrainRepeats

\* Consuming what the client has keeps the rest in place.
LEMMA ConsumesKeepsB ==
    ASSUME IInv, Place, MInv, BInv, ConnectConsumes
    PROVE  BInv' /\ Onward
  <1>1. /\ cc.pc = "consume" /\ UNCHANGED <<readVars, term, eofPos, diskVars, pkt>>
    BY DEF ConnectConsumes
  <1> DEFINE n == cc.seq - cc.head
             k == Len(cb.data)
             c == BufSetTotal(cb, cc.seq)
  <1>2. /\ cb \in Buffer /\ k \in Nat /\ n \in Nat /\ cc.seq \in Int /\ cb.total \in Int
        /\ cb.total = HeadOf(cb) + k /\ HeadOf(cb) = cc.head /\ HeadOf(cb) \in Int
    BY <1>1, ManagerFacts DEF IInv, Locked, MInv, CallHead, HeadOf
  <1>3. Holds(cb')
    <2>1. CASE n > k
      <3>1. cb' = BufConsume(c, k)
        BY <2>1, TotalPlaces, <1>2, Zenon DEF ConnectConsumes
      <3>2. c \in Buffer /\ c.data = cb.data
        BY <1>2, TotalType
      <3> HIDE DEF c
      <3>3. BufConsume(c, k) \in Buffer /\ Len(BufConsume(c, k).data) = 0
        <4>1. k <= Len(c.data) /\ Len(c.data) - k = 0
          BY <1>2, <3>2
        <4> QED BY <1>2, <3>2, <4>1, ConsumeType
      <3>4. BufConsume(c, k).data \in Seq(Byte)
        BY <3>3, BufFields
      <3>5. cb'.data = <<>> /\ Len(cb'.data) = 0
        BY <3>1, <3>3, <3>4
      <3> QED BY <3>5 DEF Holds, At
    <2>2. CASE ~(n > k)
      <3>1. cb' = BufConsume(cb, n) /\ n <= k
        BY <1>2, <2>2 DEF ConnectConsumes
      <3> HIDE DEF n
      <3>2. Holds(BufConsume(cb, n))
        BY <1>2, <3>1, ConsumeHolds DEF BInv
      <3> QED BY <3>1, <3>2
    <2> QED BY <2>1, <2>2
  <1>4. /\ LoopHolds' /\ EndKnown' /\ Onward /\ Stored' = Stored
        /\ FileHolds' /\ Good(pkt)'
    BY <1>1, ByteFrame
  <1>5. StoreEnds'
    <2>1. CASE diskFile = 0
      <3>1. cc.seq <= cb.total
        BY <1>1, <2>1 DEF MInv, CallSeq
      <3>2. cb'.total = Greater(cb.total, cc.seq)
        BY ConsumePlace, <1>2
      <3>3. cb'.total = cb.total
        BY <1>2, <3>1, <3>2 DEF Greater
      <3> QED BY <1>1, <1>4, <2>1, <3>3 DEF BInv, StoreEnds
    <2>2. CASE diskFile # 0
      BY <1>1, <1>4, <2>2 DEF BInv, StoreEnds
    <2> QED BY <2>1, <2>2
  <1> QED BY <1>3, <1>4, <1>5 DEF BInv

\* The window that opens keeps every byte.
LEMMA OpenHolds ==
    ASSUME NEW b \in Buffer, Holds(b), NEW rwnd \in Nat
    PROVE  /\ Holds(BufSetWindow(b, TRUE, EffectiveWindow(rwnd)))
           /\ HeadOf(BufSetWindow(b, TRUE, EffectiveWindow(rwnd))) = HeadOf(b)
  <1>1. \A sync \in BOOLEAN, window \in Nat : sync =>
           /\ Holds(BufSetWindow(b, sync, window))
           /\ HeadOf(BufSetWindow(b, sync, window)) = HeadOf(b)
    BY WindowHolds
  <1> QED BY <1>1, WindowBound, Zenon

\* The client is connected: the disk file that is given up ends where the
\* buffer does.
LEMMA EndsKeepsB ==
    ASSUME IInv, Place, MInv, BInv, ConnectEnds
    PROVE  BInv' /\ Onward /\ HeadOf(cb') = HeadOf(cb)
  <1> DEFINE b == BufSetWindow(cb, TRUE, EffectiveWindow(cc.rwnd))
  <1>1. /\ cc.pc = "window" /\ cc.rwnd \in Nat /\ UNCHANGED <<readVars, term, eofPos, pkt>>
        /\ cb \in Buffer /\ Holds(cb)
    BY ManagerFacts DEF ConnectEnds, CallState, BInv
  <1>2. b \in Buffer /\ b.total = cb.total /\ HeadOf(b) = HeadOf(cb) /\ Holds(b)
    <2>1. b = BufSetWindow(cb, TRUE, EffectiveWindow(cc.rwnd))
      OBVIOUS
    <2> HIDE DEF b
    <2>2. b \in Buffer /\ b.total = cb.total /\ HeadOf(b) = HeadOf(cb)
      BY <1>1, <2>1, OpenWindowPlaces, Zenon
    <2>3. Holds(BufSetWindow(cb, TRUE, EffectiveWindow(cc.rwnd)))
      BY <1>1, OpenHolds, Zenon
    <2> QED BY <2>1, <2>2, <2>3
  <1>3. \/ cb' = b /\ UNCHANGED <<diskFile, diskStart, diskEnd, content>>
        \/ diskFile # 0 /\ cc.seq >= diskEnd /\ Deactivated(b)
    <2> HIDE DEF b
    <2>1. \/ /\ cb' = b /\ UNCHANGED <<diskFile, diskStart, diskEnd, content>>
          \/ /\ diskFile # 0 /\ cc.seq >= diskEnd
             /\ Deactivated(BufSetWindow(cb, TRUE, EffectiveWindow(cc.rwnd)))
      <3> HIDE DEF Deactivated
      <3> QED BY DEF ConnectEnds, b
    <2> QED BY <2>1 DEF b
  <1> HIDE DEF b
  <1>4. CASE cb' = b /\ UNCHANGED <<diskFile, diskStart, diskEnd, content>>
    <2>1. Holds(cb')
      BY <1>2, <1>4
    <2> QED BY <1>1, <1>2, <1>4, <2>1, BStill
  <1>5. CASE diskFile # 0 /\ cc.seq >= diskEnd /\ Deactivated(b)
    <2>1. cb.total = diskEnd
      BY <1>1, <1>5, ManagerFacts DEF Greater, IInv, DiskShape, MInv, CallSeq, Seam
    <2>2. cb' = b /\ diskFile' = 0
      BY <1>2, <1>5, <2>1, TotalPlaces DEF Deactivated
    <2>3. /\ LoopHolds' /\ EndKnown' /\ Onward /\ Stored' = Stored /\ Good(pkt)'
      BY <1>1, ByteFrame
    <2>4. StoreEnds' /\ FileHolds' /\ Holds(cb')
      BY <1>2, <1>5, <2>1, <2>2, <2>3 DEF BInv, StoreEnds, FileHolds
    <2> QED BY <1>2, <2>2, <2>3, <2>4 DEF BInv
  <1> QED BY <1>3, <1>4, <1>5

\* An acknowledgement and a new receive window drop no byte that was not
\* acknowledged.
LEMMA AckKeepsB ==
    ASSUME IInv, Place, MInv, BInv, NEW a \in AckState, RecvAck(a)
    PROVE  BInv' /\ Onward
  <1>0. a.seq \in Nat /\ a.rwnd \in Nat
    BY RwndAssumption, SizesAssumption DEF AckState
  <1>1. /\ UNCHANGED <<readVars, term, eofPos, diskVars, pkt>> /\ cb'.total = cb.total
    BY <1>0, AckMoves DEF RecvAck
  <1>2. Holds(cb)'
    <2>1. CASE cb' = cb
      BY <2>1 DEF BInv
    <2>2. CASE RecvFresh(a) /\ Acknowledges(a)
      <3> DEFINE n == a.seq - HeadOf(cb)
                 b == IF n > 0 THEN BufConsume(cb, n) ELSE cb
      <3>1. cb' = BufSetWindow(b, TRUE, EffectiveWindow(a.rwnd))
        BY <2>2, Zenon DEF RecvFresh
      <3>2. n \in Nat /\ n <= Len(cb.data) /\ cb \in Buffer /\ Holds(cb)
        BY <1>0, <2>2, ManagerFacts DEF Acknowledges, CanConsume, BInv
      <3> HIDE DEF n
      <3>3. b \in Buffer /\ Holds(b)
        BY <3>2, ConsumeType, ConsumeHolds
      <3> HIDE DEF b
      <3>4. Holds(BufSetWindow(b, TRUE, EffectiveWindow(a.rwnd)))
        BY <1>0, <3>3, OpenHolds, Zenon
      <3>5. Holds(cb')
        BY <3>1, <3>4
      <3> QED BY <3>5
    <2>3. cb' = cb \/ (RecvFresh(a) /\ Acknowledges(a))
      BY Zenon DEF RecvAck, RecvFin, RecvFresh, RecvIgnored
    <2> QED BY <2>1, <2>2, <2>3
  <1> QED BY <1>1, <1>2, BStill

\* SetRwndSize moves no byte.
LEMMA RwndKeepsB ==
    ASSUME IInv, Place, MInv, BInv, NEW rwnd \in Nat, SetRwndSize(rwnd)
    PROVE  BInv' /\ Onward /\ HeadOf(cb') = HeadOf(cb)
  <1>1. /\ UNCHANGED <<readVars, term, eofPos, diskVars, pkt>> /\ cb'.total = cb.total
        /\ cb' = BufSetWindow(cb, TRUE, EffectiveWindow(rwnd)) /\ HeadOf(cb') = HeadOf(cb)
    BY RwndMoves DEF SetRwndSize
  <1>2. cb \in Buffer /\ Holds(cb)
    BY ManagerFacts DEF BInv
  <1>3. Holds(BufSetWindow(cb, TRUE, EffectiveWindow(rwnd)))
    BY <1>2, OpenHolds, Zenon
  <1>4. Holds(cb')
    BY <1>1, <1>3
  <1> QED BY <1>1, <1>4, BStill

\* The pty reader that is attached has read nothing yet.
LEMMA AttachKeepsB ==
    ASSUME IInv, Place, MInv, BInv, AttachReader
    PROVE  BInv' /\ Onward /\ cb' = cb
  <1>1. /\ rl.pc = "off" /\ rl' = [rl EXCEPT !.pc = "read"]
        /\ UNCHANGED <<produced, cb, term, eofPos, diskVars, pkt>>
    BY DEF AttachReader
  <1>2. rl'.pc = "read" /\ rl'.data = rl.data /\ rl.data = <<>>
    BY <1>1, ManagerFacts DEF ReadLoopState, BInv, LoopHolds
  <1>3. Stored' = Stored /\ Stored \in Nat /\ Onward
    BY <1>1, <1>2, ByteFacts DEF Stored, Onward
  <1>4. LoopHolds' /\ StoreEnds' /\ Holds(cb)' /\ FileHolds' /\ EndKnown'
    BY <1>1, <1>2, <1>3 DEF BInv, LoopHolds, StoreEnds, FileHolds, EndKnown, At
  <1>5. Good(pkt)'
    BY <1>1, <1>3, PacketStays
  <1> QED BY <1>1, <1>3, <1>4, <1>5 DEF BInv

\* Whatever the stream manager does as a part of the whole, every byte keeps its
\* place.
LEMMA ManagerKeepsB ==
    ASSUME ~WriteMayFail, IInv, Place, MInv, BInv, ManagerStep
    PROVE  BInv' /\ Onward
  <1>1. CASE ReadLoop
    BY <1>1, ReadLoopKeepsB
  <1>2. CASE SenderLoop \/ SendReturns \/ SendFails
    BY <1>2, SenderKeepsB
  <1>3. ASSUME NEW s \in Stream, Drain(s) PROVE BInv' /\ Onward
    BY <1>3, DrainKeepsB
  <1>4. CASE AttachReader
    BY <1>4, AttachKeepsB
  <1>5. CASE ClientDisconnected
    BY <1>5, DisconnectKeepsB DEF ClientDisconnected, Disconnect
  <1>6. CASE ActivateDiskBuffering
    BY <1>6, ActivateKeepsB DEF ActivateDiskBuffering
  <1>7. ASSUME NEW s \in Stream, NEW rwnd \in Nat, NEW seq \in Nat, ConnectBegins(s, rwnd, seq)
        PROVE  BInv' /\ Onward
    <2>1. UNCHANGED <<readVars, cb, term, eofPos, diskVars, pkt>>
      BY <1>7 DEF ConnectBegins
    <2>2. cb'.total = cb.total /\ Holds(cb)'
      BY <2>1 DEF BInv
    <2> QED BY <2>1, <2>2, BStill
  <1>8. CASE ConnectConsumes
    BY <1>8, ConsumesKeepsB
  <1>9. CASE ConnectEnds
    BY <1>9, EndsKeepsB
  <1>10. ASSUME NEW a \in AckState, RecvAck(a) PROVE BInv' /\ Onward
    BY <1>10, AckKeepsB
  <1>11. ASSUME NEW rwnd \in Nat, SetRwndSize(rwnd) PROVE BInv' /\ Onward
    BY <1>11, RwndKeepsB
  <1>12. CASE UNCHANGED vars
    BY <1>12, BStill DEF vars, BInv
  <1> QED BY <1>1, <1>2, <1>3, <1>4, <1>5, <1>6, <1>7, <1>8, <1>9, <1>10, <1>11, <1>12
          DEF ManagerStep

-----------------------------------------------------------------------------
(* The reader keeps bytes in their place *)

\* A reader whose first byte comes at this position of the stream: it holds the
\* bytes that follow, up to the position it expects next.
ReaderGood(r, at) ==
    /\ At(at, r.buf) /\ at + Len(r.buf) = r.next /\ r.next <= Stored
    /\ \A p \in r.ooo : Good(p)
    /\ r.end = "eof" => Ended(r.next)

\* The fields of a packet.
LEMMA PacketFields ==
    ASSUME NEW p \in Packet
    PROVE  /\ p.seq \in Int /\ p.data \in Seq(Byte) /\ Len(p.data) \in Nat
           /\ p.end \in {"none", "eof", "err"} /\ EndOf(p) = p.seq + Len(p.data)
  <1>1. p.seq \in Int /\ p.data \in Seq(Byte) /\ p.end \in {"none", "eof", "err"}
    BY DEF Packet
  <1> QED BY <1>1 DEF EndOf

\* A packet in its place keeps the reader's bytes in theirs.
LEMMA OrderedGood ==
    ASSUME NEW r \in ReaderState, NEW p \in Packet, NEW at \in Int, ReaderGood(r, at),
           r.end = "none", p.seq = r.next, Good(p), Shaped(p)
    PROVE  ReaderGood(TakeOrdered(r, p), at)
  <1> DEFINE s == TakeOrdered(r, p)
             k == Len(r.buf)
             l == Len(p.data)
  <1>1. s.ooo = r.ooo /\ s.end = p.end /\ s.next = r.next + l /\ s.buf = r.buf \o p.data
        /\ Len(s.buf) = k + l
    BY OrderedEffect, ZenonT(30)
  <1>2. /\ p.seq \in Int /\ p.data \in Seq(Byte) /\ l \in Nat /\ EndOf(p) = p.seq + l
        /\ r.buf \in Seq(Byte) /\ k \in Nat /\ r.next \in Nat
    BY PacketFields, ReaderFields
  <1>3. At(at, r.buf) /\ at + k = r.next /\ At(p.seq, p.data) /\ EndOf(p) <= Stored
        /\ (\A q \in r.ooo : Good(q)) /\ (p.end # "none" => Ended(p.seq))
    BY Zenon DEF ReaderGood, Good
  <1>4. p.end # "none" => l = 0
    <2>1. p.end # "none" => p.data = <<>>
      BY Zenon DEF Shaped
    <2> QED BY <2>1
  <1> HIDE DEF s
  <1>5. At(at, s.buf)
    <2>1. At(at + Len(r.buf), p.data)
      BY <1>3
    <2> QED BY <1>1, <1>2, <1>3, <2>1, AtJoin
  <1>6. at + Len(s.buf) = s.next /\ s.next = EndOf(p)
    <2> HIDE DEF k, l
    <2> QED BY <1>1, <1>2, <1>3
  <1>7. p.end # "none" => s.next = p.seq
    <2> HIDE DEF k, l
    <2> QED BY <1>1, <1>2, <1>4
  <1>8. s.next <= Stored /\ (\A q \in s.ooo : Good(q))
        /\ (s.end = "eof" => Ended(s.next))
    BY <1>1, <1>3, <1>6, <1>7
  <1> QED BY <1>5, <1>6, <1>8, Zenon DEF ReaderGood, s

\* So do the stored packets that are taken: each byte comes from the packet that
\* covers its position.
LEMMA StoredGood ==
    ASSUME NEW r \in ReaderState, Bounded(r.ooo), NEW at \in Int, ReaderGood(r, at),
           \A q \in r.ooo : Shaped(q)
    PROVE  /\ ReaderGood(TakeStored(r), at)
           /\ TakeStored(r).end = r.end \/ \E q \in r.ooo : TakeStored(r).end = q.end
  <1> DEFINE taken == Taken(r)
             last  == CHOOSE p \in taken : \A q \in taken : q.seq <= p.seq
             to    == EndOf(last)
             more  == [i \in 1..(to - r.next) |-> ByteAt(taken, r.next + i)]
             all   == IF taken = {} THEN r
                      ELSE [r EXCEPT !.buf = @ \o more, !.next = to, !.end = last.end]
             left  == Leave(all, taken)
             s     == TakeStored(r)
  <1>1. s = [all EXCEPT !.ooo = left]
    BY Zenon DEF TakeStored
  <1>2. /\ all \in ReaderState /\ all.ooo = r.ooo /\ ReaderGood(all, at)
        /\ all.end = r.end \/ \E q \in r.ooo : all.end = q.end
    <2>1. CASE taken = {}
      <3>1. all = r
        BY <2>1
      <3> HIDE DEF all
      <3> QED BY <3>1
    <2>2. CASE taken # {}
      <3> DEFINE f == last
      <3> HIDE DEF f
      <3>0. f = CHOOSE p \in Taken(r) : \A q \in Taken(r) : q.seq <= p.seq
        BY DEF f
      <3>1. /\ f \in taken /\ r.next <= EndOf(f)
            /\ \A i \in 1..(EndOf(f) - r.next) :
                  \E p \in taken : p.seq < r.next + i /\ r.next + i <= EndOf(p)
        BY <2>2, <3>0, TakenCovers
      <3>2. taken \subseteq r.ooo /\ taken \subseteq StoredPacket /\ r.next \in Nat
            /\ r.buf \in Seq(Byte) /\ Len(r.buf) \in Nat
        BY ReaderFields DEF Taken
      <3>3. \A p \in taken : /\ p.seq \in Nat /\ p.data \in Seq(Byte) /\ Len(p.data) \in Nat
                             /\ EndOf(p) = p.seq + Len(p.data) /\ p.end \in {"none", "eof", "err"}
        BY <3>2, PacketFields DEF StoredPacket
      <3>4. \A p \in taken : Good(p) /\ Shaped(p)
        BY <3>2 DEF ReaderGood
      <3>5. EndOf(f) \in Nat
        BY <3>1, <3>3
      <3> HIDE DEF taken
      <3>6. ASSUME NEW i \in 1..(EndOf(f) - r.next)
            PROVE  ByteAt(taken, r.next + i) \in Byte /\ ByteAt(taken, r.next + i) = r.next + i
        <4> DEFINE x == r.next + i
                   p == CHOOSE q \in taken : q.seq < x /\ x <= EndOf(q)
        <4>1. p \in taken /\ p.seq < x /\ x <= EndOf(p)
          BY <3>1
        <4> HIDE DEF p
        <4>2. x \in Nat
          BY <3>2, <3>5
        <4> HIDE DEF x
        <4> DEFINE d == p.data
                   b == p.seq
        <4>3. d \in Seq(Byte) /\ b \in Nat /\ Len(d) \in Nat /\ x <= b + Len(d) /\ b < x
          BY <3>3, <4>1
        <4>4. At(b, d)
          BY <3>4, <4>1 DEF Good
        <4>5. ByteAt(taken, x) = d[x - b]
          BY DEF ByteAt, p
        <4> HIDE DEF d, b
        <4>6. x - b \in DOMAIN d
          BY <4>2, <4>3
        <4>7. d[x - b] \in Byte /\ d[x - b] = b + (x - b)
          BY <4>3, <4>4, <4>6 DEF At
        <4>8. b + (x - b) = x
          BY <4>2, <4>3
        <4> QED BY <4>5, <4>7, <4>8 DEF x
      <3> DEFINE m == EndOf(f) - r.next
      <3>7. m \in Nat
        BY <3>1, <3>2, <3>5
      <3>8. more \in Seq(Byte) /\ Len(more) = m /\ At(r.next, more)
        <4>2. more = [i \in 1..m |-> ByteAt(taken, r.next + i)]
          BY DEF f, taken
        <4>3. \A i \in 1..m : ByteAt(taken, r.next + i) \in Byte
                              /\ ByteAt(taken, r.next + i) = r.next + i
          BY <3>6
        <4> HIDE DEF m, more
        <4>4. more \in [1..m -> Byte]
          BY <4>2, <4>3
        <4>5. Len(more) = m
          BY <3>7, <4>4
        <4>6. \A i \in 1..m : more[i] = r.next + i
          BY <4>2, <4>3
        <4>7. DOMAIN more = 1..m
          BY <4>4
        <4> QED BY <3>7, <4>4, <4>5, <4>6, <4>7 DEF At
      <3> HIDE DEF more
      <3>9. all = ReaderRec(r.id, EndOf(f), r.buf \o more, r.ooo, f.end, r.open, r.rwndSent)
        <4>1. all = [r EXCEPT !.buf = r.buf \o more, !.next = EndOf(f), !.end = f.end]
          BY <2>2, Zenon DEF f, taken
        <4> HIDE DEF all
        <4> QED BY <4>1, ReaderTakes, Zenon
      <3> HIDE DEF all
      <3>10. r.buf \o more \in Seq(Byte) /\ Len(r.buf \o more) = Len(r.buf) + m
        BY <3>2, <3>8
      <3>11. all \in ReaderState
        BY <3>1, <3>3, <3>5, <3>9, <3>10, ReaderType, ReaderFields
      <3>12. /\ all.ooo = r.ooo /\ all.next = EndOf(f) /\ all.buf = r.buf \o more
             /\ all.end = f.end
        BY <3>9 DEF ReaderRec
      <3>13. At(at, r.buf) /\ at + Len(r.buf) = r.next /\ (\A q \in r.ooo : Good(q))
        BY DEF ReaderGood
      <3>14. At(at, all.buf)
        <4>1. At(at + Len(r.buf), more)
          BY <3>8, <3>13
        <4> QED BY <3>2, <3>8, <3>12, <3>13, <4>1, AtJoin
      <3>15. at + Len(all.buf) = all.next
        <4> DEFINE k == Len(r.buf)
                   e == EndOf(f)
                   n == r.next
        <4>1. k \in Nat /\ e \in Nat /\ n \in Nat /\ at + k = n /\ m = e - n
              /\ Len(all.buf) = k + m /\ all.next = e
          BY <3>2, <3>5, <3>10, <3>12, <3>13
        <4> HIDE DEF k, e, n, m
        <4> QED BY <4>1
      <3>16. all.next <= Stored /\ (all.end = "eof" => Ended(all.next))
        <4>1. /\ EndOf(f) <= Stored /\ (f.end # "none" => Ended(f.seq))
              /\ (f.end # "none" => f.data = <<>>)
          BY <3>1, <3>4 DEF Good, Shaped
        <4>2. f.end # "none" => EndOf(f) = f.seq
          <5>1. f.end # "none" => Len(f.data) = 0
            BY <4>1
          <5> QED BY <3>1, <3>3, <5>1
        <4> QED BY <3>12, <4>1, <4>2
      <3>17. f \in r.ooo
        BY <3>1, <3>2
      <3> QED BY <3>11, <3>12, <3>13, <3>14, <3>15, <3>16, <3>17 DEF ReaderGood
    <2> QED BY <2>1, <2>2
  <1>3. left \in SUBSET StoredPacket /\ left \subseteq r.ooo
    BY <1>2, ReaderFields DEF Leave
  <1> HIDE DEF left, all
  <1>4. s = ReaderRec(all.id, all.next, all.buf, left, all.end, all.open, all.rwndSent)
    BY <1>1, <1>2, ReaderExcept, Zenon
  <1> HIDE DEF s
  <1>5. s.next = all.next /\ s.buf = all.buf /\ s.end = all.end /\ s.ooo = left
    BY <1>4 DEF ReaderRec
  <1>6. ReaderGood(s, at)
    BY <1>2, <1>3, <1>5 DEF ReaderGood
  <1> QED BY <1>2, <1>5, <1>6 DEF s

\* An end that is good is one of those the pty has.
LEMMA GoodEnd == ASSUME NEW p, Good(p), "err" \notin Terminal PROVE p.end # "err"
  BY DEF Good

\* What a packet that arrives does to the reader and to what it is told.
LEMMA RecvGood ==
    ASSUME rd \in ReaderState, Bounded(rd.ooo), NEW at \in Int, ReaderGood(rd, at),
           \A q \in rd.ooo : Shaped(q),
           NEW p \in Packet, Good(p), Shaped(p), RecvData(p)
    PROVE  /\ rd' \in ReaderState /\ rd.next <= rd'.next /\ ReaderGood(rd', at)
           /\ \/ anet' = anet
              \/ \E a \in AckState : /\ Acked(a) /\ a.seq = rd'.next
                                     /\ a.fin => rd'.end # "none"
           /\ "err" \notin Terminal /\ rd.end # "err" => rd'.end # "err"
  <1>0. rd' \in ReaderState /\ rd.next <= rd'.next
    BY RecvDataEffect, Zenon DEF Received
  <1>1. ASSUME p.end = "err", rd' = [rd EXCEPT !.end = "err"], Acked(AckOf(rd', TRUE, FALSE))
        PROVE  /\ ReaderGood(rd', at)
               /\ \E a \in AckState : /\ Acked(a) /\ a.seq = rd'.next
                                      /\ a.fin => rd'.end # "none"
               /\ "err" \in Terminal
    <2>1. rd'.buf = rd.buf /\ rd'.next = rd.next /\ rd'.end = "err" /\ rd'.ooo = rd.ooo
      BY <1>1 DEF ReaderState
    <2> DEFINE yes == TRUE
               no  == FALSE
    <2>2. yes \in BOOLEAN /\ no \in BOOLEAN /\ Acked(AckOf(rd', yes, no))
      BY <1>1, Zenon
    <2> HIDE DEF yes, no
    <2>3. AckOf(rd', yes, no) \in AckState /\ AckOf(rd', yes, no).seq = rd'.next
      BY <1>0, <2>2, AckFields, ZenonT(30)
    <2>4. ReaderGood(rd', at)
      BY <2>1 DEF ReaderGood
    <2>5. "err" \in Terminal
      BY <1>1, GoodEnd
    <2>6. rd'.end # "none"
      BY <2>1
    <2> QED BY <2>2, <2>3, <2>4, <2>5, <2>6, Zenon
  <1>2. CASE UNCHANGED <<rd, anet>>
    BY <1>0, <1>2
  <1>3. ASSUME rd' = [rd EXCEPT !.ooo = @ \union {p}]
        PROVE  ReaderGood(rd', at) /\ rd'.end = rd.end
    <2>1. rd'.buf = rd.buf /\ rd'.next = rd.next /\ rd'.end = rd.end
          /\ rd'.ooo = rd.ooo \union {p}
      BY <1>3, ReaderFields DEF ReaderState
    <2> QED BY <2>1 DEF ReaderGood
  <1>4. ASSUME rd.end = "none", p.seq = rd.next,
               NEW r, r = TakeStored(TakeOrdered(rd, p)),
               rd' = [r EXCEPT !.rwndSent = FreeWindow(r)],
               Acked(AckOf(r, r.end = "eof", FALSE))
        PROVE  /\ ReaderGood(rd', at)
               /\ \E a \in AckState : /\ Acked(a) /\ a.seq = rd'.next
                                      /\ a.fin => rd'.end # "none"
               /\ "err" \notin Terminal => rd'.end # "err"
    <2> DEFINE o == TakeOrdered(rd, p)
    <2>1. o \in ReaderState /\ o.ooo = rd.ooo /\ o.end = p.end
      BY OrderedEffect, ZenonT(30)
    <2>2. ReaderGood(o, at)
      BY <1>4, OrderedGood
    <2> HIDE DEF o
    <2>3. Bounded(o.ooo) /\ r = TakeStored(o)
      BY <1>4, <2>1 DEF o
    <2>4. r \in ReaderState
      BY <2>1, <2>3, StoredEffect
    <2>5. ReaderGood(r, at) /\ (r.end = o.end \/ \E q \in o.ooo : r.end = q.end)
      BY <2>1, <2>2, <2>3, StoredGood
    <2>6. rd' = ReaderRec(r.id, r.next, r.buf, r.ooo, r.end, r.open, FreeWindow(r))
      <3>1. [r EXCEPT !.rwndSent = FreeWindow(r)]
            = ReaderRec(r.id, r.next, r.buf, r.ooo, r.end, r.open, FreeWindow(r))
        BY <2>4, ReaderExcept
      <3> QED BY <1>4, <3>1, Zenon
    <2>7. rd'.next = r.next /\ rd'.buf = r.buf /\ rd'.ooo = r.ooo /\ rd'.end = r.end
      BY <2>6 DEF ReaderRec
    <2>8. ReaderGood(rd', at)
      BY <2>5, <2>7 DEF ReaderGood
    <2> DEFINE eof == r.end = "eof"
               no  == FALSE
    <2>9. eof \in BOOLEAN /\ no \in BOOLEAN /\ Acked(AckOf(r, eof, no))
      BY <1>4, Zenon
    <2>10. eof => rd'.end # "none"
      BY <2>7
    <2> HIDE DEF eof, no
    <2>11. AckOf(r, eof, no) \in AckState /\ AckOf(r, eof, no).seq = r.next
           /\ AckOf(r, eof, no).fin = eof
      BY <2>4, <2>9, AckFields, ZenonT(30)
    <2>12. "err" \notin Terminal => rd'.end # "err"
      <3>1. \A q \in o.ooo : Good(q)
        BY <2>2 DEF ReaderGood
      <3> QED BY <2>1, <2>5, <2>7, <3>1, GoodEnd
    <2> QED BY <2>7, <2>8, <2>9, <2>10, <2>11, <2>12, Zenon
  <1>5. \/ UNCHANGED <<rd, anet>>
        \/ p.end = "err" /\ rd' = [rd EXCEPT !.end = "err"] /\ Acked(AckOf(rd', TRUE, FALSE))
        \/ (rd' = rd \/ rd' = [rd EXCEPT !.ooo = @ \union {p}]) /\ anet' = anet
        \/ \E r : /\ rd.end = "none" /\ p.seq = rd.next /\ r = TakeStored(TakeOrdered(rd, p))
                  /\ rd' = [r EXCEPT !.rwndSent = FreeWindow(r)]
                  /\ Acked(AckOf(r, r.end = "eof", FALSE))
    BY Zenon DEF RecvData
  <1> QED BY <1>0, <1>1, <1>2, <1>3, <1>4, <1>5, Zenon

-----------------------------------------------------------------------------
(* The two ends keep bytes in their place, whatever fails but a disk write *)

\* Everything on its way is stored already, and names its place.
InFlight == \A p \in Elements(dnet) : Good(p)

\* What the reader holds comes after what is in the file, and is stored already.
ReaderHolds(r, at) ==
    /\ At(at, r.buf) /\ at + Len(r.buf) <= Stored
    /\ \A p \in r.ooo : Good(p)

Reads == ReaderHolds(rd, Position) /\ (rd.open => ReaderGood(rd, Position))

\* The job controller's part: the stream is done once, the output loop runs
\* between restarts, and a restart keeps its reader open.
Course ==
    /\ done => ~loop /\ cl.pc = "run"
    /\ loop => cl.pc = "run"
    /\ cl.pc \in {"ask", "wait", "resp", "start", "startok"} => rd.open

\* The position a restart asks for is the file's, no call that is still running
\* asked for a later one, and the position it is told is not behind it.
AskedBy(caller, handler, call) ==
    /\ caller.pc = "ask" => caller.seq = Position
    /\ handler.pc # "idle" =>
           /\ handler.seq <= Position
           /\ handler.id = cur /\ caller.pc = "wait" => handler.seq = Position
    /\ call.pc # "idle" => call.seq = handler.seq
    /\ caller.pc = "resp" /\ ~caller.done => Position <= caller.seq /\ caller.seq <= Stored

Asked == AskedBy(cl, h, cc)

\* The bytes of a file in the order of the output, none past a position.
Ascends(s, at) ==
    /\ \A i, j \in DOMAIN s : i < j => s[i] < s[j]
    /\ \A i \in DOMAIN s : s[i] \in Nat /\ s[i] <= at

OInv == InFlight /\ Reads /\ Course /\ Asked /\ Ascends(file, Position)

SInv == CInv /\ BInv /\ OInv

\* What is known of a step before its effect on the two ends is.
Between == SInv /\ CInv' /\ BInv' /\ Onward

\* The numbers of a state.
NumbersAre ==
    /\ Stored \in Nat /\ Stored <= produced /\ produced \in Nat
    /\ rd.next \in Nat /\ Position \in Nat
    /\ cb.total <= Stored /\ Greater(cb.total, diskEnd) = Stored
    /\ HeadOf(cb) \in Int /\ HeadOf(cb) <= cb.total /\ cb.total \in Int

\* What the invariants say of them.
LEMMA NumbersNow == DInv /\ MInv /\ BInv => NumbersAre
  BY ByteFacts, ManagerFacts, WholeFacts DEF DInv, NumbersAre

\* And of the step.
LEMMA Numbers ==
    ASSUME Between
    PROVE  /\ Stored \in Nat /\ Stored' \in Nat /\ Stored <= produced /\ produced \in Nat
           /\ rd.next \in Nat /\ (rd.next)' \in Nat
           /\ Position \in Nat /\ Position' \in Nat /\ Stored <= Stored'
           /\ cb.total <= Stored /\ Greater(cb.total, diskEnd) = Stored
           /\ HeadOf(cb) \in Int /\ HeadOf(cb)' \in Int /\ HeadOf(cb) <= cb.total
           /\ cb.total \in Int /\ cur \in Nat /\ cur' \in Nat
  <1>1. DInv /\ MInv /\ BInv /\ DInv' /\ MInv' /\ BInv'
    BY DEF Between, SInv, CInv
  <1>2. Stored' \in Nat /\ (rd.next)' \in Nat /\ Position' \in Nat /\ HeadOf(cb)' \in Int
    <2>1. NumbersAre'
      BY <1>1, NumbersNow, PTL
    <2> QED BY <2>1 DEF NumbersAre
  <1>3. Stored <= Stored'
    BY DEF Between, Onward
  <1>4. cur \in Nat /\ cur' \in Nat
    BY <1>1, StreamNumbers DEF DInv, CallerInv
  <1> QED BY <1>1, <1>2, <1>3, <1>4, NumbersNow DEF NumbersAre

\* A position where the output ended is where it ends, and no place that follows
\* is another.
LEMMA EndStays ==
    ASSUME Between, NEW n \in Int, NEW m \in Int, Ended(n), n <= m, m <= Stored'
    PROVE  m = n /\ Ended(m)'
  <1>1. rl.pc = "done" /\ n = produced /\ rl' = rl /\ produced' = produced
    BY DEF Ended, Between, Onward
  <1>2. Stored' = Stored /\ Stored <= produced /\ Stored \in Nat /\ produced \in Nat
    BY <1>1, Numbers DEF Stored
  <1> DEFINE u == Stored
             v == Stored'
  <1>3. m <= v /\ v = u /\ u <= produced /\ u \in Nat /\ v \in Nat
    BY <1>2
  <1> HIDE DEF u, v
  <1>4. m = n
    BY <1>1, <1>2, <1>3
  <1> QED BY <1>1, <1>4 DEF Ended

\* What the invariant says of the state before the step.
LEMMA Before ==
    ASSUME Between
    PROVE  /\ DInv /\ IInv /\ Place /\ MInv /\ BInv /\ WInv
           /\ InFlight /\ Reads /\ Course /\ Asked /\ Ascends(file, Position)
           /\ rd \in ReaderState /\ Position + Len(rd.buf) <= Stored /\ Position <= Stored
           /\ rd.open => Position + Len(rd.buf) = rd.next
           /\ dnet \in Seq(Packet) /\ Elements(dnet) \subseteq Packet
           /\ pkt \in Packet \union {NoPacket}
           /\ anet \in Seq(AckState) /\ Elements(anet) \subseteq AckState
  <1>1. DInv /\ IInv /\ Place /\ MInv /\ BInv /\ WInv /\ OInv
    BY WholeFacts DEF Between, SInv, CInv
  <1>2. dnet \in Seq(Packet) /\ anet \in Seq(AckState)
    BY <1>1 DEF DInv, DataInv, AckInv
  <1>3. Elements(dnet) \subseteq Packet /\ Elements(anet) \subseteq AckState
    BY <1>2 DEF Elements
  <1>4. pkt \in Packet \union {NoPacket}
    BY <1>1 DEF IInv, Types, PktType
  <1>5. rd \in ReaderState /\ (rd.open => Position + Len(rd.buf) = rd.next)
    BY <1>1, WholeFacts DEF DInv, ReaderInv
  <1>6. Position + Len(rd.buf) <= Stored
    BY <1>1 DEF OInv, Reads, ReaderHolds
  <1>7. Position <= Stored
    <2> DEFINE l == Len(rd.buf)
               u == Stored
    <2>1. l \in Nat /\ u \in Nat /\ Position \in Nat /\ Position + l <= u
      BY <1>6, Numbers, <1>1, WholeFacts
    <2> HIDE DEF l, u
    <2>2. Position <= u
      BY <2>1
    <2> QED BY <2>2 DEF u
  <1> QED BY <1>1, <1>2, <1>3, <1>4, <1>5, <1>6, <1>7 DEF OInv

\* What is on its way stays good, and so does the packet being sent.
LEMMA FlightStays ==
    ASSUME Between, NEW p, p \in Elements(dnet) \/ p = pkt
    PROVE  Good(p)'
  <1>1. Good(p)
    BY Before DEF InFlight, BInv
  <1>2. EndOf(p) \in Int
    BY Before, PacketEnd
  <1> QED BY <1>1, <1>2, Numbers, GoodStays DEF Between

\* A good reader holds its bytes in their place.
LEMMA GoodHolds ==
    ASSUME NEW r \in ReaderState, NEW at \in Nat, Stored \in Nat, ReaderGood(r, at)
    PROVE  ReaderHolds(r, at)
  BY DEF ReaderGood, ReaderHolds

\* What a reader holds stays in its place.
LEMMA HoldsLater ==
    ASSUME Between, NEW r \in ReaderState, NEW at \in Nat
    PROVE  /\ ReaderHolds(r, at) => ReaderHolds(r, at)'
           /\ ReaderGood(r, at) => ReaderGood(r, at)'
  <1> DEFINE u == Stored
             v == Stored'
             l == Len(r.buf)
  <1>1. /\ u \in Nat /\ v \in Nat /\ u <= v /\ l \in Nat /\ r.next \in Nat
        /\ r.ooo \in SUBSET StoredPacket
    BY Numbers, ReaderFields
  <1>2. ASSUME NEW p \in r.ooo, Good(p) PROVE Good(p)'
    <2>1. p \in Packet
      BY <1>1 DEF StoredPacket
    <2>2. EndOf(p) \in Int
      BY <2>1, PacketEnd
    <2> QED BY <1>2, <2>2, Numbers, GoodStays DEF Between
  <1>3. ASSUME ReaderHolds(r, at) PROVE ReaderHolds(r, at)'
    <2>1. At(at, r.buf) /\ at + l <= u /\ \A p \in r.ooo : Good(p)'
      BY <1>2, <1>3 DEF ReaderHolds
    <2> HIDE DEF u, v, l
    <2>2. at + l <= v
      BY <1>1, <2>1
    <2> QED BY <2>1, <2>2 DEF ReaderHolds, v, l, At
  <1>4. ASSUME ReaderGood(r, at) PROVE ReaderGood(r, at)'
    <2>1. At(at, r.buf) /\ at + Len(r.buf) = r.next /\ r.next <= u /\ (\A p \in r.ooo : Good(p)')
          /\ (r.end = "eof" => Ended(r.next))
      BY <1>2, <1>4 DEF ReaderGood
    <2> HIDE DEF u, v, l
    <2>2. r.next <= v /\ r.next <= r.next /\ r.next \in Int
      BY <1>1, <2>1
    <2>3. Ended(r.next) => Ended(r.next)'
      BY <2>2, EndStays DEF v
    <2> QED BY <2>1, <2>2, <2>3 DEF ReaderGood, v, At
  <1> QED BY <1>3, <1>4

\* A step that leaves the reader and the file alone.
LEMMA ReaderStays ==
    ASSUME Between, UNCHANGED <<rd, file, gap>>
    PROVE  Reads' /\ Ascends(file, Position)' /\ Position' = Position
  <1>1. PICK r, at : r = rd /\ at = Position
    OBVIOUS
  <1>2. /\ r \in ReaderState /\ at \in Nat /\ rd' = r /\ Position' = at
        /\ ReaderHolds(r, at) /\ (r.open => ReaderGood(r, at))
    BY <1>1, Before, Numbers DEF Reads, Position
  <1>3. ReaderHolds(r, at)' /\ (r.open => ReaderGood(r, at)')
    BY <1>2, HoldsLater
  <1>4. Reads'
    BY <1>2, <1>3 DEF Reads, ReaderHolds, ReaderGood, At
  <1>5. Ascends(file, Position)'
    BY <1>1, <1>2, Before DEF Ascends
  <1> QED BY <1>1, <1>2, <1>4, <1>5

\* What is asked and told is so after a step that leaves the file alone.
LEMMA AskedLater ==
    ASSUME Between, UNCHANGED <<cur, file, gap>>, AskedBy(cl', h', cc')
    PROVE  Asked'
  <1> DEFINE u  == Stored
             v  == Stored'
             at == Position'
  <1>1. /\ u <= v /\ u \in Nat /\ v \in Nat /\ at = Position /\ cur' = cur
    BY Numbers DEF Position
  <1>2. cl'.seq \in Nat
    BY DEF Between, CInv, DInv, CallerInv, CallerState
  <1>3. AskedBy(cl', h', cc') /\ (cl'.pc = "resp" /\ ~cl'.done => cl'.seq <= u)
    BY DEF AskedBy
  <1> HIDE DEF u, v, at
  <1>4. cl'.pc = "resp" /\ ~cl'.done => cl'.seq <= v
    BY <1>1, <1>2, <1>3
  <1> QED BY <1>1, <1>3, <1>4 DEF Asked, AskedBy, v, at

\* A step that leaves the client's state alone, and brings nothing new but the
\* packet that was being sent.
LEMMA ClientStill ==
    ASSUME Between, UNCHANGED <<rd, file, gap, cur>>,
           \A p \in Elements(dnet') : p \in Elements(dnet) \/ p = pkt,
           Course', AskedBy(cl', h', cc')
    PROVE  OInv'
  <1>1. InFlight'
    BY FlightStays DEF InFlight
  <1> QED BY <1>1, ReaderStays, AskedLater DEF OInv

\* The read loop, the sender loop, the drains and the network keep the bytes in
\* place, and so does an acknowledgement that arrives.
LEMMA NetworkKeepsO ==
    ASSUME Between,
           \/ ReadLoopRuns \/ SenderLoopRuns \/ \E s \in Stream : DrainRuns(s)
           \/ Sent \/ SendTimesOut \/ AckArrives \/ LinkReturns
    PROVE  OInv'
  <1>1. UNCHANGED <<h, clientVars, cc>>
        /\ \A p \in Elements(dnet') : p \in Elements(dnet) \/ p = pkt
    <2>1. CASE ReadLoopRuns
      BY <2>1 DEF ReadLoopRuns, ReadLoop, ReadData, StoreOnDisk, DiskWriteFails, DiskFileChanged,
                  StoreInBuffer, ReadEnds
    <2>2. CASE SenderLoopRuns
      BY <2>2 DEF SenderLoopRuns, SenderLoop, SenderStops, SenderWaits, PrepareBytes,
                  PrepareTerminal, FailureDisconnects, FailureActivates, Disconnect, Activate
    <2>3. ASSUME NEW s \in Stream, DrainRuns(s)
          PROVE  UNCHANGED <<h, clientVars, cc, dnet>>
      BY <2>3 DEF DrainRuns, Drain, DrainGivesUp, DrainReads, DrainChecks, DrainWrites,
                  DrainUpdates, DrainCatchesUp, DrainRepeats, DrainEnds, Deactivated
    <2>4. CASE Sent \/ SendTimesOut
      <3>1. UNCHANGED <<h, clientVars, cc>> /\ Delivered
        BY <2>4 DEF Sent, SendTimesOut, SendReturns, SendFails
      <3> QED BY <3>1, Before, DeliveredEffect
    <2>5. CASE AckArrives \/ LinkReturns
      BY <2>5 DEF AckArrives, LinkReturns, RecvAck, vars
    <2> QED BY <2>1, <2>2, <2>3, <2>4, <2>5
  <1>2. Course' /\ AskedBy(cl', h', cc')
    BY <1>1, Before DEF Course, Asked
  <1> QED BY <1>1, <1>2, ClientStill

\* A connection that is lost takes what was on its way with it, and a main server
\* that quits what its reader held: the file keeps its place.
LEMMA LinkKeepsO ==
    ASSUME Between, LinkDrops \/ MainServerQuits \/ LoopStarts
    PROVE  OInv'
  <1>0. rd \in ReaderState /\ cl \in CallerState
    BY Before DEF DInv, CallerInv
  <1>1. UNCHANGED <<vars, h, cur, file, gap, done>> /\ dnet' \in {dnet, <<>>}
    BY DEF LinkDrops, MainServerQuits, LoopStarts, LinkLost
  <1>2. \A p \in Elements(dnet') : p \in Elements(dnet) \/ p = pkt
    BY <1>1 DEF Elements
  <1>3. AskedBy(cl', h', cc')
    <2>1. cl' = cl \/ cl'.pc \in {"failed", "run"}
      BY <1>0 DEF LinkDrops, MainServerQuits, LoopStarts, CallerState
    <2> QED BY <1>1, <2>1, Before DEF Asked, AskedBy, vars
  <1>4. CASE LinkDrops
    <2>1. UNCHANGED <<rd, loop>> /\ (cl' = cl \/ (cl.pc # "run" /\ cl'.pc = "failed"))
      BY <1>0, <1>4 DEF LinkDrops, CallerState
    <2>2. Course'
      BY <1>1, <2>1, Before DEF Course
    <2> QED BY <1>1, <1>2, <1>3, <2>1, <2>2, ClientStill
  <1>5. CASE LoopStarts
    <2>1. rd' = rd /\ cl'.pc = "run" /\ loop' /\ cl.pc = "startok"
      BY <1>0, <1>5 DEF LoopStarts, CallerState
    <2>2. Course'
      BY <1>1, <2>1, Before DEF Course
    <2> QED BY <1>1, <1>2, <1>3, <2>1, <2>2, ClientStill
  <1>6. CASE MainServerQuits
    <2>1. /\ rd'.buf = <<>> /\ rd'.ooo = {} /\ ~rd'.open /\ ~loop' /\ cl'.pc = "run"
      BY <1>0, <1>6 DEF MainServerQuits, ReaderState, CallerState
    <2>2. Course'
      BY <2>1 DEF Course
    <2> DEFINE at == Position'
               v  == Stored'
    <2>3. at = Position /\ at \in Nat /\ at <= v
      BY <1>1, Before, Numbers DEF Position, Stored, vars
    <2> HIDE DEF at, v
    <2>4. At(at, <<>>) /\ at + Len(<<>>) <= v
      BY <2>3 DEF At
    <2>5. Reads'
      BY <2>1, <2>4 DEF Reads, ReaderHolds, at, v, At
    <2>6. InFlight' /\ Ascends(file, Position)'
      BY <1>1, <1>2, <2>3, FlightStays, Before DEF InFlight, Ascends, at
    <2> QED BY <1>1, <1>3, <2>2, <2>5, <2>6, AskedLater DEF OInv
  <1> QED BY <1>4, <1>5, <1>6

\* The calls that do not reach ClientConnected, the one it refuses, and the ends
\* of StartJob and StartStream.
LEMMA PreludeKeepsO ==
    ASSUME Between,
           \/ PrepareConnect \/ HandlerDisconnects \/ HandlerActivates \/ HandlerRefused
           \/ JobStarted \/ StartStream
    PROVE  OInv'
  <1>0. cl \in CallerState /\ h \in HandlerState /\ (cc.pc # "idle" => h.pc = "connecting")
    BY Before DEF DInv, CallerInv, HandlerInv, CallInv
  <1>1. UNCHANGED <<dnet, cur, rd, loop, file, gap, done, cc>>
    BY DEF PrepareConnect, HandlerDisconnects, HandlerActivates, HandlerRefused, JobStarted,
           StartStream, ClientDisconnected, ActivateDiskBuffering, Disconnect, Activate,
           Replied, AttachReader, SetRwndSize, vars
  <1>2. CASE ~PrepareConnect
    <2>1. /\ h'.id = h.id /\ h'.seq = h.seq /\ (h'.pc = h.pc \/ h.pc # "idle")
          /\ (h'.pc = "idle" => cc.pc = "idle")
          /\ (cl' = cl \/ (cl.pc \in {"wait", "start"} /\ cl'.pc \in {"failed", "startok"}))
      <3>1. CASE HandlerDisconnects \/ HandlerActivates
        BY <1>0, <3>1 DEF HandlerDisconnects, HandlerActivates, HandlerState
      <3>2. CASE HandlerRefused \/ JobStarted
        BY <1>0, <3>2 DEF HandlerRefused, JobStarted, Replied, HandlerState, CallerState
      <3>3. CASE StartStream
        BY <1>0, <3>3 DEF StartStream, CallerState
      <3> QED BY <1>2, <3>1, <3>2, <3>3
    <2>2. Course'
      BY <1>1, <2>1, Before DEF Course
    <2>3. AskedBy(cl', h', cc')
      BY <1>1, <2>1, Before DEF Asked, AskedBy
    <2> QED BY <1>1, <2>2, <2>3, ClientStill
  <1>3. CASE PrepareConnect
    <2>1. /\ cl.pc = "ask" /\ h.pc = "idle" /\ cc.pc = "idle" /\ ~loop /\ ~done /\ rd.open
          /\ cl.seq = Position
      BY <1>0, <1>3, Before DEF PrepareConnect, Course, Asked, AskedBy
    <2>2. \/ cl'.pc = "resp" /\ cl'.done /\ h' = h
          \/ /\ cl'.pc = "wait" /\ h'.pc = "disconnect" /\ h'.id = cur /\ h'.seq = cl.seq
      BY <1>0, <1>3 DEF PrepareConnect, CallerState
    <2>3. Course'
      BY <1>1, <2>1, <2>2 DEF Course
    <2>4. Position <= Position
      BY Numbers
    <2>5. AskedBy(cl', h', cc')
      BY <1>1, <2>1, <2>2, <2>4 DEF AskedBy
    <2> QED BY <1>1, <2>3, <2>5, ClientStill
  <1> QED BY <1>2, <1>3

\* ClientConnected takes the client's position as it is, since it is not past what
\* the program wrote, and keeps it.
LEMMA ConnectsKeepO ==
    ASSUME Between, HandlerConnects \/ HandlerConsumes
    PROVE  OInv'
  <1>0. h \in HandlerState /\ h.seq \in Nat /\ cc \in CallState
    BY Before, ManagerFacts DEF DInv, HandlerInv, HandlerState
  <1>1. UNCHANGED <<netVars, clientVars>> /\ h'.id = h.id /\ h'.seq = h.seq
        /\ h.pc # "idle" /\ cc'.seq = h.seq
    <2>1. CASE HandlerConnects
      <3>1. /\ h.pc = "connect" /\ h' = [h EXCEPT !.pc = "connecting"]
            /\ UNCHANGED <<netVars, clientVars>>
            /\ cc'.seq = Lesser(h.seq, Greater(cb.total, diskEnd))
        BY <2>1 DEF HandlerConnects, ConnectBegins
      <3>2. h.seq <= Position
        BY <3>1, Before DEF Asked, AskedBy
      <3> DEFINE u == Stored
      <3>3. Greater(cb.total, diskEnd) = u /\ u \in Nat /\ Position \in Nat /\ Position <= u
        BY Numbers, Before
      <3> HIDE DEF u
      <3>4. Lesser(h.seq, u) = h.seq
        BY <1>0, <3>2, <3>3 DEF Lesser
      <3> QED BY <1>0, <3>1, <3>3, <3>4 DEF HandlerState
    <2>2. CASE HandlerConsumes
      <3>1. ConnectConsumes /\ UNCHANGED <<netVars, h, clientVars>> /\ cc.pc # "idle"
        BY <2>2 DEF HandlerConsumes, ConnectConsumes
      <3>2. cc'.seq = cc.seq
        BY <1>0, <3>1 DEF ConnectConsumes, CallState
      <3>3. h.pc = "connecting" /\ cc.seq = h.seq
        BY <3>1, Before DEF DInv, CallInv, Asked, AskedBy
      <3> QED BY <3>1, <3>2, <3>3
    <2> QED BY <2>1, <2>2
  <1>2. Course'
    BY <1>1, Before DEF Course
  <1>3. AskedBy(cl', h', cc')
    BY <1>1, Before DEF Asked, AskedBy
  <1> QED BY <1>1, <1>2, <1>3, ClientStill

\* The position a restart is told is the one it asked for, or the buffer's head
\* when that is past it.
LEMMA ConnectedReply ==
    ASSUME Between, HandlerConnected
    PROVE  /\ ConnectEnds /\ UNCHANGED <<netVars, cur, rd, loop, file, gap, done, termAcked>>
           /\ cc.pc # "idle" /\ cc'.pc = "idle" /\ h.pc = "connecting"
           /\ h'.id = h.id /\ h'.seq = h.seq
           /\ \/ cl' = cl
              \/ /\ h.id = cur /\ cl.pc = "wait" /\ cl'.pc = "resp" /\ ~cl'.done
                 /\ cl'.seq = Greater(HeadOf(cb), Position)
                 /\ rd.open /\ ~loop /\ ~done /\ rd.next = Position
  <1>1. /\ ConnectEnds /\ UNCHANGED <<netVars, cur, rd, loop, file, gap, done, termAcked>>
        /\ cc.pc # "idle" /\ cc'.pc = "idle" /\ h.pc = "connecting"
        /\ h'.id = h.id /\ h'.seq = h.seq
        /\ \/ cl' = cl
           \/ /\ ~h.job /\ h.id = cur /\ cl.pc = "wait"
              /\ cl' = [pc |-> "resp", seq |-> StartSeq, done |-> FALSE]
    <2>1. h \in HandlerState
      BY Before DEF DInv, HandlerInv
    <2>2. ConnectEnds /\ UNCHANGED <<termAcked>> /\ cc.pc # "idle" /\ cc'.pc = "idle"
      BY DEF HandlerConnected, ConnectEnds, Idle
    <2> QED BY <2>1, <2>2 DEF HandlerConnected, HandlerState, Replied
  <1>2. CASE /\ ~h.job /\ h.id = cur /\ cl.pc = "wait"
             /\ cl' = [pc |-> "resp", seq |-> StartSeq, done |-> FALSE]
    <2>1. cl'.pc = "resp" /\ ~cl'.done /\ cl'.seq = StartSeq
      BY <1>2
    <2>2. rd.open /\ ~loop /\ ~done /\ h.seq = Position /\ cc.seq = h.seq
      BY <1>1, <1>2, Before DEF Course, Asked, AskedBy
    <2>3. Corked
      <3>1. cur \in Nat /\ cur # 1
        BY <1>2, Before, Numbers DEF DInv, HandlerInv
      <3>2. cur > 1
        BY <3>1, StreamNumbers, Before DEF DInv, CallerInv
      <3> QED BY <1>2, <2>2, <3>2 DEF Corked
    <2>4. rd.next = Position
      <3>1. rd.buf = <<>>
        BY <2>3, Before DEF DInv, CorkRead
      <3>2. Position + Len(rd.buf) = rd.next /\ Position \in Nat /\ Len(rd.buf) = 0
        BY <2>2, <3>1, Before, Numbers
      <3> QED BY <3>2
    <2>5. cc.head = HeadOf(cb)
      BY <1>1, Before DEF MInv, CallHead
    <2>6. StartSeq = Greater(HeadOf(cb), Position)
      BY <2>2, <2>5 DEF StartSeq
    <2> QED BY <1>1, <1>2, <2>1, <2>2, <2>4, <2>6
  <1> QED BY <1>1, <1>2

\* Either way the file keeps its place, and the position told is not behind it.
LEMMA ConnectedKeepsO ==
    ASSUME Between, HandlerConnected
    PROVE  OInv'
  <1>1. /\ UNCHANGED <<netVars, cur, rd, loop, file, gap, done>>
        /\ cc'.pc = "idle" /\ h.pc = "connecting" /\ h'.id = h.id /\ h'.seq = h.seq
    BY ConnectedReply
  <1>2. CASE cl' = cl
    <2>1. AskedBy(cl', h', cc')
      BY <1>1, <1>2, Before DEF Asked, AskedBy
    <2>2. Course'
      BY <1>1, <1>2, Before DEF Course
    <2> QED BY <1>1, <2>1, <2>2, ClientStill
  <1>3. CASE /\ cl.pc = "wait" /\ cl'.pc = "resp" /\ ~cl'.done
             /\ cl'.seq = Greater(HeadOf(cb), Position) /\ rd.open /\ ~loop /\ ~done
    <2> DEFINE u == Stored
               b == HeadOf(cb)
               q == Greater(b, Position)
    <2>1. u \in Nat /\ Position \in Nat /\ b \in Int /\ b <= u /\ Position <= u
      BY Numbers, Before
    <2>2. cl'.seq = q
      BY <1>3
    <2>3. q = Greater(b, Position)
      OBVIOUS
    <2> HIDE DEF u, b, q
    <2>4. Position <= q /\ q <= u
      BY <2>1, <2>3 DEF Greater
    <2>5. AskedBy(cl', h', cc')
      BY <1>1, <1>3, <2>2, <2>4, Before DEF Asked, AskedBy, u
    <2>6. Course'
      BY <1>1, <1>3 DEF Course
    <2> QED BY <1>1, <2>5, <2>6, ClientStill
  <1> QED BY <1>2, <1>3, ConnectedReply

-----------------------------------------------------------------------------
(* The main server's steps *)

\* A step of the main server only, when the reader it leaves is good.
LEMMA ServerReads ==
    ASSUME Between, UNCHANGED <<vars, h>>,
           ReaderHolds(rd', Position'), rd'.open => ReaderGood(rd', Position'),
           Elements(dnet') \subseteq Elements(dnet)
    PROVE  InFlight' /\ Reads'
  <1>1. Stored' = Stored /\ (\A n : Ended(n)' <=> Ended(n))
    BY DEF vars, Stored, Ended
  <1>2. InFlight'
    BY FlightStays DEF InFlight
  <1> DEFINE at == Position'
             u  == Stored
             v  == Stored'
  <1>3. v = u
    BY <1>1
  <1>4. /\ At(at, rd'.buf) /\ at + Len(rd'.buf) <= u /\ (\A p \in rd'.ooo : Good(p))
        /\ rd'.open => /\ at + Len(rd'.buf) = rd'.next /\ rd'.next <= u
                       /\ (rd'.end = "eof" => Ended(rd'.next))
    BY DEF ReaderHolds, ReaderGood
  <1>5. \A p \in rd'.ooo : Good(p)'
    BY <1>1, <1>4 DEF Good, At, EndOf
  <1> HIDE DEF at, u, v
  <1>6. /\ At(at, rd'.buf) /\ at + Len(rd'.buf) <= v
        /\ rd'.open => /\ at + Len(rd'.buf) = rd'.next /\ rd'.next <= v
                       /\ (rd'.end = "eof" => Ended(rd.next)')
    <2>1. Ended(rd'.next) => Ended(rd.next)'
      BY DEF Ended, vars
    <2> QED BY <1>3, <1>4, <2>1
  <1>7. Reads'
    BY <1>5, <1>6 DEF Reads, ReaderHolds, ReaderGood, at, v, At
  <1> QED BY <1>2, <1>7

\* What is asked and told after a step of the main server only: the file's place
\* does not move back.
LEMMA AskedServer ==
    ASSUME Between, UNCHANGED <<vars, h>>, Position <= Position',
           cl'.pc = "ask" => cl'.seq = Position',
           cl'.pc \in {"wait", "resp"} => cl' = cl /\ cur' = cur /\ Position' = Position
    PROVE  Asked'
  <1>1. Stored' = Stored /\ cc' = cc /\ h' = h
    BY DEF vars, Stored
  <1> DEFINE at == Position'
             v  == Stored'
  <1>2. v = Stored /\ at \in Nat /\ Position \in Nat /\ Position <= at
    BY <1>1, Numbers
  <1>3. h.seq \in Nat
    BY Before DEF DInv, HandlerInv, HandlerState
  <1>4. /\ h.pc # "idle" => h.seq <= Position /\ (h.id = cur /\ cl.pc = "wait" => h.seq = Position)
        /\ cl.pc = "resp" /\ ~cl.done => Position <= cl.seq /\ cl.seq <= Stored
        /\ cc.pc # "idle" => cc.seq = h.seq
    BY Before DEF Asked, AskedBy
  <1>5. /\ cl'.pc \in {"wait", "resp"} => cl' = cl /\ cur' = cur /\ at = Position
        /\ cl'.pc = "ask" => cl'.seq = at
    OBVIOUS
  <1> HIDE DEF at, v
  <1>6. h.pc # "idle" => h.seq <= at
    BY <1>2, <1>3, <1>4
  <1>7. h.pc # "idle" => (h.id = cur' /\ cl'.pc = "wait" => h.seq = at)
    BY <1>4, <1>5
  <1>8. cl'.pc = "resp" /\ ~cl'.done => at <= cl'.seq /\ cl'.seq <= v
    BY <1>2, <1>4, <1>5
  <1> QED BY <1>1, <1>4, <1>5, <1>6, <1>7, <1>8 DEF Asked, AskedBy, at, v

\* A file to which the bytes that follow its place are appended.
LEMMA AppendAscends ==
    ASSUME NEW s \in Seq(Byte), NEW at \in Nat, Ascends(s, at), NEW t \in Seq(Byte), At(at, t)
    PROVE  Ascends(s \o t, at + Len(t))
  <1> DEFINE k == Len(s)
             l == Len(t)
             f == s \o t
  <1>1. /\ k \in Nat /\ l \in Nat /\ DOMAIN f = 1..(k + l)
        /\ \A i \in 1..k : f[i] = s[i] /\ s[i] \in Nat /\ s[i] <= at
        /\ \A i, j \in 1..k : i < j => s[i] < s[j]
        /\ \A i \in 1..(k + l) : i > k => f[i] = t[i - k]
        /\ \A i \in 1..l : t[i] = at + i
    BY DEF Ascends, At
  <1> HIDE DEF k, l, f
  <1>2. ASSUME NEW i \in 1..(k + l), i > k PROVE f[i] = at + (i - k)
    <2>1. i - k \in 1..l
      BY <1>1, <1>2
    <2> QED BY <1>1, <1>2, <2>1
  <1>3. ASSUME NEW i \in DOMAIN f PROVE f[i] \in Nat /\ f[i] <= at + l
    <2>1. CASE i > k
      BY <1>1, <1>2, <1>3, <2>1
    <2>2. CASE ~(i > k)
      <3>1. i \in 1..k
        BY <1>1, <1>3, <2>2
      <3> QED BY <1>1, <3>1
    <2> QED BY <2>1, <2>2
  <1>4. ASSUME NEW i \in DOMAIN f, NEW j \in DOMAIN f, i < j PROVE f[i] < f[j]
    <2>1. CASE j > k
      <3>1. f[j] = at + (j - k)
        BY <1>1, <1>2, <2>1
      <3>2. CASE i > k
        <4>1. f[i] = at + (i - k)
          BY <1>1, <1>2, <3>2
        <4> QED BY <1>1, <1>4, <3>1, <4>1
      <3>3. CASE ~(i > k)
        <4>1. i \in 1..k
          BY <1>1, <3>3
        <4>2. f[i] <= at /\ f[i] \in Nat
          BY <1>1, <4>1
        <4> QED BY <1>1, <2>1, <3>1, <4>2
      <3> QED BY <3>2, <3>3
    <2>2. CASE ~(j > k)
      <3>1. i \in 1..k /\ j \in 1..k
        BY <1>1, <1>4, <2>2
      <3> QED BY <1>1, <1>4, <3>1
    <2> QED BY <2>1, <2>2
  <1> QED BY <1>3, <1>4 DEF Ascends, f, l

\* A packet that arrives.
LEMMA DataKeepsO ==
    ASSUME Between, DataArrives
    PROVE  /\ OInv' /\ rd.next <= rd'.next /\ rd'.open = rd.open
           /\ ~rd.open => UNCHANGED <<rd, anet>>
           /\ \A a \in Elements(anet') :
                 a \in Elements(anet) \/ (a.seq <= rd'.next /\ (a.fin => rd'.end # "none"))
           /\ "err" \notin Terminal /\ rd.end # "err" => rd'.end # "err"
  <1>0. UNCHANGED <<vars, h, cur, cl, loop, file, gap, done>>
    BY DEF DataArrives
  <1> DEFINE p == Head(dnet)
  <1>1. /\ p \in Packet /\ p \in Elements(dnet) /\ dnet' = Tail(dnet)
        /\ Elements(dnet') \subseteq Elements(dnet) /\ RecvData(p)
    BY Before, TailElements DEF DataArrives
  <1>2. Shaped(p) /\ Good(p)
    BY <1>1, Before DEF DInv, DataInv, InFlight
  <1> HIDE DEF p
  <1>3. /\ rd \in ReaderState /\ Bounded(rd.ooo) /\ (\A q \in rd.ooo : Shaped(q))
        /\ Position \in Int /\ Position' = Position
    BY <1>0, Before, Numbers DEF DInv, ReaderInv, Position
  <1>4. Received(p, rd, rd')
    BY <1>1, <1>3, RecvDataEffect
  <1>5. rd' \in ReaderState /\ rd'.open = rd.open /\ rd.next <= rd'.next
    BY <1>4 DEF Received
  <1>6. CASE ~rd.open
    <2>1. rd' = rd /\ anet' = anet
      BY <1>1, <1>6 DEF RecvData
    <2>2. InFlight'
      BY <1>1, FlightStays DEF InFlight
    <2>3. OInv'
      BY <1>0, <2>1, <2>2, Before, ClientStill, <1>1 DEF Course, Asked, vars
    <2> QED BY <1>5, <2>1, <2>3
  <1>7. CASE rd.open
    <2>1. ReaderGood(rd, Position)
      BY <1>7, Before DEF Reads
    <2>2. /\ ReaderGood(rd', Position)
          /\ \/ anet' = anet
             \/ \E a \in AckState : /\ Acked(a) /\ a.seq = rd'.next
                                    /\ a.fin => rd'.end # "none"
          /\ "err" \notin Terminal /\ rd.end # "err" => rd'.end # "err"
      BY <1>1, <1>2, <1>3, <2>1, RecvGood
    <2>3. \A a \in Elements(anet') :
              a \in Elements(anet) \/ (a.seq <= rd'.next /\ (a.fin => rd'.end # "none"))
      <3>1. ASSUME NEW a \in AckState, Acked(a), a.seq = rd'.next, a.fin => rd'.end # "none"
            PROVE  \A b \in Elements(anet') : b \in Elements(anet) \/ b = a
        BY <3>1, Before, AckedEffect
      <3>2. \A a \in AckState : a.seq = rd'.next => a.seq <= rd'.next
        BY DEF AckState
      <3> QED BY <2>2, <3>1, <3>2, Zenon
    <2>4. ReaderHolds(rd', Position)
      BY <1>5, <2>2, GoodHolds, Numbers
    <2>5. InFlight' /\ Reads'
      BY <1>0, <1>1, <1>3, <1>5, <2>2, <2>4, ServerReads
    <2>6. Course'
      BY <1>0, <1>5, Before DEF Course
    <2>7. Asked'
      <3>1. Position <= Position'
        BY <1>3
      <3>2. cl'.pc = "ask" => cl'.seq = Position'
        BY <1>0, <1>3, Before DEF Asked, AskedBy
      <3> QED BY <1>0, <1>3, <3>1, <3>2, AskedServer
    <2>8. Ascends(file, Position)'
      BY <1>0, <1>3, Before DEF Ascends
    <2> QED BY <1>5, <1>7, <2>2, <2>3, <2>5, <2>6, <2>7, <2>8 DEF OInv
  <1> QED BY <1>6, <1>7

\* One Read of the output loop moves the first bytes of the reader to the file.
LEMMA ReadMoves ==
    ASSUME DInv, LoopReads
    PROVE  \E n \in Nat :
             /\ n <= Len(rd.buf) /\ rd.buf \in Seq(Byte)
             /\ file' = file \o SubSeq(rd.buf, 1, n) /\ rd'.buf = DropFirst(rd.buf, n)
             /\ rd'.next = rd.next /\ rd'.end = rd.end /\ rd'.ooo = rd.ooo
             /\ n > 0
  <1> DEFINE n == Lesser(MaxPacket, Len(rd.buf))
             x == DropFirst(rd.buf, n)
             r == [rd EXCEPT !.buf = x]
  <1>1. rd \in ReaderState /\ rd.buf \in Seq(Byte) /\ Len(rd.buf) \in Nat /\ rd.buf # <<>>
    BY ReaderFields DEF DInv, ReaderInv, LoopReads
  <1>2. n \in Nat /\ n <= Len(rd.buf) /\ n > 0
    <2>1. Len(rd.buf) > 0
      BY <1>1
    <2> QED BY <1>1, <2>1, SizesAssumption DEF Lesser
  <1>3. /\ file' = file \o SubSeq(rd.buf, 1, n)
        /\ rd' = r \/ rd' = [r EXCEPT !.rwndSent = FreeWindow(r)]
    BY DEF LoopReads
  <1> HIDE DEF n, x
  <1>4. r = ReaderRec(rd.id, rd.next, x, rd.ooo, rd.end, rd.open, rd.rwndSent)
    BY <1>1, ReaderExcept
  <1> HIDE DEF r
  <1>5. \E s : rd' = ReaderRec(rd.id, rd.next, x, rd.ooo, rd.end, rd.open, s)
    BY <1>3, <1>4 DEF ReaderRec
  <1>6. rd'.buf = x /\ rd'.next = rd.next /\ rd'.end = rd.end /\ rd'.ooo = rd.ooo
    BY <1>5 DEF ReaderRec
  <1> QED BY <1>1, <1>2, <1>3, <1>6 DEF x

\* Bytes the reader held are appended to the file.
Appends(n) ==
    /\ n <= Len(rd.buf) /\ rd.buf \in Seq(Byte)
    /\ file' = file \o SubSeq(rd.buf, 1, n) /\ gap' = gap

\* They are the next ones of the output, and the file stays in order.
LEMMA AppendsNext ==
    ASSUME Between, NEW n \in Nat, Appends(n)
    PROVE  /\ Position' = Position + n /\ Ascends(file, Position)'
           /\ Position + n <= Stored
  <1> DEFINE d == SubSeq(rd.buf, 1, n)
             at == Position
             b  == Position'
  <1>1. /\ rd.buf \in Seq(Byte) /\ Len(rd.buf) \in Nat /\ n <= Len(rd.buf)
        /\ file \in Seq(Byte) /\ gap \in Nat /\ Len(file) \in Nat /\ at \in Nat
        /\ At(at, rd.buf) /\ Ascends(file, at)
    <2>1. rd.buf \in Seq(Byte) /\ Len(rd.buf) \in Nat /\ n <= Len(rd.buf)
      BY DEF Appends
    <2>2. DInv /\ Reads /\ Ascends(file, at)
      BY Before
    <2>3. file \in Seq(Byte) /\ gap \in Nat
      BY <2>2 DEF DInv, ProgressInv
    <2>4. Len(file) \in Nat
      BY <2>3
    <2>5. at \in Nat
      BY Numbers
    <2>6. At(at, rd.buf) /\ Ascends(file, at)
      BY <2>2 DEF Reads, ReaderHolds
    <2> HIDE DEF at
    <2> QED BY <2>1, <2>3, <2>4, <2>5, <2>6
  <1>2. d \in Seq(Byte) /\ Len(d) = n /\ At(at, d)
    BY <1>1 DEF At
  <1> HIDE DEF d
  <1>3. file' = file \o d /\ gap' = gap /\ Len(file \o d) = Len(file) + n
    BY <1>1, <1>2, JoinType DEF Appends, d
  <1>4. at = Len(file) + gap /\ b = Len(file') + gap'
    BY DEF Position
  <1>5. b = at + n
    <2> DEFINE k == Len(file)
               m == Len(file \o d)
    <2>1. k \in Nat /\ m = k + n /\ at = k + gap /\ b = m + gap
      BY <1>1, <1>3, <1>4
    <2> HIDE DEF k, m, at, b
    <2> QED BY <1>1, <2>1
  <1>6. Ascends(file \o d, at + Len(d))
    <2> HIDE DEF at
    <2> QED BY <1>1, <1>2, AppendAscends
  <1>7. Ascends(file', b)
    <2> HIDE DEF b, at
    <2> QED BY <1>2, <1>3, <1>5, <1>6
  <1>8. at + n <= Stored
    <2> DEFINE l == Len(rd.buf)
               u == Stored
    <2>1. at + l <= u /\ n <= l /\ l \in Nat /\ u \in Nat
      BY <1>1, Before, Numbers
    <2> HIDE DEF l, u, at
    <2>2. at + n <= u
      BY <1>1, <2>1
    <2> QED BY <2>2 DEF u
  <1> QED BY <1>5, <1>7, <1>8 DEF Ascends, b

\* A Read of the output loop keeps the bytes in place.
LEMMA LoopReadsKeepsO ==
    ASSUME Between, LoopReads
    PROVE  /\ OInv' /\ rd'.next = rd.next /\ rd'.end = rd.end
           /\ \E n \in Nat : n > 0 /\ Appends(n)
           /\ \A a \in Elements(anet') : a \in Elements(anet) \/ (a.seq = rd.next /\ ~a.fin)
  <1>0. UNCHANGED <<vars, dnet, h, cur, cl, loop, gap, done>> /\ loop /\ rd.open
    BY DEF LoopReads
  <1>1. PICK n \in Nat :
             /\ n <= Len(rd.buf) /\ rd.buf \in Seq(Byte)
             /\ file' = file \o SubSeq(rd.buf, 1, n) /\ rd'.buf = DropFirst(rd.buf, n)
             /\ rd'.next = rd.next /\ rd'.end = rd.end /\ rd'.ooo = rd.ooo
             /\ n > 0
    BY Before, ReadMoves
  <1>2. /\ At(Position, rd.buf) /\ Position + Len(rd.buf) = rd.next /\ rd.next <= Stored
        /\ (\A q \in rd.ooo : Good(q))
        /\ (rd.end = "eof" => Ended(rd.next))
    BY <1>0, Before DEF Reads, ReaderGood
  <1>3. Appends(n) /\ Position' = Position + n /\ Ascends(file, Position)'
    <2>1. Appends(n)
      BY <1>0, <1>1 DEF Appends
    <2> QED BY <2>1, AppendsNext
  <1>4. ReaderGood(rd', Position')
    <2> DEFINE at == Position'
               d  == DropFirst(rd.buf, n)
    <2>1. At(Position + n, d)
      <3>1. Position \in Int
        BY Numbers
      <3> QED BY <1>1, <1>2, <3>1, AtDrop
    <2>2. Len(d) = Len(rd.buf) - n
      BY <1>1, DropType
    <2>3. at = Position + n /\ Position \in Nat /\ Len(rd.buf) \in Nat
      BY <1>1, <1>3, Numbers
    <2> HIDE DEF at, d
    <2>4. at + Len(d) = rd.next
      <3> DEFINE l == Len(rd.buf)
                 k == Len(d)
      <3>1. k = l - n /\ l \in Nat /\ Position + l = rd.next
        BY <1>2, <2>2, <2>3
      <3> HIDE DEF l, k
      <3>2. at + k = rd.next
        BY <2>3, <3>1
      <3> QED BY <3>2 DEF k
    <2>5. At(at, d)
      BY <2>1, <2>3
    <2>6. rd'.buf = d
      BY <1>1 DEF d
    <2> QED BY <1>1, <1>2, <2>4, <2>5, <2>6 DEF ReaderGood, at
  <1>5. \A a \in Elements(anet') : a \in Elements(anet) \/ (a.seq = rd.next /\ ~a.fin)
    <2> DEFINE no == FALSE
               r  == [rd EXCEPT !.buf = DropFirst(@, Lesser(MaxPacket, Len(rd.buf)))]
    <2>1. anet' = anet \/ Acked(AckOf(r, no, no))
      BY Zenon DEF LoopReads
    <2>2. r \in ReaderState /\ r.next = rd.next
      <3> DEFINE x == DropFirst(rd.buf, Lesser(MaxPacket, Len(rd.buf)))
      <3>0. rd.buf \in Seq(Byte) /\ Len(rd.buf) \in Nat
        BY Before, ReaderFields
      <3>1. Lesser(MaxPacket, Len(rd.buf)) \in Nat /\ Lesser(MaxPacket, Len(rd.buf)) <= Len(rd.buf)
        BY <3>0, SizesAssumption DEF Lesser
      <3>2. x \in Seq(Byte)
        BY <3>0, <3>1, DropType
      <3>3. r = [rd EXCEPT !.buf = x]
        OBVIOUS
      <3> HIDE DEF x, r
      <3>4. r = ReaderRec(rd.id, rd.next, x, rd.ooo, rd.end, rd.open, rd.rwndSent)
        BY <3>3, Before, ReaderExcept, Zenon
      <3>5. ReaderRec(rd.id, rd.next, x, rd.ooo, rd.end, rd.open, rd.rwndSent) \in ReaderState
        BY <3>2, Before, ReaderFields, ReaderType, Zenon
      <3>6. ReaderRec(rd.id, rd.next, x, rd.ooo, rd.end, rd.open, rd.rwndSent).next = rd.next
        BY DEF ReaderRec
      <3> QED BY <3>4, <3>5, <3>6, Zenon
    <2>3. no \in BOOLEAN /\ ~no
      BY Zenon
    <2> HIDE DEF no, r
    <2>4. AckOf(r, no, no) \in AckState /\ AckOf(r, no, no).seq = rd.next /\ AckOf(r, no, no).fin = no
      BY <2>2, <2>3, AckFields, ZenonT(30)
    <2>5. Elements(anet') \subseteq Elements(anet) \union {AckOf(r, no, no)}
      <3>1. CASE Acked(AckOf(r, no, no))
        BY <2>4, <3>1, Before, AckedEffect
      <3> QED BY <2>1, <3>1
    <2> QED BY <2>3, <2>4, <2>5
  <1>6. ReaderHolds(rd', Position') /\ dnet' = dnet
    <2>1. rd' \in ReaderState
      BY Before, ReadEffect
    <2> DEFINE at == Position'
    <2>2. at \in Nat /\ ReaderGood(rd', at) /\ Stored \in Nat
      BY <1>4, Numbers
    <2> HIDE DEF at
    <2>3. ReaderHolds(rd', at)
      BY <2>1, <2>2, GoodHolds
    <2> QED BY <1>0, <2>3 DEF at
  <1>7. InFlight' /\ Reads'
    BY <1>0, <1>4, <1>6, ServerReads
  <1>8. cl.pc = "run" /\ ~done
    BY <1>0, Before DEF Course
  <1>9. Course'
    BY <1>0, <1>8 DEF Course
  <1>10. Asked'
    <2>1. Position <= Position'
      BY <1>3, Numbers
    <2> QED BY <1>0, <1>8, <2>1, AskedServer
  <1> QED BY <1>1, <1>3, <1>5, <1>7, <1>9, <1>10 DEF OInv

\* What a reader that closes says of itself.
LEMMA CloseSays ==
    ASSUME Between, Acked(AckOf(rd, FALSE, TRUE))
    PROVE  \A a \in Elements(anet') : a \in Elements(anet) \/ (a.seq = rd.next /\ ~a.fin)
  <1> DEFINE yes == TRUE
             no  == FALSE
             a   == AckOf(rd, no, yes)
  <1>1. yes \in BOOLEAN /\ no \in BOOLEAN /\ ~no /\ Acked(a)
    BY Zenon
  <1> HIDE DEF yes, no
  <1>2. a \in AckState /\ a.seq = rd.next /\ a.fin = no
    BY <1>1, Before, AckFields, ZenonT(30)
  <1> HIDE DEF a
  <1>3. Elements(anet') \subseteq Elements(anet) \union {a}
    BY <1>1, <1>2, Before, AckedEffect
  <1> QED BY <1>1, <1>2, <1>3

\* The output loop ends, or a restart comes to nothing: the reader closes.
LEMMA CloseKeepsO ==
    ASSUME Between, LoopEnds \/ AlreadyDone \/ CallFails
    PROVE  /\ OInv' /\ ~done /\ UNCHANGED <<vars, dnet, h, cur, file, gap>>
           /\ rd'.next = rd.next /\ rd'.buf = rd.buf /\ rd'.end = rd.end
           /\ cl'.pc = "run" /\ Acked(AckOf(rd, FALSE, TRUE))
  <1>0. rd \in ReaderState /\ cl \in CallerState
    BY Before DEF DInv, CallerInv
  <1>1. /\ UNCHANGED <<vars, dnet, h, cur, file, gap>> /\ Acked(AckOf(rd, FALSE, TRUE))
        /\ rd' = [rd EXCEPT !.open = FALSE]
    BY DEF LoopEnds, AlreadyDone, CallFails, CloseReader
  <1>2. /\ rd'.next = rd.next /\ rd'.buf = rd.buf /\ rd'.ooo = rd.ooo /\ rd'.end = rd.end
        /\ ~rd'.open
    BY <1>0, <1>1 DEF ReaderState
  <1>3. Position' = Position
    BY <1>1 DEF Position
  <1>4. ReaderHolds(rd', Position')
    BY <1>2, <1>3, Before DEF Reads, ReaderHolds
  <1>5. InFlight' /\ Reads'
    BY <1>1, <1>2, <1>4, ServerReads
  <1>6. ~done /\ cl'.pc = "run" /\ ~loop'
    <2>1. CASE LoopEnds
      BY <2>1, Before DEF LoopEnds, Course
    <2>2. CASE AlreadyDone \/ CallFails
      <3>1. cl.pc \in {"resp", "failed"} /\ loop' = loop /\ cl' = [cl EXCEPT !.pc = "run"]
        BY <2>2 DEF AlreadyDone, CallFails, CloseReader
      <3> QED BY <1>0, <3>1, Before DEF CallerState, Course
    <2> QED BY <2>1, <2>2
  <1>7. Course'
    BY <1>6 DEF Course
  <1>8. Asked'
    <2>1. Position <= Position'
      BY <1>3, Numbers
    <2> QED BY <1>1, <1>6, <2>1, AskedServer
  <1>9. Ascends(file, Position)'
    BY <1>1, <1>3, Before DEF Ascends
  <1> QED BY <1>1, <1>2, <1>5, <1>6, <1>7, <1>8, <1>9 DEF OInv

\* A restart appends what the old reader held, and the new one goes on there.
LEMMA RestartKeepsO ==
    ASSUME Between, Restart
    PROVE  /\ OInv' /\ ~done /\ Appends(Len(rd.buf)) /\ UNCHANGED <<vars, h, gap, done>>
           /\ rd'.next = Position' /\ rd'.buf = <<>> /\ rd'.end = "none"
           /\ Position' = Position + Len(rd.buf) /\ cl'.pc = "ask"
           /\ \A a \in Elements(anet') : a \in Elements(anet) \/ (a.seq = rd.next /\ ~a.fin)
  <1>0. rd \in ReaderState /\ rd.buf \in Seq(Byte) /\ Len(rd.buf) \in Nat
    BY Before, ReaderFields
  <1>1. /\ UNCHANGED <<vars, dnet, h, gap, done>> /\ ~done /\ file' = file \o rd.buf
        /\ rd' = NewReader(cur + 1, Len(file') + gap)
        /\ Acked(AckOf(rd, FALSE, TRUE)) \/ anet' = anet
        /\ ~loop' /\ cl'.pc = "ask" /\ cl'.seq = Len(file') + gap
    BY DEF Restart
  <1>2. Appends(Len(rd.buf))
    <2>1. SubSeq(rd.buf, 1, Len(rd.buf)) = rd.buf
      BY <1>0
    <2> QED BY <1>0, <1>1, <2>1 DEF Appends
  <1>3. /\ Position' = Position + Len(rd.buf) /\ Ascends(file, Position)'
        /\ Position + Len(rd.buf) <= Stored
    BY <1>0, <1>2, AppendsNext
  <1>4. /\ rd'.next = Position' /\ rd'.buf = <<>> /\ rd'.ooo = {} /\ rd'.end = "none" /\ rd'.open
    <2>1. Position' = Len(file') + gap
      BY <1>1 DEF Position
    <2> QED BY <1>1, <2>1 DEF NewReader
  <1>5. ReaderGood(rd', Position') /\ ReaderHolds(rd', Position') /\ Position <= Position'
    <2> DEFINE at == Position'
               u  == Stored
    <2>1. at \in Nat /\ at <= u /\ u \in Nat /\ Position <= at
      BY <1>0, <1>3, Numbers
    <2> HIDE DEF at, u
    <2>2. At(at, <<>>) /\ at + Len(<<>>) = at
      BY <2>1 DEF At
    <2> QED BY <1>4, <2>1, <2>2 DEF ReaderGood, ReaderHolds, at, u
  <1>6. InFlight' /\ Reads'
    BY <1>1, <1>5, ServerReads
  <1>7. Course'
    BY <1>1, <1>4 DEF Course
  <1>8. cl'.seq = Position'
    BY <1>1 DEF Position
  <1>9. Asked'
    BY <1>1, <1>5, <1>8, AskedServer
  <1>10. \A a \in Elements(anet') : a \in Elements(anet) \/ (a.seq = rd.next /\ ~a.fin)
    BY <1>1, CloseSays
  <1> QED BY <1>1, <1>2, <1>3, <1>4, <1>6, <1>7, <1>9, <1>10 DEF OInv

\* The reply to a restart leaves the file alone: it is never ahead of the job
\* manager.  What the job manager no longer has becomes a gap.
LEMMA ReconcileKeepsO ==
    ASSUME Between, Reconcile
    PROVE  /\ OInv' /\ ~done /\ file' = file /\ UNCHANGED <<vars, h, anet, done>>
           /\ Position <= Position' /\ Position' <= Stored /\ gap' = gap + (Position' - Position)
           /\ rd.next = Position /\ rd'.next = Position' /\ Position' = cl.seq
           /\ rd'.buf = <<>> /\ rd'.end = rd.end /\ cl.pc = "resp" /\ ~cl.done /\ cl'.pc = "start"
  <1>0. /\ rd \in ReaderState /\ cl \in CallerState /\ cl.seq \in Nat
        /\ file \in Seq(Byte) /\ gap \in Nat /\ Len(file) \in Nat
    BY Before DEF DInv, ProgressInv, CallerInv, CallerState
  <1>1. /\ UNCHANGED <<vars, anet, dnet, h, cur, loop, done>>
        /\ gap' = NewGap(Len(file) + gap, cl.seq)
        /\ file' = SubSeq(file, 1, Lesser(cl.seq, Len(file)))
        /\ rd' = [rd EXCEPT !.next = cl.seq] /\ cl' = [cl EXCEPT !.pc = "start"]
        /\ cl.pc = "resp" /\ ~cl.done
    BY DEF Reconcile
  <1>2. /\ rd'.next = cl.seq /\ rd'.buf = rd.buf /\ rd'.ooo = rd.ooo /\ rd'.end = rd.end
        /\ rd'.open = rd.open /\ cl'.pc = "start"
    BY <1>0, <1>1 DEF ReaderState, CallerState
  <1>3. Position <= cl.seq /\ cl.seq <= Stored /\ ~loop /\ ~done /\ rd.open
    BY <1>1, Before DEF Asked, AskedBy, Course
  <1>4. rd.buf = <<>> /\ rd.next = Position
    <2>1. Corked
      BY <1>1, <1>3, Before DEF DInv, CallerInv, Corked
    <2>2. rd.buf = <<>>
      BY <2>1, Before DEF DInv, CorkRead
    <2>3. Position + Len(rd.buf) = rd.next /\ Position \in Nat /\ Len(rd.buf) = 0
      BY <1>3, <2>2, Before, Numbers
    <2> QED BY <2>2, <2>3
  <1>5. file' = file /\ gap' = gap + (cl.seq - Position) /\ Position' = cl.seq
    <2> DEFINE n == Len(file)
               k == gap
    <2>1. n \in Nat /\ k \in Nat /\ Position = n + k /\ n + k <= cl.seq
          /\ gap' = NewGap(n + k, cl.seq)
      BY <1>0, <1>1, <1>3 DEF Position
    <2>2. SubSeq(file, 1, n) = file
      BY <1>0
    <2> HIDE DEF n, k
    <2>3. n <= cl.seq
      BY <1>0, <2>1
    <2>4. Lesser(cl.seq, n) = n
      BY <1>0, <2>1, <2>3 DEF Lesser
    <2>5. file' = file
      BY <1>1, <2>2, <2>4 DEF n
    <2>6. NewGap(n + k, cl.seq) = k + (cl.seq - (n + k))
      <3>1. CASE cl.seq > n + k
        BY <3>1 DEF NewGap, k
      <3>2. CASE ~(cl.seq > n + k)
        <4>1. cl.seq = n + k /\ ~(cl.seq < n) /\ cl.seq - n = k /\ k + (cl.seq - (n + k)) = k
          BY <1>0, <2>1, <3>2
        <4> QED BY <3>2, <4>1 DEF NewGap, n
      <3> QED BY <3>1, <3>2
    <2>7. gap' = k + (cl.seq - Position)
      BY <2>1, <2>6
    <2>8. Position' = n + gap'
      BY <2>5 DEF Position, n
    <2>9. n + gap' = cl.seq
      BY <1>0, <2>1, <2>7
    <2> QED BY <2>5, <2>7, <2>8, <2>9 DEF k
  <1>6. Ended(rd.next) => cl.seq = rd.next
    <2> DEFINE u == Stored
               v == Stored'
    <2>1. v = u
      BY <1>1 DEF vars, Stored
    <2>2. cl.seq <= u
      BY <1>3
    <2> HIDE DEF u, v
    <2>3. cl.seq <= v
      BY <2>1, <2>2
    <2> QED BY <1>0, <1>3, <1>4, <2>3, EndStays, Numbers DEF v
  <1>7. ReaderGood(rd', Position') /\ ReaderHolds(rd', Position')
    <2> DEFINE at == Position'
               u  == Stored
    <2>1. /\ At(at, <<>>) /\ at + Len(<<>>) = at /\ at = cl.seq
      <3>1. at = cl.seq /\ Len(<<>>) = 0
        BY <1>5
      <3> HIDE DEF at
      <3> QED BY <1>0, <3>1 DEF At
    <2>2. cl.seq <= u
      BY <1>3
    <2> HIDE DEF at, u
    <2>3. /\ \A q \in rd.ooo : Good(q)
          /\ (rd.end = "eof" => Ended(rd.next))
      BY <1>3, Before DEF Reads, ReaderGood
    <2>4. rd.end = "eof" => Ended(cl.seq)
      BY <1>6, <2>3
    <2> QED BY <1>2, <1>4, <2>1, <2>2, <2>3, <2>4 DEF ReaderGood, ReaderHolds, at, u
  <1>8. InFlight' /\ Reads'
    BY <1>1, <1>7, ServerReads
  <1>9. Course'
    BY <1>1, <1>2, <1>3 DEF Course
  <1> DEFINE at == Position'
  <1>10. at = cl.seq
    BY <1>5
  <1>11. Asked'
    <2>1. Position <= Position'
      BY <1>3, <1>10
    <2> QED BY <1>1, <1>2, <2>1, AskedServer
  <1> HIDE DEF at
  <1>12. Position <= at /\ at <= Stored /\ gap' = gap + (at - Position)
    BY <1>3, <1>5, <1>10
  <1>13. Ascends(file, at)
    <2>1. Position \in Nat /\ cl.seq \in Nat
      BY <1>0, Numbers
    <2> QED BY <1>3, <1>10, <2>1, Before DEF Ascends
  <1>14. Ascends(file, Position)'
    BY <1>5, <1>13 DEF Ascends, at
  <1> QED BY <1>1, <1>2, <1>3, <1>4, <1>5, <1>8, <1>9, <1>11, <1>12, <1>14 DEF OInv, at

-----------------------------------------------------------------------------
(* The file is only appended to *)

\* Every step outside the windows keeps the bytes in their place.
LEMMA StepKeepsS ==
    ASSUME ~WriteMayFail, SInv, DNext, Calm
    PROVE  Between /\ SInv'
  <1>1. CInv'
    BY StepKeepsC DEF SInv
  <1>2. BInv' /\ Onward
    <2>1. DInv /\ IInv /\ Place /\ MInv /\ BInv
      BY WholeFacts DEF SInv, CInv
    <2> QED BY <2>1, WholeStep, ManagerKeepsB
  <1>3. Between
    BY <1>1, <1>2 DEF Between
  <1>4. OInv'
    <2>1. CASE \/ ReadLoopRuns \/ SenderLoopRuns \/ \E s \in Stream : DrainRuns(s)
               \/ Sent \/ SendTimesOut \/ AckArrives \/ LinkReturns
      BY <1>3, <2>1, NetworkKeepsO
    <2>2. CASE JobManager
      BY <1>3, <2>2, PreludeKeepsO, ConnectsKeepO, ConnectedKeepsO DEF JobManager
    <2>3. CASE JobController
      BY <1>3, <2>3, RestartKeepsO, ReconcileKeepsO, CloseKeepsO, LinkKeepsO DEF JobController
    <2>4. CASE DataArrives \/ LoopReads \/ LoopEnds
      BY <1>3, <2>4, DataKeepsO, LoopReadsKeepsO, CloseKeepsO
    <2>5. CASE LinkDrops \/ MainServerQuits
      BY <1>3, <2>5, LinkKeepsO
    <2> QED BY <2>1, <2>2, <2>3, <2>4, <2>5 DEF DNext
  <1> QED BY <1>1, <1>2, <1>3, <1>4 DEF SInv

\* A step that changes nothing.
LEMMA StutterKeepsS == ASSUME SInv, UNCHANGED dvars PROVE SInv'
  <1>1. CInv'
    BY StepKeepsC DEF SInv
  <1>2. BInv'
    BY DEF SInv, BInv, LoopHolds, StoreEnds, Holds, FileHolds, EndKnown, Good, At, EndOf, Stored,
           Ended, HeadOf, dvars, vars
  <1>3. OInv
    BY DEF SInv
  <1>4. UNCHANGED <<vars, dnet, anet, h, cur, cl, rd, loop, file, gap, done>>
    BY DEF dvars
  <1>5. /\ Stored' = Stored /\ Position' = Position /\ cc' = cc
        /\ (\A n : Ended(n)' <=> Ended(n)) /\ (\A p : Good(p)' <=> Good(p))
    BY <1>4 DEF vars, Stored, Ended, Position, Good, At, EndOf
  <1>6. InFlight' /\ Course'
    BY <1>3, <1>4, <1>5 DEF OInv, InFlight, Course, Elements
  <1>7. Reads'
    BY <1>3, <1>4, <1>5 DEF OInv, Reads, ReaderHolds, ReaderGood, At
  <1>8. Asked'
    BY <1>3, <1>4, <1>5 DEF OInv, Asked, AskedBy
  <1>9. Ascends(file, Position)'
    BY <1>3, <1>4, <1>5 DEF OInv, Ascends
  <1> QED BY <1>1, <1>2, <1>6, <1>7, <1>8, <1>9 DEF SInv, OInv

\* The first state satisfies it: nothing was written anywhere.
LEMMA InitS == DInit => SInv
  <1> SUFFICES ASSUME DInit PROVE SInv
    OBVIOUS
  <1>1. CInv
    BY InitC
  <1>2. /\ produced = 0 /\ rl.pc = "off" /\ rl.data = <<>> /\ cb.data = <<>> /\ cb.total = 0
        /\ diskFile = 0 /\ term = "none" /\ pkt = NoPacket /\ cc.pc = "idle"
        /\ dnet = <<>> /\ file = <<>> /\ gap = 0 /\ ~done /\ ~loop
        /\ h.seq = 0 /\ cl.pc = "wait" /\ rd = NewReader(1, 0)
    BY DEF DInit, Init, MakeBuf, Idle
  <1>3. Len(<<>>) = 0 /\ (\A n : At(n, <<>>))
    BY DEF At
  <1>4. Stored = 0 /\ HeadOf(cb) = 0 /\ Position = 0
    <2>1. Len(rl.data) = 0 /\ Len(cb.data) = 0 /\ Len(file) = 0
      BY <1>2, <1>3
    <2>2. Stored = 0 - 0
      BY <1>2, <2>1, Zenon DEF Stored
    <2>3. HeadOf(cb) = 0 - 0
      BY <1>2, <2>1, Zenon DEF HeadOf
    <2>4. Position = 0 + 0
      BY <1>2, <2>1, Zenon DEF Position
    <2> QED BY <2>2, <2>3, <2>4
  <1>5. Good(pkt)
    BY <1>2, <1>3, <1>4 DEF Good, NoPacket, EndOf
  <1>6. BInv
    BY <1>2, <1>3, <1>4, <1>5, CirBufSizeAssumption
       DEF BInv, LoopHolds, StoreEnds, Holds, FileHolds, EndKnown
  <1>7. Elements(dnet) = {}
    BY <1>2 DEF Elements
  <1>8. rd.next = 0 /\ rd.buf = <<>> /\ rd.ooo = {} /\ rd.end = "none" /\ rd.open
    BY <1>2 DEF NewReader
  <1>9. Reads
    BY <1>3, <1>4, <1>8 DEF Reads, ReaderHolds, ReaderGood
  <1>10. InFlight /\ Course
    BY <1>2, <1>7, <1>8 DEF InFlight, Course
  <1>11. Asked
    BY <1>2, <1>4, <1>8 DEF Asked, AskedBy
  <1>12. Ascends(file, Position)
    BY <1>2 DEF Ascends
  <1> QED BY <1>1, <1>6, <1>9, <1>10, <1>11, <1>12 DEF SInv, OInv

\* Outside the windows a step that writes to the file appends to it.
LEMMA StepAppends ==
    ASSUME Between, DNext
    PROVE  file' = file \/ \E n \in Nat : Appends(n)
  <1>1. CASE LoopReads
    BY <1>1, LoopReadsKeepsO
  <1>2. CASE Restart
    <2>1. Appends(Len(rd.buf)) /\ Len(rd.buf) \in Nat
      BY <1>2, RestartKeepsO, Before, ReaderFields
    <2> QED BY <2>1
  <1>3. CASE Reconcile
    BY <1>3, ReconcileKeepsO
  <1>4. CASE \/ ReadLoopRuns \/ SenderLoopRuns \/ \E s \in Stream : DrainRuns(s)
             \/ Sent \/ SendTimesOut \/ AckArrives \/ LinkReturns \/ LinkDrops \/ MainServerQuits
             \/ DataArrives \/ LoopEnds \/ AlreadyDone \/ CallFails \/ LoopStarts
    BY <1>4 DEF ReadLoopRuns, SenderLoopRuns, DrainRuns, Sent, SendTimesOut, AckArrives, LinkReturns,
       LinkDrops, MainServerQuits, DataArrives, LoopEnds, AlreadyDone, CallFails, CloseReader,
       LoopStarts
  <1>5. CASE JobManager
    BY <1>5 DEF JobManager, PrepareConnect, HandlerDisconnects, HandlerActivates, HandlerConnects,
       HandlerRefused, HandlerConsumes, HandlerConnected, JobStarted, StartStream
  <1> QED BY <1>1, <1>2, <1>3, <1>4, <1>5 DEF DNext, JobController

\* What a write to the file does to it.
LEMMA AppendGrows ==
    ASSUME NEW n \in Nat, Appends(n), file \in Seq(Byte)
    PROVE  Len(file) <= Len(file') /\ SubSeq(file', 1, Len(file)) = file
  <1> DEFINE f == file
             s == SubSeq(rd.buf, 1, n)
  <1>1. f \in Seq(Byte) /\ s \in Seq(Byte) /\ file' = f \o s
    BY DEF Appends
  <1> HIDE DEF f, s
  <1>2. Len(f) <= Len(f \o s) /\ SubSeq(f \o s, 1, Len(f)) = f
    BY <1>1
  <1> QED BY <1>1, <1>2 DEF f

\* Every packet on its way carries the bytes its position names: whatever else
\* fails, the windows and a disk write that fails are the only ways for a byte to
\* lose its place.
THEOREM PlacesKept ==
    ASSUME ~WriteMayFail
    PROVE  CalmSpec => []PacketsInPlace
  <1>1. DInit => SInv
    BY InitS
  <1>2. SInv /\ [DNext /\ Calm]_dvars => SInv'
    BY StepKeepsS, StutterKeepsS
  <1>3. SInv => PacketsInPlace
    BY DEF SInv, OInv, InFlight, Elements, Good, At, PacketsInPlace
  <1> QED BY <1>1, <1>2, <1>3, PTL DEF CalmSpec

\* And the terminal file is only ever appended to, in the order of the output and
\* without repeats: the job controller is never ahead of the job manager, so that
\* a restart has nothing to cut from the file.
THEOREM FileOnlyGrows ==
    ASSUME ~WriteMayFail
    PROVE  CalmSpec => OnlyAppends
  <1>1. DInit => SInv
    BY InitS
  <1>2. SInv /\ [DNext /\ Calm]_dvars => SInv'
    BY StepKeepsS, StutterKeepsS
  <1>3. SInv /\ SInv' /\ [DNext /\ Calm]_dvars =>
           [/\ Len(file) <= Len(file') /\ SubSeq(file', 1, Len(file)) = file
            /\ \A i, j \in DOMAIN file' : i < j => file'[i] < file'[j]]_dvars
    <2>1. ASSUME SInv, SInv', DNext, Calm
          PROVE  /\ Len(file) <= Len(file') /\ SubSeq(file', 1, Len(file)) = file
                 /\ \A i, j \in DOMAIN file' : i < j => file'[i] < file'[j]
      <3>1. Between
        BY <2>1, StepKeepsS
      <3>2. file \in Seq(Byte)
        BY <3>1, Before DEF DInv, ProgressInv
      <3>3. Len(file) <= Len(file) /\ SubSeq(file, 1, Len(file)) = file
        BY <3>2
      <3>4. Len(file) <= Len(file') /\ SubSeq(file', 1, Len(file)) = file
        BY <2>1, <3>1, <3>2, <3>3, StepAppends, AppendGrows
      <3>5. \A i, j \in DOMAIN file' : i < j => file'[i] < file'[j]
        BY <2>1 DEF SInv, OInv, Ascends
      <3> QED BY <3>4, <3>5
    <2> QED BY <2>1
  <1> QED BY <1>1, <1>2, <1>3, PTL DEF CalmSpec, OnlyAppends

-----------------------------------------------------------------------------
(* What is appended is what the program wrote, and all of it *)

\* The pty ends with EOF, no write to the disk file fails, and the application
\* does not quit: in every other case bytes are lost that nobody accounts for.
Faithful == Terminal \subseteq {"eof"} /\ ~WriteMayFail /\ "quit" \notin Fault

\* No reader loses what it held, and none ends with an error.
Exact == Position + Len(rd.buf) = rd.next /\ rd.end # "err"

\* No acknowledgement is past the reader, and the last one says the output ended
\* where the reader is.
AcksHold == \A a \in Elements(anet) : a.seq <= rd.next /\ (a.fin => Ended(rd.next))

\* Nobody takes the stream for complete before the reader has all of it.
Told == termAcked \/ done => Ended(rd.next)

\* Nor is a restart told so; and while a disk file can always be opened, it is
\* told the position it asked for.
Answers ==
    cl.pc = "resp" => IF cl.done THEN Ended(rd.next)
                      ELSE FALSE \notin CreateOk => cl.seq = Position

\* While a disk file can always be opened, no byte is dropped that the reader
\* does not have.
Kept == FALSE \notin CreateOk => HeadOf(cb) <= rd.next

PInv == Exact /\ AcksHold /\ Told /\ Answers /\ Kept

RInv == SInv /\ PInv /\ ~Overfull

\* What is known of a step before its effect on PInv is.
During == Between /\ OInv' /\ PInv /\ ~Overfull

\* The parts of it.
LEMMA Parts ==
    ASSUME During
    PROVE  /\ Between /\ Exact /\ AcksHold /\ Told /\ Answers /\ Kept /\ OInv'
           /\ rd.next \in Nat /\ (rd.next)' \in Nat /\ (rd.next)' \in Int
  BY Numbers DEF During, PInv

\* The end stays the end, for a reader that is exact.
LEMMA EndLater ==
    ASSUME During, Exact', rd.next <= (rd.next)', Ended(rd.next)
    PROVE  (rd.next)' = rd.next /\ Ended(rd.next)'
  <1> DEFINE at == Position'
             v  == Stored'
  <1>1. PICK m : m = (rd.next)'
    OBVIOUS
  <1>2. m \in Int /\ rd.next \in Int /\ rd.next <= m
    BY <1>1, Parts
  <1>3. m <= v
    BY <1>1, Parts DEF OInv, Reads, ReaderHolds, Exact
  <1>4. m = rd.next /\ Ended(m)'
    BY <1>2, <1>3, Parts, EndStays
  <1>5. Ended(rd.next)'
    BY <1>1, <1>4 DEF Ended
  <1> QED BY <1>1, <1>4, <1>5

\* What is acknowledged and told stays true while the reader goes on.
LEMMA TellsKept ==
    ASSUME During, Exact', rd.next <= (rd.next)',
           \A a \in Elements(anet') :
               a \in Elements(anet) \/ (a.seq <= rd'.next /\ (a.fin => Ended(rd.next)')),
           termAcked' => termAcked \/ \E a \in Elements(anet) : a.fin,
           done' => done \/ Ended(rd.next)'
    PROVE  AcksHold' /\ Told'
  <1>1. Ended(rd.next) => Ended(rd.next)'
    BY EndLater
  <1>2. ASSUME NEW a \in Elements(anet') PROVE a.seq <= rd'.next /\ (a.fin => Ended(rd.next)')
    <2>1. CASE a \in Elements(anet)
      <3>1. a.seq <= rd.next /\ (a.fin => Ended(rd.next)) /\ a.seq \in Nat
        BY <2>1, Parts, Before DEF AcksHold, AckState
      <3>2. a.seq <= rd'.next
        BY <3>1, Parts
      <3> QED BY <1>1, <3>1, <3>2
    <2> QED BY <1>2, <2>1
  <1>3. AcksHold'
    BY <1>2 DEF AcksHold
  <1>4. Told'
    BY <1>1, Parts DEF Told, AcksHold
  <1> QED BY <1>3, <1>4

\* What a restart is told stays true while the file's place does.
LEMMA AnswersKept ==
    ASSUME During, Ended(rd.next) => Ended(rd.next)',
           cl'.pc = "resp" => cl' = cl /\ Position' = Position
    PROVE  Answers'
  <1>1. CASE cl'.pc = "resp"
    <2> DEFINE at == Position'
    <2>1. cl' = cl /\ at = Position /\ cl.pc = "resp"
      BY <1>1
    <2>2. IF cl.done THEN Ended(rd.next) ELSE FALSE \notin CreateOk => cl.seq = Position
      BY <2>1, Parts DEF Answers
    <2> HIDE DEF at
    <2>3. IF cl'.done THEN Ended(rd.next)' ELSE FALSE \notin CreateOk => cl'.seq = at
      BY <2>1, <2>2
    <2> QED BY <2>3 DEF Answers, at
  <1> QED BY <1>1 DEF Answers

\* The buffer's head stays behind the reader when it does not move.
LEMMA KeptFrame ==
    ASSUME During, HeadStays, rd.next <= (rd.next)'
    PROVE  Kept'
  <1> DEFINE a == HeadOf(cb)
             b == HeadOf(cb)'
             m == (rd.next)'
  <1>1. a \in Int /\ b \in Int /\ m \in Nat /\ rd.next \in Nat /\ rd.next <= m
    BY Numbers, Parts
  <1>2. FALSE \notin CreateOk => b = a /\ a <= rd.next
    BY Parts DEF Kept, HeadStays
  <1> HIDE DEF a, b, m
  <1>3. a <= rd.next /\ b = a => b <= m
    BY <1>1
  <1>4. FALSE \notin CreateOk => b <= m
    BY <1>2, <1>3, Zenon
  <1> QED BY <1>4 DEF Kept, b, m

\* A step that leaves the reader and the file alone.
LEMMA ReaderQuiet ==
    ASSUME During, UNCHANGED <<rd, file, gap, done>>, Elements(anet') \subseteq Elements(anet),
           termAcked' => termAcked \/ \E a \in Elements(anet) : a.fin
    PROVE  /\ Exact' /\ AcksHold' /\ Told' /\ (Ended(rd.next) => Ended(rd.next)')
           /\ Position' = Position /\ (rd.next)' = rd.next /\ rd.next <= (rd.next)'
           /\ (cl'.pc = "resp" => cl' = cl) => Answers'
           /\ HeadStays => Kept'
  <1>1. (rd.next)' = rd.next /\ rd.next <= (rd.next)' /\ Position' = Position
    <2>1. (rd.next)' = rd.next /\ Position' = Position
      BY DEF Position
    <2>2. rd.next <= rd.next
      BY Parts
    <2> QED BY <2>1, <2>2
  <1>2. Exact'
    BY <1>1, Parts DEF Exact
  <1>3. Ended(rd.next) => Ended(rd.next)'
    BY <1>1, <1>2, EndLater
  <1>4. AcksHold' /\ Told'
    BY <1>1, <1>2, TellsKept
  <1>5. (cl'.pc = "resp" => cl' = cl) => Answers'
    BY <1>1, <1>3, AnswersKept
  <1> QED BY <1>1, <1>2, <1>3, <1>4, <1>5, KeptFrame

\* The loops of the job manager.
LEMMA LoopsKeepP ==
    ASSUME Faithful, During, ReadLoopRuns \/ SenderLoopRuns \/ \E s \in Stream : DrainRuns(s)
    PROVE  PInv'
  <1>1. UNCHANGED <<netVars, h, clientVars>>
    BY DEF ReadLoopRuns, SenderLoopRuns, DrainRuns
  <1>2. termAcked' = termAcked /\ HeadStays
    <2>0. IInv /\ Place /\ MInv /\ BInv
      BY Parts, Before
    <2>1. ASSUME ReadLoop PROVE termAcked' = termAcked /\ HeadStays
      <3>1. HeadStays
        BY <2>0, <2>1, ReadLoopKeepsB DEF During, Faithful
      <3> QED BY <2>1, <3>1 DEF ReadLoop, ReadData, StoreOnDisk, DiskWriteFails, DiskFileChanged,
                 StoreInBuffer, ReadEnds
    <2>2. ASSUME SenderLoop PROVE termAcked' = termAcked /\ HeadStays
      <3>1. HeadStays
        BY <2>0, <2>2, SenderKeepsB DEF HeadStays
      <3> QED BY <2>2, <3>1 DEF SenderLoop, SenderStops, SenderWaits, PrepareBytes,
                 PrepareTerminal, FailureDisconnects, FailureActivates, Disconnect, Activate
    <2>3. ASSUME NEW s \in Stream, Drain(s) PROVE termAcked' = termAcked /\ HeadStays
      <3>1. HeadStays
        BY <2>0, <2>3, DrainKeepsB DEF HeadStays
      <3> QED BY <2>3, <3>1 DEF Drain, DrainGivesUp, DrainReads, DrainChecks, DrainWrites,
                 DrainUpdates, DrainCatchesUp, DrainRepeats, DrainEnds, Deactivated
    <2> QED BY <2>1, <2>2, <2>3, Zenon DEF ReadLoopRuns, SenderLoopRuns, DrainRuns
  <1>3. /\ UNCHANGED <<rd, file, gap, done, cl>> /\ Elements(anet') \subseteq Elements(anet)
        /\ termAcked' = termAcked
    BY <1>1, <1>2
  <1> QED BY <1>2, <1>3, ReaderQuiet DEF PInv

\* The network, and the calls that neither answer a restart nor move the buffer's
\* head.
LEMMA StillKeepsP ==
    ASSUME During,
           \/ Sent \/ SendTimesOut \/ LinkReturns \/ LinkDrops \/ LoopStarts
           \/ HandlerDisconnects \/ HandlerActivates \/ HandlerRefused \/ HandlerConnects
           \/ JobStarted \/ StartStream
    PROVE  PInv'
  <1>0. /\ IInv /\ Place /\ MInv /\ BInv /\ cl \in CallerState /\ Rwnd \in Nat
    BY Parts, Before, WholeFacts DEF DInv, CallerInv
  <1>1. UNCHANGED <<rd, file, gap, done, termAcked>> /\ anet' \in {anet, <<>>}
    BY DEF Sent, SendTimesOut, SendReturns, SendFails, LinkReturns, LinkDrops, LinkLost, LoopStarts,
           HandlerDisconnects, HandlerActivates, HandlerRefused, HandlerConnects, JobStarted,
           StartStream, ClientDisconnected, ActivateDiskBuffering, Disconnect, Activate,
           ConnectBegins, AttachReader, SetRwndSize, vars
  <1>2. Elements(anet') \subseteq Elements(anet)
    <2>1. Elements(<<>>) = {}
      BY DEF Elements
    <2> QED BY <1>1, <2>1
  <1>3. cl'.pc = "resp" => cl' = cl
    BY <1>0 DEF Sent, SendTimesOut, LinkReturns, LinkDrops, LoopStarts, HandlerDisconnects,
       HandlerActivates, HandlerRefused, HandlerConnects, JobStarted, StartStream, Replied,
       CallerState
  <1>4. HeadStays
    <2>1. CASE HandlerDisconnects
      BY <1>0, <2>1, DisconnectKeepsB DEF HandlerDisconnects, ClientDisconnected, Disconnect, HeadStays
    <2>2. CASE HandlerActivates
      BY <1>0, <2>2, ActivateKeepsB DEF HandlerActivates, ActivateDiskBuffering, HeadStays
    <2>3. CASE JobStarted
      <3>1. cb' = cb
        BY <1>0, <2>3, AttachKeepsB DEF JobStarted
      <3> QED BY <3>1 DEF HeadStays
    <2>4. CASE StartStream
      <3>1. SetRwndSize(Rwnd) => HeadOf(cb') = HeadOf(cb)
        BY <1>0, RwndKeepsB
      <3> QED BY <2>4, <3>1 DEF StartStream, HeadStays, vars
    <2>5. CASE \/ Sent \/ SendTimesOut \/ LinkReturns \/ LinkDrops \/ LoopStarts
               \/ HandlerRefused \/ HandlerConnects
      <3>1. cb' = cb
        BY <2>5 DEF Sent, SendTimesOut, SendReturns, SendFails, LinkReturns, LinkDrops, LinkLost,
           LoopStarts, HandlerRefused, HandlerConnects, ConnectBegins, vars
      <3> QED BY <3>1 DEF HeadStays
    <2> QED BY <2>1, <2>2, <2>3, <2>4, <2>5
  <1> QED BY <1>1, <1>2, <1>3, <1>4, ReaderQuiet DEF PInv

\* A job whose end was acknowledged says so, and it was the reader that
\* acknowledged it.
LEMMA PrepareKeepsP ==
    ASSUME During, PrepareConnect
    PROVE  PInv'
  <1>1. UNCHANGED <<rd, file, gap, done, termAcked, anet, cb>>
    BY DEF PrepareConnect, vars
  <1>2. /\ Exact' /\ AcksHold' /\ Told' /\ (Ended(rd.next) => Ended(rd.next)') /\ Kept'
    BY <1>1, ReaderQuiet DEF HeadStays
  <1>3. Answers'
    <2>1. cl.pc = "ask" /\ cl \in CallerState
      BY Parts, Before DEF PrepareConnect, DInv, CallerInv
    <2>2. CASE termAcked
      <3>1. cl'.done /\ Ended(rd.next)'
        BY <1>2, <2>2, Parts DEF PrepareConnect, Told
      <3> QED BY <3>1 DEF Answers
    <2>3. CASE ~termAcked
      <3>1. cl'.pc = "wait"
        BY <2>1, <2>3 DEF PrepareConnect, CallerState
      <3> QED BY <3>1 DEF Answers
    <2> QED BY <2>2, <2>3
  <1> QED BY <1>2, <1>3 DEF PInv

\* An acknowledgement drops no byte that the reader does not have, and the last
\* one is sent when it has all.
LEMMA AckKeepsP ==
    ASSUME During, AckArrives
    PROVE  PInv'
  <1> DEFINE a == Head(anet)
  <1>1. /\ a \in AckState /\ a \in Elements(anet) /\ anet' = Tail(anet)
        /\ Elements(anet') \subseteq Elements(anet)
    BY Parts, Before, TailElements DEF AckArrives, DInv, AckInv
  <1>2. UNCHANGED <<h, clientVars>> /\ (RecvAck(a) \/ UNCHANGED vars)
    BY DEF AckArrives
  <1> HIDE DEF a
  <1>3. a.seq \in Nat /\ a.rwnd \in Nat /\ a.seq <= rd.next
    <2>1. a.seq \in Nat /\ a.rwnd \in 0..Rwnd
      BY <1>1 DEF AckState
    <2>2. a.rwnd \in Nat
      BY <2>1, RwndAssumption, SizesAssumption
    <2> QED BY <1>1, <2>1, <2>2, Parts DEF AcksHold
  <1>4. (cb' = cb \/ HeadOf(cb') = a.seq) /\ (termAcked' => termAcked \/ a.fin)
    <2>1. CASE RecvAck(a)
      <3>1. cb' = cb \/ HeadOf(cb') = a.seq
        BY <2>1, <1>3, AckMoves, Parts, Before
      <3>2. termAcked' => termAcked \/ a.fin
        BY <2>1 DEF RecvAck, RecvFin, RecvFresh, RecvIgnored
      <3> QED BY <3>1, <3>2
    <2>2. CASE UNCHANGED vars
      BY <2>2 DEF vars
    <2> QED BY <1>2, <2>1, <2>2
  <1>5. /\ Exact' /\ AcksHold' /\ Told' /\ Answers'
    BY <1>1, <1>2, <1>4, ReaderQuiet
  <1>6. Kept'
    BY <1>2, <1>3, <1>4, Parts DEF Kept
  <1> QED BY <1>5, <1>6 DEF PInv

\* What ClientConnected drops is what its client has.
LEMMA ConsumesKeepsP ==
    ASSUME During, HandlerConsumes
    PROVE  PInv'
  <1>1. /\ ConnectConsumes /\ UNCHANGED <<netVars, h, clientVars, termAcked>>
        /\ cc.pc # "idle"
    BY DEF HandlerConsumes, ConnectConsumes
  <1>2. cc.seq <= rd.next
    <2>1. h.pc = "connecting" /\ cc.seq = h.seq
      BY <1>1, Parts, Before DEF DInv, CallInv, Asked, AskedBy
    <2>2. cc.seq <= Position /\ cc.seq \in Nat
      BY <2>1, Parts, Before DEF Asked, AskedBy, Place
    <2> DEFINE l == Len(rd.buf)
    <2>3. Position + l = rd.next /\ l \in Nat /\ Position \in Nat
      BY Parts, Before, WholeFacts DEF Exact
    <2> HIDE DEF l
    <2> QED BY <2>2, <2>3
  <1>3. HeadOf(cb') = cc.seq
    BY <1>1, Parts, Before, ConsumePlace DEF MInv, CallHead
  <1>4. /\ Exact' /\ AcksHold' /\ Told' /\ Answers'
    BY <1>1, ReaderQuiet
  <1>5. Kept'
    BY <1>1, <1>2, <1>3 DEF Kept
  <1> QED BY <1>4, <1>5 DEF PInv

\* A restart is told the position it asked for, unless the buffer's head is past
\* it.
LEMMA ConnectedKeepsP ==
    ASSUME During, HandlerConnected
    PROVE  PInv'
  <1>1. /\ ConnectEnds /\ UNCHANGED <<netVars, cur, rd, loop, file, gap, done, termAcked>>
        /\ \/ cl' = cl
           \/ /\ cl'.pc = "resp" /\ ~cl'.done
              /\ cl'.seq = Greater(HeadOf(cb), Position) /\ rd.next = Position
    BY Parts, ConnectedReply
  <1>2. HeadStays
    BY <1>1, Parts, Before, EndsKeepsB DEF HeadStays
  <1>3. /\ Exact' /\ AcksHold' /\ Told' /\ Kept' /\ Position' = Position
        /\ (cl' = cl => Answers')
    BY <1>1, <1>2, ReaderQuiet
  <1>4. CASE cl'.pc = "resp" /\ ~cl'.done /\ cl'.seq = Greater(HeadOf(cb), Position)
             /\ rd.next = Position
    <2> DEFINE b  == HeadOf(cb)
               at == Position
    <2>1. b \in Int /\ at \in Nat /\ cl'.seq = Greater(b, at)
      BY <1>4, Parts, Numbers
    <2>2. FALSE \notin CreateOk => b <= at
      BY <1>4, Parts DEF Kept
    <2> HIDE DEF b, at
    <2>3. b <= at => cl'.seq = at
      BY <2>1 DEF Greater
    <2>4. FALSE \notin CreateOk => cl'.seq = at
      BY <2>2, <2>3, Zenon
    <2>5. FALSE \notin CreateOk => cl'.seq = Position'
      BY <1>3, <2>4 DEF at
    <2> QED BY <1>3, <1>4, <2>5 DEF PInv, Answers
  <1> QED BY <1>1, <1>3, <1>4 DEF PInv

\* A packet that arrives.
LEMMA DataKeepsP ==
    ASSUME Faithful, During, DataArrives
    PROVE  PInv'
  <1>0. UNCHANGED <<vars, cl, file, gap, done>> /\ Position' = Position
    BY DEF DataArrives, Position
  <1>1. /\ rd.next <= (rd.next)' /\ rd'.open = rd.open /\ (~rd.open => UNCHANGED <<rd, anet>>)
        /\ \A a \in Elements(anet') :
              a \in Elements(anet) \/ (a.seq <= rd'.next /\ (a.fin => rd'.end # "none"))
        /\ rd'.end # "err"
    BY Parts, DataKeepsO DEF Faithful, Exact
  <1>2. CASE ~rd.open
    BY <1>0, <1>1, <1>2, ReaderQuiet DEF PInv, HeadStays, vars
  <1>3. CASE rd.open
    <2>1. /\ Exact'
          /\ rd'.end = "eof" => Ended(rd.next)'
      BY <1>1, <1>3, Parts DEF OInv, Reads, ReaderGood, Exact
    <2>2. rd'.end \in {"none", "eof", "err"}
      <3>1. rd' \in ReaderState
        BY Parts DEF Between, CInv, DInv, ReaderInv
      <3> QED BY <3>1 DEF ReaderState
    <2>3. \A a \in Elements(anet') :
              a \in Elements(anet) \/ (a.seq <= rd'.next /\ (a.fin => Ended(rd.next)'))
      BY <1>1, <2>1, <2>2
    <2>4. termAcked' = termAcked
      BY <1>0 DEF vars
    <2>5. AcksHold' /\ Told'
      BY <1>0, <1>1, <2>1, <2>3, <2>4, TellsKept
    <2>6. Answers' /\ Kept'
      <3>1. Ended(rd.next) => Ended(rd.next)'
        BY <1>1, <2>1, EndLater
      <3>2. HeadStays
        BY <1>0 DEF HeadStays, vars
      <3> QED BY <1>0, <1>1, <3>1, <3>2, AnswersKept, KeptFrame
    <2> QED BY <2>1, <2>5, <2>6 DEF PInv
  <1> QED BY <1>2, <1>3

\* A step of the job controller that leaves the reader where it is.
LEMMA ControllerKeepsP ==
    ASSUME During, Exact', (rd.next)' = rd.next, UNCHANGED vars, cl'.pc # "resp",
           \A a \in Elements(anet') : a \in Elements(anet) \/ (a.seq = rd.next /\ ~a.fin),
           done' => done \/ Ended(rd.next)
    PROVE  PInv'
  <1>1. rd.next <= (rd.next)' /\ rd.next <= rd.next
    <2>1. rd.next <= rd.next
      BY Parts
    <2> QED BY <2>1
  <1>2. Ended(rd.next) => Ended(rd.next)'
    BY <1>1, EndLater
  <1>3. termAcked' = termAcked /\ HeadStays
    BY DEF vars, HeadStays
  <1>4. \A a \in Elements(anet') :
            a \in Elements(anet) \/ (a.seq <= rd'.next /\ (a.fin => Ended(rd.next)'))
    BY <1>1
  <1>5. AcksHold' /\ Told'
    BY <1>1, <1>2, <1>3, <1>4, TellsKept
  <1>6. Kept'
    BY <1>1, <1>3, KeptFrame
  <1>7. Answers'
    BY DEF Answers
  <1> QED BY <1>5, <1>6, <1>7 DEF PInv

\* A Read of the output loop moves bytes from the reader to the file.
LEMMA LoopReadsKeepsP ==
    ASSUME During, LoopReads
    PROVE  PInv'
  <1>1. /\ UNCHANGED <<vars, cl, done>> /\ rd'.next = rd.next /\ rd'.end = rd.end /\ loop
        /\ \A a \in Elements(anet') : a \in Elements(anet) \/ (a.seq = rd.next /\ ~a.fin)
    BY Parts, LoopReadsKeepsO DEF LoopReads
  <1>2. rd.buf \in Seq(Byte) /\ Len(rd.buf) \in Nat
    BY Parts, Before, ReaderFields
  <1>3. PICK n \in Nat : n <= Len(rd.buf) /\ rd'.buf = DropFirst(rd.buf, n) /\ Appends(n)
    <2>1. PICK n \in Nat : /\ n <= Len(rd.buf) /\ file' = file \o SubSeq(rd.buf, 1, n)
                           /\ rd'.buf = DropFirst(rd.buf, n)
      BY Parts, Before, ReadMoves
    <2>2. gap' = gap
      BY DEF LoopReads
    <2> QED BY <1>2, <2>1, <2>2 DEF Appends
  <1>4. Position' = Position + n
    BY <1>3, Parts, AppendsNext
  <1>5. Len(rd'.buf) = Len(rd.buf) - n
    BY <1>2, <1>3, DropType
  <1>6. Exact'
    <2> DEFINE l == Len(rd.buf)
               k == Len(rd'.buf)
               at == Position'
    <2>1. /\ Position + l = rd.next /\ at = Position + n /\ k = l - n /\ l \in Nat
          /\ Position \in Nat /\ rd.end # "err"
      BY <1>2, <1>4, <1>5, Parts, Numbers DEF Exact
    <2> HIDE DEF l, k, at
    <2>2. at + k = rd.next
      BY <2>1
    <2> QED BY <1>1, <2>1, <2>2 DEF Exact, at, k
  <1>7. cl'.pc # "resp"
    BY <1>1, Parts, Before DEF Course
  <1> QED BY <1>1, <1>6, <1>7, ControllerKeepsP

\* The stream is done when the reader has all of it.
LEMMA CloseEnds ==
    ASSUME During, LoopEnds \/ AlreadyDone \/ CallFails, done'
    PROVE  Ended(rd.next) /\ Position = rd.next
  <1>0. ~done /\ rd.buf \in Seq(Byte) /\ Position \in Nat
    BY Parts, CloseKeepsO, Before, ReaderFields, Numbers
  <1>1. CASE LoopEnds
    <2>1. rd.open /\ rd.end = "eof" /\ rd.buf = <<>>
      BY <1>1, Parts DEF LoopEnds, Exact
    <2>2. Ended(rd.next) /\ Position + Len(rd.buf) = rd.next /\ Len(rd.buf) = 0
      BY <2>1, Parts, Before DEF Reads, ReaderGood
    <2> QED BY <1>0, <2>2
  <1>2. CASE AlreadyDone
    <2>1. cl.pc = "resp" /\ cl.done
      BY <1>2 DEF AlreadyDone
    <2>2. Ended(rd.next)
      BY <2>1, Parts DEF Answers
    <2>3. rd.open /\ ~loop /\ ~done
      BY <2>1, Parts, Before DEF Course
    <2>4. Corked
      BY <2>1, <2>3, Parts, Before DEF DInv, CallerInv, Corked
    <2>5. rd.buf = <<>>
      BY <2>4, Parts, Before DEF DInv, CorkRead
    <2>6. Position + Len(rd.buf) = rd.next /\ Len(rd.buf) = 0
      BY <2>5, Parts DEF Exact
    <2> QED BY <1>0, <2>2, <2>6
  <1>3. CASE CallFails
    BY <1>0, <1>3 DEF CallFails
  <1> QED BY <1>1, <1>2, <1>3

\* A reader that closes keeps what it held.
LEMMA CloseKeepsP ==
    ASSUME During, LoopEnds \/ AlreadyDone \/ CallFails
    PROVE  PInv'
  <1>1. /\ UNCHANGED <<vars, file, gap>> /\ rd'.next = rd.next /\ rd'.buf = rd.buf
        /\ rd'.end = rd.end /\ cl'.pc = "run" /\ Acked(AckOf(rd, FALSE, TRUE))
    BY Parts, CloseKeepsO
  <1>2. \A a \in Elements(anet') : a \in Elements(anet) \/ (a.seq = rd.next /\ ~a.fin)
    BY <1>1, Parts, CloseSays
  <1>3. Exact'
    <2> DEFINE at == Position'
    <2>1. at = Position
      BY <1>1 DEF Position
    <2> HIDE DEF at
    <2> QED BY <1>1, <2>1, Parts DEF Exact, at
  <1> QED BY <1>1, <1>2, <1>3, CloseEnds, ControllerKeepsP

\* A restart goes on where the old reader was.
LEMMA RestartKeepsP ==
    ASSUME During, Restart
    PROVE  PInv'
  <1>1. /\ UNCHANGED <<vars, done>> /\ rd'.next = Position' /\ rd'.buf = <<>> /\ rd'.end = "none"
        /\ Position' = Position + Len(rd.buf) /\ cl'.pc = "ask"
        /\ \A a \in Elements(anet') : a \in Elements(anet) \/ (a.seq = rd.next /\ ~a.fin)
    BY Parts, RestartKeepsO
  <1>2. (rd.next)' = rd.next
    BY <1>1, Parts DEF Exact
  <1>3. Exact'
    <2> DEFINE at == Position'
    <2>1. at = rd'.next /\ at \in Nat /\ Len(<<>>) = 0
      BY <1>1, Parts, Numbers
    <2> HIDE DEF at
    <2>2. at + Len(rd'.buf) = rd'.next /\ rd'.end # "err"
      BY <1>1, <2>1
    <2> QED BY <2>2 DEF Exact, at
  <1> QED BY <1>1, <1>2, <1>3, ControllerKeepsP

\* The reply to a restart moves the reader to the position it tells.
LEMMA ReconcileKeepsP ==
    ASSUME During, Reconcile
    PROVE  PInv'
  <1>1. /\ UNCHANGED <<vars, anet, done>> /\ Position <= Position' /\ rd.next = Position
        /\ rd'.next = Position' /\ rd'.buf = <<>> /\ rd'.end = rd.end /\ cl'.pc = "start"
    BY Parts, ReconcileKeepsO
  <1>2. rd.next <= (rd.next)'
    BY <1>1
  <1>3. Exact'
    <2> DEFINE at == Position'
    <2>1. at = rd'.next /\ at \in Nat /\ Len(<<>>) = 0
      BY <1>1, Parts, Numbers
    <2> HIDE DEF at
    <2>2. at + Len(rd'.buf) = rd'.next /\ rd'.end # "err"
      BY <1>1, <2>1, Parts DEF Exact
    <2> QED BY <2>2 DEF Exact, at
  <1>4. termAcked' = termAcked /\ HeadStays
    BY <1>1 DEF vars, HeadStays
  <1>5. AcksHold' /\ Told'
    BY <1>1, <1>2, <1>3, <1>4, TellsKept
  <1>6. Kept'
    BY <1>2, <1>4, KeptFrame
  <1>7. Answers'
    BY <1>1 DEF Answers
  <1> QED BY <1>3, <1>5, <1>6, <1>7 DEF PInv

-----------------------------------------------------------------------------
(* The whole *)

\* Every step outside the windows keeps every byte in its place.
LEMMA StepKeepsR ==
    ASSUME Faithful, RInv, DNext, Calm
    PROVE  During /\ RInv'
  <1>1. Between /\ SInv'
    BY StepKeepsS DEF RInv, Faithful
  <1>2. During
    BY <1>1 DEF During, SInv, RInv
  <1>3. ~MainServerQuits
    BY DEF Faithful, MainServerQuits
  <1>4. PInv'
    <2>1. CASE ReadLoopRuns \/ SenderLoopRuns \/ \E s \in Stream : DrainRuns(s)
      BY <1>2, <2>1, LoopsKeepP
    <2>2. CASE Sent \/ SendTimesOut \/ LinkReturns \/ LinkDrops
      BY <1>2, <2>2, StillKeepsP
    <2>3. CASE JobManager
      BY <1>2, <2>3, StillKeepsP, PrepareKeepsP, ConsumesKeepsP, ConnectedKeepsP DEF JobManager
    <2>4. CASE JobController
      BY <1>2, <2>4, RestartKeepsP, ReconcileKeepsP, CloseKeepsP, StillKeepsP DEF JobController
    <2>5. CASE DataArrives \/ AckArrives
      BY <1>2, <2>5, DataKeepsP, AckKeepsP
    <2>6. CASE LoopReads \/ LoopEnds
      BY <1>2, <2>6, LoopReadsKeepsP, CloseKeepsP
    <2> QED BY <1>3, <2>1, <2>2, <2>3, <2>4, <2>5, <2>6 DEF DNext
  <1> QED BY <1>1, <1>2, <1>4 DEF RInv, Calm

\* A step that changes nothing.
LEMMA StutterKeepsR == ASSUME RInv, UNCHANGED dvars PROVE RInv'
  <1>1. SInv'
    BY StutterKeepsS DEF RInv
  <1>2. UNCHANGED <<vars, anet, cl, rd, file, gap, done>>
    BY DEF dvars
  <1>3. /\ Position' = Position /\ HeadOf(cb') = HeadOf(cb) /\ termAcked' = termAcked
        /\ (\A n : Ended(n)' <=> Ended(n))
    BY <1>2 DEF vars, Ended, Position, HeadOf
  <1>4. PInv'
    BY <1>2, <1>3 DEF RInv, PInv, Exact, AcksHold, Told, Answers, Kept, Elements
  <1>5. ~Overfull'
    BY DEF RInv, Overfull, Dropped, dvars, vars
  <1> QED BY <1>1, <1>4, <1>5 DEF RInv

\* The first state satisfies it.
LEMMA InitR == DInit => RInv
  <1> SUFFICES ASSUME DInit PROVE RInv
    OBVIOUS
  <1>1. SInv
    BY InitS
  <1>2. /\ rl.pc = "off" /\ cb.data = <<>> /\ cb.total = 0 /\ ~termAcked
        /\ anet = <<>> /\ file = <<>> /\ gap = 0 /\ ~done /\ cl.pc = "wait" /\ rd = NewReader(1, 0)
    BY DEF DInit, Init, MakeBuf
  <1>3. rd.next = 0 /\ rd.buf = <<>> /\ rd.end = "none"
    BY <1>2 DEF NewReader
  <1>4. Len(cb.data) = 0 /\ Len(file) = 0 /\ Len(rd.buf) = 0
    BY <1>2, <1>3
  <1>5. HeadOf(cb) = 0 - 0 /\ Position = 0 + 0
    BY <1>2, <1>4, Zenon DEF HeadOf, Position
  <1>6. Exact /\ Kept
    BY <1>3, <1>4, <1>5 DEF Exact, Kept
  <1>7. Elements(anet) = {}
    BY <1>2 DEF Elements
  <1>8. PInv
    BY <1>2, <1>6, <1>7 DEF PInv, AcksHold, Told, Answers
  <1>9. ~Overfull
    BY <1>2 DEF Overfull
  <1> QED BY <1>1, <1>8, <1>9 DEF RInv

\* The bytes that are appended are the next ones of the output.
LEMMA Shows ==
    ASSUME Between, NEW n \in Nat, n > 0, Appends(n), ~done, UNCHANGED <<produced, rl, done>>
    PROVE  Pipe!Next
  <1>1. /\ At(Position, rd.buf) /\ rd.buf \in Seq(Byte) /\ n <= Len(rd.buf)
        /\ file' = file \o SubSeq(rd.buf, 1, n) /\ gap' = gap
    BY Before DEF Appends, Reads, ReaderHolds
  <1>2. SubSeq(rd.buf, 1, n) = [i \in 1..n |-> Position + i]
    <2> DEFINE b == rd.buf
               s == SubSeq(b, 1, n)
    <2>1. b \in Seq(Byte) /\ n <= Len(b) /\ Len(b) \in Nat
      BY <1>1
    <2>2. \A i \in 1..n : b[i] = Position + i
      BY <1>1, <2>1 DEF At
    <2> HIDE DEF b
    <2>3. s = [i \in 1..n |-> b[i]]
      BY <2>1
    <2>4. s = [i \in 1..n |-> Position + i]
      BY <2>2, <2>3
    <2> QED BY <2>4 DEF b
  <1>3. Pipe!Position = Position
    BY DEF Pipe!Position, Position
  <1>4. Position + n <= produced /\ n \in 1..(produced - Position)
    <2> DEFINE u == Stored
    <2>1. Position + n <= u /\ u <= produced /\ u \in Nat /\ Position \in Nat /\ produced \in Nat
      BY AppendsNext, Numbers
    <2> HIDE DEF u
    <2> QED BY <2>1
  <1>5. Pipe!Show(n)
    BY <1>1, <1>2, <1>3, <1>4 DEF Pipe!Show
  <1> QED BY <1>3, <1>4, <1>5 DEF Pipe!Next

\* The pipe that is seen through the durable terminal.
Seen == <<produced, rl.pc = "done", file, gap, done>>

\* What the read loop does is what the program writes.
LEMMA ReadLoopSeen ==
    ASSUME Between, ReadLoopRuns
    PROVE  Pipe!Next \/ UNCHANGED Seen
  <1>1. ReadLoop /\ UNCHANGED <<file, gap, done>>
    BY DEF ReadLoopRuns
  <1>2. produced \in Nat /\ rl \in ReadLoopState
    BY Before, Numbers, ManagerFacts
  <1>3. ASSUME NEW n \in 1..MaxPacket, ReadData(n) PROVE Pipe!Next
    <2> DEFINE p == IF diskFile # 0 THEN "disk" ELSE "buf"
    <2>1. /\ rl.pc = "read" /\ produced' = produced + n /\ n \in Nat /\ n > 0
          /\ rl' = [pc |-> p, data |-> [i \in 1..n |-> produced + i], file |-> diskFile]
      BY <1>3, SizesAssumption DEF ReadData
    <2>2. p # "done"
      OBVIOUS
    <2>3. rl'.pc # "done" /\ rl.pc # "done"
      BY <2>1, <2>2
    <2>4. produced' \in Nat /\ produced' > produced
      BY <1>2, <2>1
    <2>5. Pipe!Write
      BY <1>1, <2>3, <2>4 DEF Pipe!Write
    <2> QED BY <2>5 DEF Pipe!Next
  <1>4. CASE StoreOnDisk \/ DiskWriteFails \/ DiskFileChanged \/ StoreInBuffer
    <2>1. produced' = produced /\ rl.pc \in {"disk", "buf"} /\ rl'.pc # "done"
      BY <1>2, <1>4 DEF StoreOnDisk, DiskWriteFails, DiskFileChanged, StoreInBuffer, ReadLoopState
    <2> QED BY <1>1, <2>1 DEF Seen
  <1>5. ASSUME NEW how \in Terminal, ReadEnds(how) PROVE Pipe!Next
    <2>1. produced' = produced /\ rl.pc # "done" /\ rl'.pc = "done"
      BY <1>2, <1>5 DEF ReadEnds, ReadLoopState
    <2>2. Pipe!Close
      BY <1>1, <2>1 DEF Pipe!Close
    <2> QED BY <2>2 DEF Pipe!Next
  <1> QED BY <1>1, <1>3, <1>4, <1>5 DEF ReadLoop

\* Every step is a step of the pipe, or none.
LEMMA StepSeen ==
    ASSUME Faithful, RInv, DNext, Calm
    PROVE  Pipe!Next \/ UNCHANGED Seen
  <1>0. During
    BY StepKeepsR
  <1>1. Between
    BY <1>0 DEF During
  <1>2. CASE ReadLoopRuns
    BY <1>1, <1>2, ReadLoopSeen
  <1>3. CASE LoopReads
    <2>1. PICK n \in Nat : n > 0 /\ Appends(n)
      BY <1>1, <1>3, LoopReadsKeepsO
    <2>2. UNCHANGED <<produced, rl, done>> /\ ~done
      BY <1>1, <1>3, Before DEF LoopReads, Course, vars
    <2> QED BY <1>1, <2>1, <2>2, Shows
  <1>4. CASE Restart
    <2>1. Appends(Len(rd.buf)) /\ ~done /\ UNCHANGED <<produced, rl, gap, done>>
      BY <1>1, <1>4, RestartKeepsO DEF vars
    <2>2. file \in Seq(Byte) /\ Len(rd.buf) \in Nat
      BY <1>1, Before, ReaderFields DEF DInv, ProgressInv
    <2>3. CASE Len(rd.buf) = 0
      <3>1. file' = file
        BY <2>1, <2>2, <2>3 DEF Appends
      <3> QED BY <2>1, <3>1 DEF Seen
    <2>4. CASE Len(rd.buf) > 0
      BY <1>1, <2>1, <2>2, <2>4, Shows
    <2> QED BY <2>2, <2>3, <2>4
  <1>5. CASE Reconcile
    <2> DEFINE at == Position'
               u  == Stored
    <2>1. /\ ~done /\ UNCHANGED <<produced, rl, file, done>>
          /\ Position <= at /\ at <= u /\ gap' = gap + (at - Position)
          /\ FALSE \notin CreateOk => at = Position
      BY <1>0, <1>1, <1>5, ReconcileKeepsO, Parts DEF vars, Answers
    <2>2. Position \in Nat /\ at \in Nat /\ u \in Nat /\ u <= produced /\ produced \in Nat
          /\ gap \in Nat
      BY <1>1, Numbers, Before DEF DInv, ProgressInv
    <2> HIDE DEF at, u
    <2>3. CASE at = Position
      <3>1. gap' = gap
        BY <2>1, <2>2, <2>3
      <3> QED BY <2>1, <3>1 DEF Seen
    <2>4. CASE at # Position
      <3> DEFINE n == at - Position
      <3>1. n \in 1..(produced - Position) /\ Position + n <= produced
        BY <2>1, <2>2, <2>4
      <3>2. FALSE \in CreateOk
        BY <2>1, <2>4
      <3>3. Pipe!Position = Position
        BY DEF Pipe!Position, Position
      <3>4. gap' = gap + n
        BY <2>1
      <3> HIDE DEF n
      <3>5. Pipe!Skip(n)
        BY <2>1, <3>1, <3>2, <3>3, <3>4, Zenon DEF Pipe!Skip
      <3> QED BY <3>1, <3>3, <3>5 DEF Pipe!Next
    <2> QED BY <2>3, <2>4
  <1>6. CASE LoopEnds \/ AlreadyDone \/ CallFails
    <2>1. UNCHANGED <<produced, rl, file, gap>> /\ ~done /\ (done' => Ended(rd.next) /\ Position = rd.next)
      BY <1>0, <1>1, <1>6, CloseKeepsO, CloseEnds DEF vars
    <2>2. CASE done'
      <3>1. rl.pc = "done" /\ Position = produced
        BY <2>1, <2>2 DEF Ended
      <3>2. Pipe!Position = Position
        BY DEF Pipe!Position, Position
      <3>3. Pipe!End
        BY <2>1, <2>2, <3>1, <3>2 DEF Pipe!End
      <3> QED BY <3>3 DEF Pipe!Next
    <2>3. CASE ~done'
      <3>1. done' = done
        BY <2>1, <2>3, <1>1, Zenon DEF Between, SInv, CInv, DInv, ProgressInv, RInv
      <3> QED BY <2>1, <3>1 DEF Seen
    <2> QED BY <2>2, <2>3
  <1>7. CASE \/ SenderLoopRuns \/ Sent \/ SendTimesOut \/ \E s \in Stream : DrainRuns(s)
             \/ DataArrives \/ AckArrives \/ LinkDrops \/ LinkReturns \/ LoopStarts
    <2>1. UNCHANGED <<produced, rl, file, gap, done>>
      <3>1. CASE SenderLoopRuns
        BY <3>1 DEF SenderLoopRuns, SenderLoop, SenderStops, SenderWaits, PrepareBytes,
           PrepareTerminal, FailureDisconnects, FailureActivates, Disconnect, Activate
      <3>2. CASE Sent \/ SendTimesOut
        BY <3>2 DEF Sent, SendTimesOut, SendReturns, SendFails
      <3>3. ASSUME NEW s \in Stream, DrainRuns(s) PROVE UNCHANGED <<produced, rl, file, gap, done>>
        BY <3>3 DEF DrainRuns, Drain, DrainGivesUp, DrainReads, DrainChecks, DrainWrites,
           DrainUpdates, DrainCatchesUp, DrainRepeats, DrainEnds, Deactivated
      <3>4. CASE DataArrives \/ LinkDrops \/ LinkReturns \/ LoopStarts
        BY <3>4 DEF DataArrives, LinkDrops, LinkReturns, LinkLost, LoopStarts, vars
      <3>5. CASE AckArrives
        BY <3>5 DEF AckArrives, RecvAck, vars
      <3> QED BY <1>7, <3>1, <3>2, <3>3, <3>4, <3>5
    <2> QED BY <2>1 DEF Seen
  <1>8. CASE JobManager
    <2>1. UNCHANGED <<produced, file, gap, done>> /\ (rl' = rl \/ (rl.pc = "off" /\ rl'.pc = "read"))
      <3>1. rl \in ReadLoopState
        BY <1>1, Before, ManagerFacts
      <3>2. CASE JobStarted
        BY <3>1, <3>2 DEF JobStarted, AttachReader, ReadLoopState
      <3>3. CASE PrepareConnect \/ HandlerDisconnects \/ HandlerActivates \/ HandlerConnects
                 \/ HandlerRefused \/ HandlerConsumes \/ HandlerConnected \/ StartStream
        BY <3>3 DEF PrepareConnect, HandlerDisconnects, HandlerActivates, HandlerConnects,
           HandlerRefused, HandlerConsumes, HandlerConnected, StartStream, ClientDisconnected,
           ActivateDiskBuffering, Disconnect, Activate, ConnectBegins, ConnectConsumes,
           ConnectEnds, SetRwndSize, vars
      <3> QED BY <1>8, <3>2, <3>3 DEF JobManager
    <2> QED BY <2>1 DEF Seen
  <1>9. ~MainServerQuits
    BY DEF Faithful, MainServerQuits
  <1> QED BY <1>2, <1>3, <1>4, <1>5, <1>6, <1>7, <1>8, <1>9 DEF DNext, JobController

\* Outside the windows, for every size of window, packet and buffer and every
\* number of connections, faults and bytes: what the program wrote reaches the
\* terminal file in order and once, what is missing is accounted for in totalGap,
\* nothing is missing while a disk file can always be opened, and the stream is
\* declared done only when all of it is there.
THEOREM PipeIsKept ==
    ASSUME Faithful
    PROVE  CalmSpec => ImplementsOutputPipe
  <1>1. DInit => RInv
    BY InitR
  <1>2. RInv /\ [DNext /\ Calm]_dvars => RInv'
    BY StepKeepsR, StutterKeepsR
  <1>3. DInit => Pipe!Init
    BY DEF DInit, Init, Pipe!Init
  <1>4. RInv /\ [DNext /\ Calm]_dvars => [Pipe!Next]_(Pipe!pipeVars)
    <2>1. ASSUME RInv, DNext, Calm PROVE Pipe!Next \/ UNCHANGED Pipe!pipeVars
      BY <2>1, StepSeen DEF Seen, Pipe!pipeVars
    <2>2. ASSUME UNCHANGED dvars PROVE UNCHANGED Pipe!pipeVars
      BY <2>2 DEF dvars, vars, Pipe!pipeVars
    <2> QED BY <2>1, <2>2
  <1> QED BY <1>1, <1>2, <1>3, <1>4, PTL DEF CalmSpec, ImplementsOutputPipe, Pipe!Spec
=============================================================================

---------------------------- MODULE DurableProofs ----------------------------
(***************************************************************************)
(* The durable terminal end to end, for every window, packet, buffer and   *)
(* number of connections, faults and bytes: the types of all its state and *)
(* the alignment of the main server's two records of its place, under all  *)
(* behaviours; and the stream manager as a part of the whole, whose steps  *)
(* keep the invariant of StreamManagerProofs.                              *)
(***************************************************************************)
EXTENDS DurableStream, StreamManagerProofs, WellFoundedInduction

USE CirBufSizeAssumption, NoWriterAssumption
USE DEF readVars, ackVars, termVars, diskVars, drainVars, netVars, clientVars

-----------------------------------------------------------------------------
(* What the reader does with a packet. *)

\* The elements of a sequence: the packets and acknowledgements in flight.
Elements(s) == {s[i] : i \in DOMAIN s}

StoredPacket == {p \in Packet : p.seq \in Nat}
ReaderState  == [id : Stream, next : Nat, buf : Seq(Byte), ooo : SUBSET StoredPacket,
                 end : {"none", "eof", "err"}, open : BOOLEAN, rwndSent : 0..Rwnd]
AckState     == [id : Stream, seq : Nat, rwnd : 0..Rwnd, fin : BOOLEAN, cancel : BOOLEAN]

\* The stored packets end somewhere.
Bounded(packets) == \E b \in Nat : \A p \in packets : p.seq <= b

\* Numbers have a smallest.
LEMMA LeastExists ==
    ASSUME NEW S \in SUBSET Nat, S # {}
    PROVE  \E x \in S : \A y \in S : x <= y
  <1>1. PICK x \in S : \A y \in S : ~(<<y, x>> \in OpToRel(<, Nat))
    BY NatLessThanWellFounded, WFMin
  <1>2. \A y \in S : x <= y
    <2> TAKE y \in S
    <2>1. x \in Nat /\ y \in Nat
      OBVIOUS
    <2>2. ~(y < x)
      BY <1>1, <2>1 DEF OpToRel
    <2> QED BY <2>1, <2>2
  <1> QED BY <1>2

\* Of some stored packets one is first, and one last.
LEMMA FirstAndLast ==
    ASSUME NEW S \in SUBSET StoredPacket, S # {}
    PROVE  /\ \E p \in S : \A q \in S : p.seq <= q.seq
           /\ Bounded(S) => \E p \in S : \A q \in S : q.seq <= p.seq
  <1>1. \A p \in S : p.seq \in Nat
    BY DEF StoredPacket
  <1>2. \E p \in S : \A q \in S : p.seq <= q.seq
    <2> DEFINE T == {p.seq : p \in S}
    <2>1. T \subseteq Nat /\ T # {}
      BY <1>1
    <2>2. PICK x \in T : \A y \in T : x <= y
      <3> HIDE DEF T
      <3> QED BY <2>1, LeastExists
    <2>3. PICK p \in S : x = p.seq
      BY <2>2
    <2> QED BY <2>2, <2>3
  <1>3. ASSUME NEW b \in Nat, \A p \in S : p.seq <= b
        PROVE  \E p \in S : \A q \in S : q.seq <= p.seq
    <2> DEFINE T == {b - p.seq : p \in S}
    <2>1. T \subseteq Nat /\ T # {}
      <3>1. ASSUME NEW p \in S PROVE b - p.seq \in Nat
        BY <1>1, <1>3
      <3> QED BY <3>1
    <2>2. PICK x \in T : \A y \in T : x <= y
      <3> HIDE DEF T
      <3> QED BY <2>1, LeastExists
    <2>3. PICK p \in S : x = b - p.seq
      BY <2>2
    <2>4. ASSUME NEW q \in S PROVE q.seq <= p.seq
      <3>1. b - p.seq <= b - q.seq
        BY <2>2, <2>3
      <3> QED BY <1>1, <3>1
    <2> QED BY <2>4
  <1> QED BY <1>2, <1>3 DEF Bounded

\* The stored packets that are taken follow the reader's place without a hole:
\* the last one ends no earlier than that place, and each byte between is in one.
LEMMA TakenCovers ==
    ASSUME NEW r \in ReaderState, Bounded(r.ooo), Taken(r) # {},
           NEW last, last = CHOOSE p \in Taken(r) : \A q \in Taken(r) : q.seq <= p.seq
    PROVE  /\ last \in Taken(r) /\ r.next <= EndOf(last)
           /\ \A i \in 1..(EndOf(last) - r.next) :
                \E p \in Taken(r) : p.seq < r.next + i /\ r.next + i <= EndOf(p)
           /\ \/ EndOf(last) = r.next
              \/ \E q \in r.ooo : q.data # <<>> /\ EndOf(last) = EndOf(q)
  <1> DEFINE S == Taken(r)
  <1>1. /\ r.next \in Nat /\ r.ooo \subseteq StoredPacket /\ S \subseteq r.ooo
        /\ S \in SUBSET StoredPacket /\ Bounded(S)
    BY DEF ReaderState, Taken, Bounded
  <1>2. \A p \in r.ooo : /\ p.seq \in Nat /\ p.data \in Seq(Byte) /\ Len(p.data) \in Nat
                         /\ EndOf(p) \in Nat /\ p.seq <= EndOf(p)
    <2> TAKE p \in r.ooo
    <2>1. p.seq \in Nat /\ p.data \in Seq(Byte)
      BY <1>1 DEF StoredPacket, Packet
    <2>2. Len(p.data) \in Nat
      BY <2>1
    <2> QED BY <2>1, <2>2 DEF EndOf
  <1>3. last \in S /\ \A q \in S : q.seq <= last.seq
    BY <1>1, FirstAndLast
  <1>4. ASSUME NEW p \in S, NEW q \in r.ooo, q.seq <= p.seq
        PROVE  q \in S
    BY <1>1, <1>2, <1>4 DEF Taken
  <1>5. ASSUME NEW p \in S PROVE Follows(r, p)
    BY <1>1, <1>2 DEF Taken
  <1>6. ASSUME NEW p \in S PROVE r.next <= p.seq
    <2>1. PICK q \in S : \A o \in S : q.seq <= o.seq
      BY <1>1, FirstAndLast
    <2>2. q.seq = r.next
      <3>1. ASSUME NEW o \in r.ooo, o.seq < q.seq PROVE FALSE
        <4>1. o.seq \in Nat /\ q.seq \in Nat
          BY <1>1, <1>2, <2>1
        <4>2. o \in S
          BY <1>4, <2>1, <3>1, <4>1
        <4> QED BY <2>1, <3>1, <4>1, <4>2
      <3> QED BY <1>5, <2>1, <3>1 DEF Follows
    <2> QED BY <1>1, <1>2, <2>1, <2>2
  <1>7. r.next <= EndOf(last)
    BY <1>1, <1>2, <1>3, <1>6
  <1>8. ASSUME NEW i \in 1..(EndOf(last) - r.next)
        PROVE  \E p \in S : p.seq < r.next + i /\ r.next + i <= EndOf(p)
    <2> DEFINE x == r.next + i
               T == {p \in S : x <= EndOf(p)}
    <2>1. x \in Nat /\ r.next < x /\ x <= EndOf(last)
      BY <1>1, <1>2, <1>3
    <2>2. T \in SUBSET StoredPacket /\ T # {}
      BY <1>1, <1>3, <2>1
    <2>3. PICK m \in T : \A o \in T : m.seq <= o.seq
      <3> HIDE DEF T
      <3> QED BY <2>2, FirstAndLast
    <2>4. ASSUME ~(m.seq < x) PROVE FALSE
      <3>1. m \in S /\ m.seq \in Nat /\ m.seq # r.next
        BY <1>1, <1>2, <2>1, <2>3, <2>4
      <3>2. PICK q \in r.ooo : q.seq < m.seq /\ EndOf(q) = m.seq
        BY <1>5, <3>1 DEF Follows
      <3>3. q \in S /\ x <= EndOf(q)
        BY <1>2, <1>4, <2>1, <2>4, <3>1, <3>2
      <3>4. q \in T
        BY <3>3
      <3>5. m.seq <= q.seq /\ q.seq \in Nat
        BY <1>2, <2>3, <3>2, <3>4
      <3> QED BY <3>1, <3>2, <3>5
    <2> QED BY <2>3, <2>4
  <1>9. \/ EndOf(last) = r.next
        \/ \E q \in r.ooo : q.data # <<>> /\ EndOf(last) = EndOf(q)
    <2>1. CASE last.data # <<>>
      BY <1>1, <1>3, <2>1
    <2>2. CASE last.data = <<>>
      <3>1. EndOf(last) = last.seq
        BY <1>1, <1>2, <1>3, <2>2 DEF EndOf
      <3>2. CASE last.seq = r.next
        BY <3>1, <3>2
      <3>3. CASE last.seq # r.next
        <4>1. PICK q \in r.ooo : q.seq < last.seq /\ EndOf(q) = last.seq
          BY <1>3, <1>5, <3>3 DEF Follows
        <4>2. q.data # <<>>
          BY <1>2, <4>1 DEF EndOf
        <4> QED BY <3>1, <4>1, <4>2
      <3> QED BY <3>2, <3>3
    <2> QED BY <2>1, <2>2
  <1> QED BY <1>3, <1>7, <1>8, <1>9

\* A reader, field by field.
ReaderRec(id, next, buf, ooo, end, open, sent) ==
    [id |-> id, next |-> next, buf |-> buf, ooo |-> ooo,
     end |-> end, open |-> open, rwndSent |-> sent]

\* The fields of a reader.
LEMMA ReaderFields ==
    ASSUME NEW r \in ReaderState
    PROVE  /\ r.id \in Stream /\ r.next \in Nat /\ r.buf \in Seq(Byte) /\ Len(r.buf) \in Nat
           /\ r.ooo \in SUBSET StoredPacket /\ r.end \in {"none", "eof", "err"}
           /\ r.open \in BOOLEAN /\ r.rwndSent \in 0..Rwnd
  BY DEF ReaderState

\* A record of well-typed fields is a reader.
LEMMA ReaderType ==
    ASSUME NEW a \in Stream, NEW b \in Nat, NEW c \in Seq(Byte), NEW d \in SUBSET StoredPacket,
           NEW e \in {"none", "eof", "err"}, NEW f \in BOOLEAN, NEW g \in 0..Rwnd
    PROVE  ReaderRec(a, b, c, d, e, f, g) \in ReaderState
  BY DEF ReaderRec, ReaderState

\* The ways a reader is updated, as records.
LEMMA ReaderExcept ==
    ASSUME NEW r \in ReaderState, NEW x
    PROVE  /\ [r EXCEPT !.buf = x]
              = ReaderRec(r.id, r.next, x, r.ooo, r.end, r.open, r.rwndSent)
           /\ [r EXCEPT !.next = x]
              = ReaderRec(r.id, x, r.buf, r.ooo, r.end, r.open, r.rwndSent)
           /\ [r EXCEPT !.ooo = x]
              = ReaderRec(r.id, r.next, r.buf, x, r.end, r.open, r.rwndSent)
           /\ [r EXCEPT !.end = x]
              = ReaderRec(r.id, r.next, r.buf, r.ooo, x, r.open, r.rwndSent)
           /\ [r EXCEPT !.open = x]
              = ReaderRec(r.id, r.next, r.buf, r.ooo, r.end, x, r.rwndSent)
           /\ [r EXCEPT !.rwndSent = x]
              = ReaderRec(r.id, r.next, r.buf, r.ooo, r.end, r.open, x)
  <1>1. [r EXCEPT !.buf = x] = ReaderRec(r.id, r.next, x, r.ooo, r.end, r.open, r.rwndSent)
    BY DEF ReaderRec, ReaderState
  <1>2. [r EXCEPT !.next = x] = ReaderRec(r.id, x, r.buf, r.ooo, r.end, r.open, r.rwndSent)
    BY DEF ReaderRec, ReaderState
  <1>3. [r EXCEPT !.ooo = x] = ReaderRec(r.id, r.next, r.buf, x, r.end, r.open, r.rwndSent)
    BY DEF ReaderRec, ReaderState
  <1>4. [r EXCEPT !.end = x] = ReaderRec(r.id, r.next, r.buf, r.ooo, x, r.open, r.rwndSent)
    BY DEF ReaderRec, ReaderState
  <1>5. [r EXCEPT !.open = x] = ReaderRec(r.id, r.next, r.buf, r.ooo, r.end, x, r.rwndSent)
    BY DEF ReaderRec, ReaderState
  <1>6. [r EXCEPT !.rwndSent = x] = ReaderRec(r.id, r.next, r.buf, r.ooo, r.end, r.open, x)
    BY DEF ReaderRec, ReaderState
  <1> QED BY <1>1, <1>2, <1>3, <1>4, <1>5, <1>6

\* A reader that takes bytes.
LEMMA ReaderTakes ==
    ASSUME NEW r \in ReaderState, NEW next, NEW buf, NEW end
    PROVE  [r EXCEPT !.buf = buf, !.next = next, !.end = end]
           = ReaderRec(r.id, next, buf, r.ooo, end, r.open, r.rwndSent)
  <1>1. [r EXCEPT !.buf = buf, !.next = next, !.end = end]
        = [[[r EXCEPT !.buf = buf] EXCEPT !.next = next] EXCEPT !.end = end]
    BY DEF ReaderState
  <1>2. [r EXCEPT !.buf = buf]
        = ReaderRec(r.id, r.next, buf, r.ooo, r.end, r.open, r.rwndSent)
    BY ReaderExcept
  <1>3. [ReaderRec(r.id, r.next, buf, r.ooo, r.end, r.open, r.rwndSent) EXCEPT !.next = next]
        = ReaderRec(r.id, next, buf, r.ooo, r.end, r.open, r.rwndSent)
    BY DEF ReaderRec
  <1>4. [ReaderRec(r.id, next, buf, r.ooo, r.end, r.open, r.rwndSent) EXCEPT !.end = end]
        = ReaderRec(r.id, next, buf, r.ooo, end, r.open, r.rwndSent)
    BY DEF ReaderRec
  <1> QED BY <1>1, <1>2, <1>3, <1>4, Zenon

\* Taking stored packets moves the reader's place by what it adds to the buffer.
LEMMA StoredEffect ==
    ASSUME NEW r \in ReaderState, Bounded(r.ooo), NEW s, s = TakeStored(r)
    PROVE  /\ s \in ReaderState /\ s.ooo \subseteq r.ooo
           /\ s.id = r.id /\ s.open = r.open /\ s.rwndSent = r.rwndSent
           /\ r.next <= s.next /\ Len(s.buf) = Len(r.buf) + (s.next - r.next)
           /\ s.next = r.next \/ \E q \in r.ooo : q.data # <<>> /\ s.next = EndOf(q)
           /\ r.end # "none" => s.buf = r.buf /\ s.next = r.next /\ s.end = r.end
  <1> DEFINE taken == Taken(r)
             last  == CHOOSE p \in taken : \A q \in taken : q.seq <= p.seq
             to    == EndOf(last)
             more  == [i \in 1..(to - r.next) |-> ByteAt(taken, r.next + i)]
             all   == IF taken = {} THEN r
                      ELSE [r EXCEPT !.buf = @ \o more, !.next = to, !.end = last.end]
             left  == Leave(all, taken)
  <1>1. s = [all EXCEPT !.ooo = left]
    BY Zenon DEF TakeStored
  <1>2. /\ all \in ReaderState /\ all.ooo = r.ooo
        /\ all.id = r.id /\ all.open = r.open /\ all.rwndSent = r.rwndSent
        /\ r.next <= all.next /\ Len(all.buf) = Len(r.buf) + (all.next - r.next)
        /\ all.next = r.next \/ \E q \in r.ooo : q.data # <<>> /\ all.next = EndOf(q)
        /\ r.end # "none" => all.buf = r.buf /\ all.next = r.next /\ all.end = r.end
    <2>1. CASE taken = {}
      <3>1. all = r
        BY <2>1
      <3> HIDE DEF all
      <3> QED BY <3>1, ReaderFields
    <2>2. CASE taken # {}
      <3> DEFINE f == last
      <3> HIDE DEF f
      <3>0. f = CHOOSE p \in Taken(r) : \A q \in Taken(r) : q.seq <= p.seq
        BY DEF f
      <3>1. /\ f \in taken /\ r.next <= EndOf(f)
            /\ \A i \in 1..(EndOf(f) - r.next) :
                  \E p \in taken : p.seq < r.next + i /\ r.next + i <= EndOf(p)
            /\ \/ EndOf(f) = r.next
               \/ \E q \in r.ooo : q.data # <<>> /\ EndOf(f) = EndOf(q)
        BY <2>2, <3>0, TakenCovers
      <3>2. taken \subseteq StoredPacket /\ r.next \in Nat /\ r.buf \in Seq(Byte)
            /\ r.end = "none"
        BY <2>2, ReaderFields DEF Taken
      <3>3. \A p \in taken : /\ p.seq \in Nat /\ p.data \in Seq(Byte) /\ Len(p.data) \in Nat
                             /\ p.end \in {"none", "eof", "err"}
        BY <3>2 DEF StoredPacket, Packet
      <3>4. EndOf(f) \in Nat
        BY <3>1, <3>3 DEF EndOf
      <3> HIDE DEF taken
      <3>5. ASSUME NEW i \in 1..(EndOf(f) - r.next)
            PROVE  ByteAt(taken, r.next + i) \in Byte
        <4> DEFINE x == r.next + i
                   p == CHOOSE q \in taken : q.seq < x /\ x <= EndOf(q)
        <4>1. p \in taken /\ p.seq < x /\ x <= EndOf(p)
          BY <3>1
        <4> HIDE DEF p
        <4>2. x \in Nat
          BY <3>2, <3>4
        <4> HIDE DEF x
        <4>3. x - p.seq \in 1..Len(p.data)
          BY <3>3, <4>1, <4>2 DEF EndOf
        <4>4. p.data[x - p.seq] \in Byte
          BY <3>3, <4>1, <4>3
        <4> QED BY <4>4 DEF ByteAt, p, x
      <3>6. more \in Seq(Byte) /\ Len(more) = EndOf(f) - r.next
        <4> DEFINE m == EndOf(f) - r.next
        <4>1. m \in Nat
          BY <3>1, <3>2, <3>4
        <4>2. more = [i \in 1..m |-> ByteAt(taken, r.next + i)]
          BY DEF f, taken
        <4>3. \A i \in 1..m : ByteAt(taken, r.next + i) \in Byte
          BY <3>5
        <4> HIDE DEF m, more
        <4>4. more \in [1..m -> Byte]
          BY <4>2, <4>3
        <4>5. Len(more) = m
          BY <4>1, <4>4
        <4> QED BY <4>1, <4>4, <4>5 DEF m
      <3> HIDE DEF more
      <3>7. all = ReaderRec(r.id, EndOf(f), r.buf \o more, r.ooo, f.end, r.open, r.rwndSent)
        <4>1. all = [r EXCEPT !.buf = r.buf \o more, !.next = EndOf(f), !.end = f.end]
          BY <2>2, Zenon DEF f, taken
        <4> HIDE DEF all
        <4> QED BY <4>1, ReaderTakes, Zenon
      <3> HIDE DEF all
      <3>8. r.buf \o more \in Seq(Byte) /\ Len(r.buf \o more) = Len(r.buf) + (EndOf(f) - r.next)
        BY <3>2, <3>6
      <3>9. all \in ReaderState
        BY <3>1, <3>3, <3>4, <3>7, <3>8, ReaderType, ReaderFields
      <3>10. /\ all.ooo = r.ooo /\ all.id = r.id /\ all.open = r.open
             /\ all.rwndSent = r.rwndSent /\ all.next = EndOf(f) /\ all.buf = r.buf \o more
        BY <3>7 DEF ReaderRec
      <3> QED BY <3>1, <3>2, <3>8, <3>9, <3>10
    <2> QED BY <2>1, <2>2
  <1>3. left \in SUBSET StoredPacket /\ left \subseteq r.ooo
    BY <1>2, ReaderFields DEF Leave
  <1> HIDE DEF left, all
  <1>4. s = ReaderRec(all.id, all.next, all.buf, left, all.end, all.open, all.rwndSent)
    BY <1>1, <1>2, ReaderExcept, Zenon
  <1>5. s \in ReaderState
    <2>1. /\ all.id \in Stream /\ all.next \in Nat /\ all.buf \in Seq(Byte)
          /\ all.end \in {"none", "eof", "err"} /\ all.open \in BOOLEAN
          /\ all.rwndSent \in 0..Rwnd
      BY <1>2, ReaderFields
    <2>2. ReaderRec(all.id, all.next, all.buf, left, all.end, all.open, all.rwndSent)
          \in ReaderState
      BY <1>3, <2>1, ReaderType, Zenon
    <2> QED BY <1>4, <2>2, Zenon
  <1>6. /\ s.ooo = left /\ s.id = all.id /\ s.open = all.open /\ s.rwndSent = all.rwndSent
        /\ s.next = all.next /\ s.buf = all.buf /\ s.end = all.end
    BY <1>4 DEF ReaderRec
  <1> QED BY <1>2, <1>3, <1>5, <1>6

\* The room a reader has.
LEMMA FreeWindowType ==
    ASSUME NEW r \in ReaderState
    PROVE  /\ FreeWindow(r) \in 0..Rwnd
           /\ Len(r.buf) <= Rwnd => FreeWindow(r) = Rwnd - Len(r.buf)
  <1> DEFINE n == Len(r.buf)
  <1>1. n \in Nat /\ Rwnd \in Nat
    BY ReaderFields, RwndAssumption, SizesAssumption
  <1>2. FreeWindow(r) = Greater(0, Rwnd - n)
    BY DEF FreeWindow
  <1> HIDE DEF n
  <1>3. FreeWindow(r) \in 0..Rwnd /\ (n <= Rwnd => FreeWindow(r) = Rwnd - n)
    BY <1>1, <1>2 DEF Greater
  <1> QED BY <1>3 DEF n

\* An acknowledgement names the reader's place and room.
LEMMA AckFields ==
    ASSUME NEW r \in ReaderState, NEW fin \in BOOLEAN, NEW cancel \in BOOLEAN
    PROVE  LET a == AckOf(r, fin, cancel)
           IN  /\ a \in AckState
               /\ a.id = r.id /\ a.seq = r.next /\ a.rwnd = FreeWindow(r)
               /\ a.fin = fin /\ a.cancel = cancel
  BY ReaderFields, FreeWindowType DEF AckOf, AckState

\* An acknowledgement that is sent is one more in flight, or lost.
LEMMA AckedEffect ==
    ASSUME anet \in Seq(AckState), NEW a \in AckState, Acked(a)
    PROVE  anet' \in Seq(AckState) /\ Elements(anet') \subseteq Elements(anet) \union {a}
  <1>1. CASE anet' = anet
    BY <1>1 DEF Elements
  <1>2. CASE anet' = Append(anet, a)
    <2>1. /\ anet' \in Seq(AckState) /\ Len(anet') = Len(anet) + 1
          /\ \A i \in 1..Len(anet) : anet'[i] = anet[i]
          /\ anet'[Len(anet) + 1] = a
      BY <1>2
    <2>2. ASSUME NEW i \in DOMAIN anet' PROVE anet'[i] \in Elements(anet) \union {a}
      <3>1. i \in 1..(Len(anet) + 1) /\ Len(anet) \in Nat
        BY <2>1
      <3>2. CASE i = Len(anet) + 1
        BY <2>1, <3>2
      <3>3. CASE i \in 1..Len(anet)
        BY <2>1, <3>3 DEF Elements
      <3> QED BY <3>1, <3>2, <3>3
    <2> QED BY <2>1, <2>2 DEF Elements
  <1> QED BY <1>1, <1>2 DEF Acked

\* Two moves of a place, and of what is in front of it, are one.
LEMMA MovesAdd ==
    ASSUME NEW n \in Nat, NEW l \in Nat, NEW k \in Nat, NEW m \in Nat,
           n + k <= m
    PROVE  n <= m /\ (l + k) + (m - (n + k)) = l + (m - n)
  OBVIOUS

\* A packet in its place moves the reader's place by what it adds to the buffer.
LEMMA OrderedEffect ==
    ASSUME NEW r \in ReaderState, NEW p \in Packet, NEW s, s = TakeOrdered(r, p)
    PROVE  /\ s \in ReaderState /\ s.ooo = r.ooo /\ s.end = p.end
           /\ s.id = r.id /\ s.open = r.open /\ s.rwndSent = r.rwndSent
           /\ s.next = r.next + Len(p.data) /\ s.buf = r.buf \o p.data
           /\ Len(s.buf) = Len(r.buf) + Len(p.data)
  <1> DEFINE buf  == r.buf \o p.data
             next == r.next + Len(p.data)
  <1>1. s = [r EXCEPT !.buf = buf, !.next = next, !.end = p.end]
    BY Zenon DEF TakeOrdered
  <1>2. p.data \in Seq(Byte) /\ p.end \in {"none", "eof", "err"} /\ Len(p.data) \in Nat
    <2>1. p.data \in Seq(Byte) /\ p.end \in {"none", "eof", "err"}
      BY DEF Packet
    <2> QED BY <2>1
  <1>3. buf \in Seq(Byte) /\ next \in Nat /\ Len(buf) = Len(r.buf) + Len(p.data)
    BY <1>2, ReaderFields
  <1> HIDE DEF buf, next
  <1>4. s = ReaderRec(r.id, next, buf, r.ooo, p.end, r.open, r.rwndSent)
    BY <1>1, ReaderTakes, Zenon
  <1>5. ReaderRec(r.id, next, buf, r.ooo, p.end, r.open, r.rwndSent) \in ReaderState
    BY <1>2, <1>3, ReaderFields, ReaderType, Zenon
  <1>6. /\ s.ooo = r.ooo /\ s.end = p.end /\ s.id = r.id /\ s.open = r.open
        /\ s.rwndSent = r.rwndSent /\ s.next = next /\ s.buf = buf
    BY <1>4 DEF ReaderRec
  <1> QED BY <1>3, <1>4, <1>5, <1>6 DEF buf, next

\* One step of a reader: what RecvData(p) does to it.
Received(p, r, s) ==
    /\ s \in ReaderState /\ Bounded(s.ooo)
    /\ s.id = r.id /\ s.open = r.open
    /\ \A q \in s.ooo : q \in r.ooo \/ (q = p /\ p.id = r.id)
    /\ r.next <= s.next /\ Len(s.buf) = Len(r.buf) + (s.next - r.next)
    /\ \/ s.next = r.next
       \/ \E q \in r.ooo : q.data # <<>> /\ s.next = EndOf(q)
       \/ p.id = r.id /\ p.data # <<>> /\ s.next = EndOf(p)
    /\ p.data = <<>> /\ p.end # "none" => s.buf = r.buf
    /\ ~r.open => s = r

\* The acknowledgement that goes with it.
Answered(p, r, a) ==
    /\ a \in AckState /\ r.open
    /\ a.id = r.id /\ a.seq = r.next /\ a.rwnd = FreeWindow(r) /\ ~a.cancel
    /\ p.end # "none" => a.fin

\* RecvData does nothing, stores the packet, or takes bytes and answers.
LEMMA RecvDataEffect ==
    ASSUME rd \in ReaderState, Bounded(rd.ooo), NEW p \in Packet, RecvData(p)
    PROVE  /\ Received(p, rd, rd')
           /\ anet' = anet \/ \E a : Answered(p, rd', a) /\ Acked(a)
  <1>1. /\ rd.next \in Nat /\ rd.ooo \in SUBSET StoredPacket /\ Len(rd.buf) \in Nat
        /\ p.seq \in Int
    BY ReaderFields DEF Packet
  <1>2. CASE UNCHANGED <<rd, anet>>
    BY <1>1, <1>2 DEF Received
  <1>3. ASSUME p.id = rd.id, rd.open, rd.end = "none", p.end = "err",
               rd' = [rd EXCEPT !.end = "err"], Acked(AckOf(rd', TRUE, FALSE))
        PROVE  Received(p, rd, rd') /\ \E a : Answered(p, rd', a) /\ Acked(a)
    <2>1. rd' = ReaderRec(rd.id, rd.next, rd.buf, rd.ooo, "err", rd.open, rd.rwndSent)
      BY <1>3, ReaderExcept, Zenon
    <2>2. ReaderRec(rd.id, rd.next, rd.buf, rd.ooo, "err", rd.open, rd.rwndSent) \in ReaderState
      BY ReaderFields, ReaderType, Zenon
    <2>3. /\ rd' \in ReaderState /\ rd'.id = rd.id /\ rd'.open = rd.open
          /\ rd'.next = rd.next /\ rd'.buf = rd.buf /\ rd'.ooo = rd.ooo
      BY <2>1, <2>2 DEF ReaderRec
    <2>4. Received(p, rd, rd')
      <3>1. rd.next <= rd'.next /\ Len(rd'.buf) = Len(rd.buf) + (rd'.next - rd.next)
        BY <1>1, <2>3
      <3> QED BY <1>3, <2>3, <3>1, Zenon DEF Received
    <2>5. \A f, c \in BOOLEAN : LET a == AckOf(rd', f, c)
                                IN  /\ a \in AckState
                                    /\ a.id = rd'.id /\ a.seq = rd'.next
                                    /\ a.rwnd = FreeWindow(rd') /\ a.fin = f /\ a.cancel = c
      BY <2>3, AckFields, ZenonT(30)
    <2>6. Answered(p, rd', AckOf(rd', TRUE, FALSE))
      BY <1>3, <2>3, <2>5, Zenon DEF Answered
    <2> QED BY <1>3, <2>4, <2>6, Zenon
  <1>4. ASSUME p.id = rd.id, rd.open, rd.end = "none", p.end # "err", p.seq > rd.next,
               rd' = [rd EXCEPT !.ooo = @ \union {p}]
        PROVE  Received(p, rd, rd')
    <2> DEFINE ooo == rd.ooo \union {p}
    <2>1. ooo \in SUBSET StoredPacket /\ Bounded(ooo)
      <3>1. p \in StoredPacket
        BY <1>1, <1>4 DEF StoredPacket
      <3>2. PICK b \in Nat : \A q \in rd.ooo : q.seq <= b
        BY DEF Bounded
      <3>3. b + p.seq \in Nat /\ p.seq \in Nat /\ \A q \in rd.ooo : q.seq \in Nat
        BY <1>1, <3>1 DEF StoredPacket
      <3>4. \A q \in ooo : q.seq <= b + p.seq
        BY <3>2, <3>3
      <3> QED BY <1>1, <3>1, <3>3, <3>4 DEF Bounded
    <2>2. rd' = [rd EXCEPT !.ooo = ooo]
      BY <1>4
    <2> HIDE DEF ooo
    <2>3. rd' = ReaderRec(rd.id, rd.next, rd.buf, ooo, rd.end, rd.open, rd.rwndSent)
      BY <2>2, ReaderExcept, Zenon
    <2>4. ReaderRec(rd.id, rd.next, rd.buf, ooo, rd.end, rd.open, rd.rwndSent) \in ReaderState
      BY <2>1, ReaderFields, ReaderType, Zenon
    <2>5. /\ rd' \in ReaderState /\ rd'.id = rd.id /\ rd'.open = rd.open
          /\ rd'.next = rd.next /\ rd'.buf = rd.buf /\ rd'.ooo = ooo
      BY <2>3, <2>4 DEF ReaderRec
    <2>6. rd.next <= rd'.next /\ Len(rd'.buf) = Len(rd.buf) + (rd'.next - rd.next)
      BY <1>1, <2>5
    <2>7. \A q \in rd'.ooo : q \in rd.ooo \/ (q = p /\ p.id = rd.id)
      BY <1>4, <2>5 DEF ooo
    <2>8. Bounded(rd'.ooo)
      BY <2>1, <2>5
    <2> QED BY <1>4, <2>5, <2>6, <2>7, <2>8, Zenon DEF Received
  <1>5. ASSUME p.id = rd.id, rd.open, rd.end = "none", p.end # "err", p.seq = rd.next,
               NEW r, r = TakeStored(TakeOrdered(rd, p)),
               rd' = [r EXCEPT !.rwndSent = FreeWindow(r)],
               Acked(AckOf(r, r.end = "eof", FALSE))
        PROVE  Received(p, rd, rd') /\ \E a : Answered(p, rd', a) /\ Acked(a)
    <2> DEFINE o == TakeOrdered(rd, p)
    <2>1. /\ o \in ReaderState /\ o.ooo = rd.ooo /\ o.end = p.end
          /\ o.id = rd.id /\ o.open = rd.open /\ o.buf = rd.buf \o p.data
          /\ o.next = rd.next + Len(p.data) /\ Len(o.buf) = Len(rd.buf) + Len(p.data)
      BY OrderedEffect, ZenonT(30)
    <2> HIDE DEF o
    <2>2. /\ r \in ReaderState /\ r.ooo \subseteq o.ooo /\ r.id = o.id /\ r.open = o.open
          /\ o.next <= r.next /\ Len(r.buf) = Len(o.buf) + (r.next - o.next)
          /\ r.next = o.next \/ \E q \in o.ooo : q.data # <<>> /\ r.next = EndOf(q)
          /\ o.end # "none" => r.buf = o.buf /\ r.next = o.next /\ r.end = o.end
      <3>1. Bounded(o.ooo) /\ r = TakeStored(o)
        BY <1>5, <2>1 DEF o
      <3> QED BY <2>1, <3>1, StoredEffect
    <2>3. r \in ReaderState /\ FreeWindow(r) \in 0..Rwnd
      BY <2>2, FreeWindowType
    <2>4. rd' = ReaderRec(r.id, r.next, r.buf, r.ooo, r.end, r.open, FreeWindow(r))
      <3>1. [r EXCEPT !.rwndSent = FreeWindow(r)]
            = ReaderRec(r.id, r.next, r.buf, r.ooo, r.end, r.open, FreeWindow(r))
        BY <2>3, ReaderExcept
      <3> QED BY <1>5, <3>1, Zenon
    <2>5. ReaderRec(r.id, r.next, r.buf, r.ooo, r.end, r.open, FreeWindow(r)) \in ReaderState
      <3>1. /\ r.id \in Stream /\ r.next \in Nat /\ r.buf \in Seq(Byte)
            /\ r.ooo \in SUBSET StoredPacket /\ r.end \in {"none", "eof", "err"}
            /\ r.open \in BOOLEAN
        BY <2>3, ReaderFields
      <3> QED BY <2>3, <3>1, ReaderType
    <2>6. /\ rd' \in ReaderState /\ rd'.id = r.id /\ rd'.open = r.open
          /\ rd'.next = r.next /\ rd'.buf = r.buf /\ rd'.ooo = r.ooo
      BY <2>4, <2>5 DEF ReaderRec
    <2>7. p.data \in Seq(Byte) /\ Len(p.data) \in Nat /\ p.end \in {"none", "eof", "err"}
      <3>1. p.data \in Seq(Byte) /\ p.end \in {"none", "eof", "err"}
        BY DEF Packet
      <3> QED BY <3>1
    <2>8. Received(p, rd, rd')
      <3>1. r.next \in Nat /\ o.next \in Nat /\ Len(r.buf) \in Nat
        BY <2>1, <2>2, ReaderFields
      <3>2. Bounded(rd'.ooo)
        BY <2>1, <2>2, <2>6 DEF Bounded
      <3>3. rd.next <= rd'.next /\ Len(rd'.buf) = Len(rd.buf) + (rd'.next - rd.next)
        <4>1. /\ rd.next \in Nat /\ Len(rd.buf) \in Nat /\ Len(p.data) \in Nat
              /\ o.next = rd.next + Len(p.data) /\ Len(o.buf) = Len(rd.buf) + Len(p.data)
              /\ o.next <= r.next /\ Len(r.buf) = Len(o.buf) + (r.next - o.next)
          BY <1>1, <2>1, <2>2, <2>7
        <4>2. rd.next <= r.next /\ Len(r.buf) = Len(rd.buf) + (r.next - rd.next)
          <5> DEFINE n == rd.next
                     l == Len(rd.buf)
                     k == Len(p.data)
                     m == r.next
          <5>1. n \in Nat /\ l \in Nat /\ k \in Nat /\ m \in Nat
            BY <3>1, <4>1
          <5>2. n + k <= m /\ Len(r.buf) = (l + k) + (m - (n + k))
            BY <4>1, Zenon
          <5> HIDE DEF n, l, k, m
          <5>3. n <= m /\ Len(r.buf) = l + (m - n)
            BY <5>1, <5>2, MovesAdd
          <5> QED BY <5>3 DEF n, l, m
        <4> QED BY <2>6, <4>2
      <3>4. p.data = <<>> /\ p.end # "none" => rd'.buf = rd.buf
        <4>1. p.data = <<>> => rd.buf \o p.data = rd.buf
          BY ReaderFields
        <4> QED BY <2>1, <2>2, <2>6, <4>1
      <3>5. \/ rd'.next = rd.next
            \/ \E q \in rd.ooo : q.data # <<>> /\ rd'.next = EndOf(q)
            \/ p.id = rd.id /\ p.data # <<>> /\ rd'.next = EndOf(p)
        <4>1. CASE r.next # o.next
          BY <2>1, <2>2, <2>6, <4>1
        <4>2. CASE r.next = o.next /\ p.data = <<>>
          <5>1. Len(p.data) = 0
            BY <4>2
          <5> QED BY <1>1, <2>1, <2>6, <4>2, <5>1
        <4>3. CASE r.next = o.next /\ p.data # <<>>
          BY <1>5, <2>1, <2>6, <4>3 DEF EndOf
        <4> QED BY <4>1, <4>2, <4>3
      <3> QED BY <1>5, <2>1, <2>2, <2>6, <3>2, <3>3, <3>4, <3>5 DEF Received
    <2>9. FreeWindow(rd') = FreeWindow(r)
      BY <2>6 DEF FreeWindow
    <2>10. \A f, c \in BOOLEAN : LET a == AckOf(r, f, c)
                                 IN  /\ a \in AckState
                                     /\ a.id = r.id /\ a.seq = r.next
                                     /\ a.rwnd = FreeWindow(r) /\ a.fin = f /\ a.cancel = c
      <3>1. r \in ReaderState
        BY <2>3
      <3> QED BY <3>1, AckFields, ZenonT(30)
    <2> DEFINE ends == r.end = "eof"
    <2>11. ends \in BOOLEAN /\ (p.end # "none" => ends)
      BY <1>5, <2>1, <2>2, <2>7
    <2>12. Acked(AckOf(r, ends, FALSE))
      BY <1>5
    <2> HIDE DEF ends
    <2>13. Answered(p, rd', AckOf(r, ends, FALSE))
      BY <1>5, <2>1, <2>2, <2>6, <2>9, <2>10, <2>11, Zenon DEF Answered
    <2> QED BY <2>8, <2>12, <2>13, Zenon
  <1> QED BY <1>2, <1>3, <1>4, <1>5, Zenon DEF RecvData

-----------------------------------------------------------------------------
(* The stream manager in the composition. *)

\* What a step of the whole does to the stream manager.
ManagerStep ==
    \/ ReadLoop \/ SenderLoop \/ SendReturns \/ SendFails
    \/ \E s \in Stream : Drain(s)
    \/ AttachReader \/ ClientDisconnected \/ ActivateDiskBuffering
    \/ \E s \in Stream, rwnd, seq \in Nat : ConnectBegins(s, rwnd, seq)
    \/ ConnectConsumes \/ ConnectEnds
    \/ \E a \in AckState : RecvAck(a)
    \/ \E rwnd \in Nat : SetRwndSize(rwnd)
    \/ UNCHANGED vars

\* Its positions are not negative.
Place == cb.total \in Nat /\ diskEnd \in Nat /\ cc.seq \in Nat

\* The invariant of StreamManagerProofs holds whatever its client is.
LEMMA ManagerIInv == IInv /\ ManagerStep => IInv'
  <1> SUFFICES ASSUME IInv, ManagerStep PROVE IInv'
    OBVIOUS
  <1>1. CASE UNCHANGED vars
    BY <1>1, OtherStep
  <1>2. ASSUME NEW a \in AckState, RecvAck(a) PROVE IInv'
    <2>1. a.seq \in Nat /\ a.rwnd \in Nat
      BY RwndAssumption, SizesAssumption DEF AckState
    <2> QED BY <1>2, <2>1, RecvAckStep
  <1>3. ASSUME NEW s \in Stream, NEW rwnd \in Nat, NEW seq \in Nat,
               ConnectBegins(s, rwnd, seq)
        PROVE  IInv'
    BY <1>3, ConnectBeginsStep
  <1>4. ASSUME NEW rwnd \in Nat, SetRwndSize(rwnd) PROVE IInv'
    BY <1>4, SetRwndSizeStep
  <1> QED BY <1>1, <1>2, <1>3, <1>4, ReadLoopStep, SenderStep, DrainLoopStep, AttachStep,
             OfflineStep, ConnectConsumesStep, ConnectEndsStep, Zenon DEF ManagerStep

\* What a write does to the positions of a buffer: it moves the tail by what it
\* takes, and it leaves the head when the buffer is synchronous or has the room.
LEMMA WritePlaces ==
    ASSUME NEW b \in Buffer, NEW w \in Writer, NEW d \in Seq(Byte)
    PROVE  /\ BufWrite(b, w, d).total = b.total + Writable(b, d)
           /\ b.sync \/ Dropped(b, Len(d)) = 0 => HeadOf(BufWrite(b, w, d)) = HeadOf(b)
           /\ Writable(b, d) > 0 =>
                BufWrite(b, w, d).waiter = b.waiter /\ BufWrite(b, w, d).panic = b.panic
           /\ ~(Writable(b, d) > 0) /\ b.waiter = NoWriter =>
                BufWrite(b, w, d).waiter = w /\ BufWrite(b, w, d).panic = b.panic
  <1> DEFINE n == Writable(b, d)
             c == BufWrite(b, w, d)
  <1>1. n \in 0..Len(d) /\ (b.sync /\ n > 0 => Len(b.data) + n <= b.window)
    BY WritableType
  <1>2. /\ b.data \in Seq(Byte) /\ Len(b.data) \in Nat /\ b.window \in Nat
        /\ b.total \in Int /\ Len(d) \in Nat
    BY BufFields
  <1>3. CASE n > 0
    <2> DEFINE x == DropFirst(b.data \o SubSeq(d, 1, n), Dropped(b, n))
    <2>1. c = BufRec(x, b.total + n, b.sync, b.window, b.waiter, b.panic)
      BY <1>3, WriteRec
    <2>2. b.sync \/ Dropped(b, Len(d)) = 0 => Len(x) = Len(b.data) + n
      <3> SUFFICES ASSUME b.sync \/ Dropped(b, Len(d)) = 0 PROVE Len(x) = Len(b.data) + n
        OBVIOUS
      <3>1. Dropped(b, n) = 0
        <4>1. CASE b.sync
          <5> HIDE DEF n
          <5> QED BY <1>1, <1>2, <1>3, <4>1 DEF Dropped, Greater
        <4>2. CASE ~b.sync
          BY <4>2 DEF Writable
        <4> QED BY <4>1, <4>2
      <3>2. SubSeq(d, 1, n) \in Seq(Byte) /\ Len(SubSeq(d, 1, n)) = n
        <4> HIDE DEF n
        <4> QED BY <1>1
      <3>3. x = DropFirst(b.data \o SubSeq(d, 1, n), 0)
        BY <3>1
      <3> HIDE DEF x
      <3> DEFINE y == b.data \o SubSeq(d, 1, n)
      <3>4. y \in Seq(Byte) /\ Len(y) = Len(b.data) + n
        BY <1>2, <3>2
      <3>5. n \in Nat
        BY <1>1, <1>2
      <3> HIDE DEF y, n
      <3>6. Len(DropFirst(y, 0)) = Len(y)
        <4>1. 0 \in Nat /\ 0 <= Len(y)
          BY <1>2, <3>4, <3>5
        <4>2. Len(DropFirst(y, 0)) = Len(y) - 0
          BY <3>4, <4>1, DropType
        <4> QED BY <1>2, <3>4, <3>5, <4>2
      <3>7. x = DropFirst(y, 0)
        BY <3>3 DEF y
      <3> QED BY <3>4, <3>6, <3>7
    <2> HIDE DEF x
    <2>3. /\ c.total = b.total + n /\ c.data = x /\ c.waiter = b.waiter
          /\ c.panic = b.panic
      BY <2>1 DEF BufRec
    <2>4. b.sync \/ Dropped(b, Len(d)) = 0 => HeadOf(c) = HeadOf(b)
      <3> HIDE DEF c, n
      <3> QED BY <1>1, <1>2, <2>2, <2>3, SMTT(30) DEF HeadOf
    <2> QED BY <1>3, <2>3, <2>4
  <1>4. CASE ~(n > 0) /\ b.waiter = NoWriter
    <2>1. c = [b EXCEPT !.waiter = w]
      BY <1>4, Zenon DEF BufWrite
    <2>2. c.total = b.total /\ c.data = b.data /\ c.waiter = w /\ c.panic = b.panic
      BY <2>1 DEF Buffer
    <2>3. n = 0
      BY <1>1, <1>4
    <2> HIDE DEF n, c
    <2> QED BY <1>2, <1>4, <2>2, <2>3 DEF HeadOf, n, c
  <1>5. CASE ~(n > 0) /\ b.waiter # NoWriter
    <2> DEFINE yes == TRUE
    <2>1. c = [b EXCEPT !.panic = yes]
      BY <1>5, Zenon DEF BufWrite
    <2> HIDE DEF yes
    <2>2. c.total = b.total /\ c.data = b.data
      BY <2>1 DEF Buffer
    <2>3. n = 0
      BY <1>1, <1>5
    <2> HIDE DEF n, c
    <2> QED BY <1>2, <1>5, <2>2, <2>3 DEF HeadOf, n, c
  <1> QED BY <1>3, <1>4, <1>5

\* A new position as such.
LEMMA TotalPlaces ==
    ASSUME NEW b \in Buffer, NEW total
    PROVE  /\ BufSetTotal(b, total).total = total
           /\ BufSetTotal(b, total).waiter = b.waiter /\ BufSetTotal(b, total).panic = b.panic
           /\ total = b.total => BufSetTotal(b, total) = b
  BY DEF BufSetTotal, Buffer

\* A new window leaves the tail, and the head of a buffer that stays synchronous.
LEMMA WindowPlaces ==
    ASSUME NEW b \in Buffer, NEW sync \in BOOLEAN, NEW window \in Nat
    PROVE  /\ BufSetWindow(b, sync, window).total = b.total
           /\ sync => HeadOf(BufSetWindow(b, sync, window)) = HeadOf(b)
           /\ BufSetWindow(b, sync, window).panic = b.panic
           /\ BufSetWindow(b, sync, window).waiter \in {b.waiter, NoWriter}
           /\ b.sync /\ ~sync => BufSetWindow(b, sync, window).waiter = NoWriter
  <1> DEFINE c == BufSetWindow(b, sync, window)
  <1>1. c.total = b.total /\ (sync => Len(c.data) = Len(b.data))
    BY WindowType
  <1>2. sync => HeadOf(c) = HeadOf(b)
    BY <1>1 DEF HeadOf
  <1> DEFINE w    == Lesser(window, CirBufSize)
             over == IF sync THEN 0 ELSE Greater(0, Len(b.data) - w)
             x    == DropFirst(b.data, over)
             u    == IF b.sync /\ (w > b.window \/ ~sync) THEN NoWriter ELSE b.waiter
  <1>3. c = BufRec(x, b.total, sync, w, u, b.panic)
    BY WindowRec, Zenon DEF w, over, x, u
  <1>4. u \in {b.waiter, NoWriter} /\ (b.sync /\ ~sync => u = NoWriter)
    BY Zenon
  <1> HIDE DEF w, x, u
  <1>5. c.panic = b.panic /\ c.waiter = u
    BY <1>3 DEF BufRec
  <1> QED BY <1>1, <1>2, <1>4, <1>5, Zenon

\* Consuming leaves the tail, moves the head, and wakes the writer.
LEMMA ConsumePlaces ==
    ASSUME NEW b \in Buffer, NEW n \in Nat, n <= Len(b.data)
    PROVE  /\ HeadOf(BufConsume(b, n)) = HeadOf(b) + n
           /\ BufConsume(b, n).waiter = NoWriter /\ BufConsume(b, n).panic = b.panic
  <1>1. BufConsume(b, n).total = b.total /\ Len(BufConsume(b, n).data) = Len(b.data) - n
    BY ConsumeType
  <1>2. BufConsume(b, n) = BufRec(DropFirst(b.data, n), b.total, b.sync,
                                  b.window, NoWriter, b.panic)
    BY ConsumeRec
  <1>3. b.total \in Int /\ Len(b.data) \in Nat
    BY BufFields
  <1>4. HeadOf(BufConsume(b, n)) = HeadOf(b) + n
    BY <1>1, <1>3 DEF HeadOf
  <1>5. BufConsume(b, n).waiter = NoWriter /\ BufConsume(b, n).panic = b.panic
    BY <1>2 DEF BufRec
  <1> QED BY <1>4, <1>5

\* The buffer after ClientDisconnected.
LEMMA DisconnectPlaces ==
    ASSUME IInv, Disconnect
    PROVE  /\ cb'.total = cb.total /\ cb'.panic = cb.panic
           /\ cb'.waiter \in {cb.waiter, NoWriter}
           /\ ~connected => cb' = cb
           /\ connected => cb'.waiter = NoWriter /\ drainGen' = drainGen + 1
           /\ ~connected'
  <1>0. cb \in Buffer /\ CirBufSize \in Nat /\ (connected => cb.sync) /\ connected \in BOOLEAN
    BY CirBufSizeAssumption DEF IInv, Types, BufferType, FlowControl, LinkType
  <1>1. CASE connected
    <2>1. cb' = BufSetWindow(cb, FALSE, CirBufSize) /\ drainGen' = drainGen + 1 /\ ~connected'
      BY <1>1, Zenon DEF Disconnect
    <2>2. \A sync \in BOOLEAN :
            /\ BufSetWindow(cb, sync, CirBufSize).total = cb.total
            /\ BufSetWindow(cb, sync, CirBufSize).panic = cb.panic
            /\ BufSetWindow(cb, sync, CirBufSize).waiter \in {cb.waiter, NoWriter}
            /\ cb.sync /\ ~sync => BufSetWindow(cb, sync, CirBufSize).waiter = NoWriter
      BY <1>0, WindowPlaces
    <2> QED BY <1>0, <1>1, <2>1, <2>2, Zenon
  <1>2. CASE ~connected
    BY <1>2, Zenon DEF Disconnect
  <1> QED BY <1>1, <1>2

\* The buffer when the window opens, or changes.
LEMMA OpenWindowPlaces ==
    ASSUME NEW b \in Buffer, NEW rwnd \in Nat, NEW c,
           c = BufSetWindow(b, TRUE, EffectiveWindow(rwnd))
    PROVE  /\ c \in Buffer /\ c.sync /\ c.total = b.total /\ HeadOf(c) = HeadOf(b)
           /\ Len(c.data) = Len(b.data)
           /\ c.panic = b.panic /\ c.waiter \in {b.waiter, NoWriter}
  <1>1. EffectiveWindow(rwnd) \in Nat
    BY WindowBound
  <1>2. \A sync \in BOOLEAN :
          LET d == BufSetWindow(b, sync, EffectiveWindow(rwnd))
          IN  /\ d \in Buffer /\ d.sync = sync /\ d.total = b.total
              /\ sync => HeadOf(d) = HeadOf(b) /\ Len(d.data) = Len(b.data)
              /\ d.panic = b.panic /\ d.waiter \in {b.waiter, NoWriter}
    BY <1>1, WindowType, WindowPlaces
  <1> QED BY <1>2, Zenon

\* The buffer when the client's position consumes of it: what the client has is
\* gone, and the tail moves to the client when it is past it.
LEMMA ConsumePlace ==
    ASSUME IInv, ConnectConsumes, cc.head = HeadOf(cb)
    PROVE  /\ cb'.total = Greater(cb.total, cc.seq)
           /\ HeadOf(cb') = cc.seq
           /\ cb'.waiter = NoWriter /\ cb'.panic = cb.panic
  <1> DEFINE n == cc.seq - cc.head
             k == Len(cb.data)
             c == BufSetTotal(cb, cc.seq)
  <1>1. /\ cb \in Buffer /\ k \in Nat /\ n \in Nat /\ cc.seq \in Int /\ cb.total \in Int
    <2>1. cb \in Buffer /\ cc.seq \in Int /\ cc.head \in Int /\ cc.head < cc.seq
      BY DEF ConnectConsumes, IInv, Types, BufferType, Locked, CallType, CallState
    <2> QED BY <2>1, BufFields
  <1>2. cc.head = cb.total - k
    BY DEF HeadOf
  <1>3. CASE n > k
    <2>1. cb' = BufConsume(c, k)
      BY <1>3, TotalPlaces, <1>1, Zenon DEF ConnectConsumes
    <2>2. c \in Buffer /\ c.data = cb.data /\ c.total = cc.seq /\ c.panic = cb.panic
      BY <1>1, TotalType, TotalPlaces
    <2>3. k <= Len(c.data)
      BY <1>1, <2>2
    <2>4. /\ HeadOf(BufConsume(c, k)) = HeadOf(c) + k
          /\ BufConsume(c, k).waiter = NoWriter /\ BufConsume(c, k).panic = c.panic
          /\ BufConsume(c, k).total = c.total
      BY <1>1, <2>2, <2>3, ConsumePlaces, ConsumeType
    <2>5. HeadOf(c) = cc.seq - k
      BY <2>2 DEF HeadOf
    <2> HIDE DEF c
    <2>6. cc.seq > cb.total
      BY <1>1, <1>2, <1>3
    <2>7. HeadOf(cb') = cc.seq
      BY <1>1, <2>1, <2>4, <2>5
    <2> QED BY <1>1, <2>1, <2>2, <2>4, <2>6, <2>7 DEF Greater
  <1>4. CASE ~(n > k)
    <2>1. cb' = BufConsume(cb, n)
      BY <1>4, Zenon DEF ConnectConsumes
    <2>2. n <= k
      BY <1>1, <1>4
    <2>3. /\ HeadOf(BufConsume(cb, n)) = HeadOf(cb) + n
          /\ BufConsume(cb, n).waiter = NoWriter /\ BufConsume(cb, n).panic = cb.panic
          /\ BufConsume(cb, n).total = cb.total
      BY <1>1, <2>2, ConsumePlaces, ConsumeType
    <2>4. cc.head \in Int /\ HeadOf(cb) = cc.head
      BY DEF IInv, Types, CallType, CallState
    <2>5. HeadOf(cb) + n = cc.seq
      BY <1>1, <2>4
    <2>6. ~(cb.total > cc.seq) => cc.seq = cb.total
      <3> HIDE DEF k
      <3> QED BY <1>1, <1>2, <2>2, <2>4
    <2> QED BY <1>1, <2>1, <2>3, <2>5, <2>6 DEF Greater
  <1> QED BY <1>3, <1>4

\* The positions stay what they are, or become other positions.
LEMMA PlaceStep == IInv /\ Place /\ ManagerStep => Place'
  <1> SUFFICES ASSUME IInv, Place, ManagerStep PROVE Place'
    OBVIOUS
  <1>0. /\ cb \in Buffer /\ cb.total \in Nat /\ diskEnd \in Nat /\ cc.seq \in Nat
        /\ rl.data \in Seq(Byte) /\ Len(rl.data) \in Nat /\ Len(cb.data) \in Nat
        /\ CirBufSize \in Nat
    BY BufFields, CirBufSizeAssumption
       DEF IInv, Types, BufferType, ReadType, ReadLoopState, Place
  <1>1. CASE UNCHANGED <<cb, diskEnd, cc>>
    BY <1>1 DEF Place
  <1>2. CASE ReadLoop
    <2>1. CASE StoreOnDisk
      BY <1>0, <2>1 DEF StoreOnDisk, Place
    <2>2. CASE DiskWriteFails
      BY <1>0, <2>2 DEF DiskWriteFails, Place
    <2>3. CASE StoreInBuffer
      <3>1. cb' = BufWrite(cb, Loop, rl.data) /\ Loop \in Writer /\ UNCHANGED <<diskEnd, cc>>
        BY <2>3, WriterAssumption DEF StoreInBuffer
      <3>2. cb'.total = cb.total + Writable(cb, rl.data) /\ Writable(cb, rl.data) \in 0..Len(rl.data)
        BY <1>0, <3>1, WritePlaces, WritableType
      <3> QED BY <1>0, <3>1, <3>2 DEF Place
    <2>4. CASE UNCHANGED <<cb, diskEnd, cc>>
      BY <1>1, <2>4
    <2> QED BY <1>2, <2>1, <2>2, <2>3, <2>4
            DEF ReadLoop, ReadData, DiskFileChanged, ReadEnds
  <1>3. ASSUME Activate, cb' = cb, cc' = cc PROVE Place'
    BY <1>0, <1>3 DEF Activate, Place
  <1>4. ASSUME Disconnect, diskEnd' = diskEnd, cc' = cc PROVE Place'
    BY <1>0, <1>4, DisconnectPlaces DEF Place
  <1>5. CASE SenderLoop
    BY <1>1, <1>3, <1>4, <1>5 DEF SenderLoop, SenderStops, SenderWaits, PrepareBytes,
       PrepareTerminal, FailureDisconnects, FailureActivates, Disconnect, Activate
  <1>6. ASSUME NEW b, b \in Buffer, Deactivated(b), cc' = cc \/ cc' = Idle PROVE Place'
    <2>1. cb' = BufSetTotal(b, diskEnd) /\ diskEnd' = 0
      BY <1>6 DEF Deactivated
    <2> QED BY <1>0, <1>6, <2>1, TotalPlaces DEF Place, Idle
  <1>7. ASSUME NEW s \in Stream, Drain(s) PROVE Place'
    <2>1. CASE DrainWrites(s)
      <3>1. /\ cb' = BufWrite(cb, s, drains[s].data) /\ s \in Writer
            /\ drains[s].data \in Seq(Byte) /\ Len(drains[s].data) \in Nat
            /\ UNCHANGED <<diskEnd, cc>>
        BY <2>1, WriterAssumption DEF DrainWrites, IInv, Types, DrainType, DrainState
      <3>2. /\ cb'.total = cb.total + Writable(cb, drains[s].data)
            /\ Writable(cb, drains[s].data) \in 0..Len(drains[s].data)
        BY <1>0, <3>1, WritePlaces, WritableType
      <3> QED BY <1>0, <3>1, <3>2 DEF Place
    <2>2. CASE DrainEnds(s)
      BY <1>0, <1>1, <1>6, <2>2 DEF DrainEnds
    <2>3. CASE UNCHANGED <<cb, diskEnd, cc>>
      BY <1>1, <2>3
    <2> QED BY <1>7, <2>1, <2>2, <2>3 DEF Drain, DrainGivesUp, DrainReads, DrainChecks,
               DrainUpdates, DrainCatchesUp, DrainRepeats
  <1>8. ASSUME NEW s \in Stream, NEW rwnd \in Nat, NEW seq \in Nat, ConnectBegins(s, rwnd, seq)
        PROVE  Place'
    <2> DEFINE at == Lesser(seq, Greater(cb.total, diskEnd))
               p  == IF at > HeadOf(cb) THEN "consume" ELSE "window"
    <2>1. at \in Nat
      BY <1>0 DEF Lesser, Greater
    <2>2. cc' = [pc |-> p, id |-> s, rwnd |-> rwnd, seq |-> at, head |-> HeadOf(cb)]
      BY <1>8, Zenon DEF ConnectBegins
    <2>3. cb' = cb /\ diskEnd' = diskEnd
      BY <1>8 DEF ConnectBegins
    <2> HIDE DEF at, p
    <2> QED BY <1>0, <2>1, <2>2, <2>3 DEF Place
  <1>9. CASE ConnectConsumes
    <2>0. /\ cc \in CallState /\ cc.head \in Int /\ cc.head < cc.seq /\ diskEnd' = diskEnd
      BY <1>9 DEF ConnectConsumes, IInv, Types, CallType, CallState, Locked
    <2> DEFINE n == cc.seq - cc.head
    <2>1. n \in Nat
      BY <1>0, <2>0
    <2>4. cb'.total \in Nat
      <3>1. CASE n > Len(cb.data)
        <4> DEFINE c == BufSetTotal(cb, cc.seq)
        <4>1. cb' = BufConsume(c, Len(cb.data))
          BY <1>9, <3>1, Zenon DEF ConnectConsumes
        <4>2. c \in Buffer /\ c.data = cb.data /\ c.total = cc.seq
          <5>1. cb \in Buffer /\ cc.seq \in Int
            BY <1>0
          <5> QED BY <5>1, TotalType, TotalPlaces
        <4> HIDE DEF c
        <4>3. Len(cb.data) <= Len(c.data)
          BY <1>0, <4>2
        <4> QED BY <1>0, <4>1, <4>2, <4>3, ConsumeType
      <3>2. CASE ~(n > Len(cb.data))
        <4>1. cb' = BufConsume(cb, n) /\ n <= Len(cb.data)
          BY <1>0, <1>9, <2>1, <3>2 DEF ConnectConsumes
        <4> HIDE DEF n
        <4> QED BY <1>0, <2>1, <4>1, ConsumeType
      <3> QED BY <3>1, <3>2
    <2>5. cc'.seq = cc.seq
      <3>1. cc' = [cc EXCEPT !.pc = "window", !.head = HeadOf(cb')]
        BY <1>9 DEF ConnectConsumes
      <3> DEFINE x == HeadOf(cb')
      <3>2. cc' = [cc EXCEPT !.pc = "window", !.head = x]
        BY <3>1
      <3> HIDE DEF x
      <3> QED BY <2>0, <3>2 DEF CallState
    <2> QED BY <1>0, <2>0, <2>4, <2>5 DEF Place
  <1>10. CASE ConnectEnds
    <2> DEFINE b == BufSetWindow(cb, TRUE, EffectiveWindow(cc.rwnd))
    <2>1. cc.rwnd \in Nat
      BY DEF IInv, Types, CallType, CallState
    <2>2. b \in Buffer /\ b.total = cb.total
      BY <1>0, <2>1, OpenWindowPlaces
    <2>3. \/ cb' = b /\ diskEnd' = diskEnd
          \/ Deactivated(b)
      BY <1>10 DEF ConnectEnds
    <2>4. cc' = Idle
      BY <1>10 DEF ConnectEnds
    <2> HIDE DEF b
    <2> QED BY <1>0, <1>6, <2>2, <2>3, <2>4 DEF Place, Idle
  <1>11. ASSUME NEW a \in AckState, RecvAck(a) PROVE Place'
    <2>1. diskEnd' = diskEnd /\ cc' = cc /\ a.seq \in Nat /\ a.rwnd \in Nat
      BY <1>11, RwndAssumption, SizesAssumption DEF RecvAck, AckState
    <2>2. cb'.total = cb.total
      <3>1. CASE cb' = cb
        BY <3>1
      <3>2. CASE RecvFresh(a) /\ Acknowledges(a)
        <4> DEFINE acked == a.seq - HeadOf(cb)
                   b     == IF acked > 0 THEN BufConsume(cb, acked) ELSE cb
        <4>1. cb' = BufSetWindow(b, TRUE, EffectiveWindow(a.rwnd))
          BY <3>2, Zenon DEF RecvFresh
        <4>2. acked \in Nat /\ acked <= Len(cb.data)
          BY <1>0, <2>1, <3>2 DEF Acknowledges, CanConsume, HeadOf
        <4> HIDE DEF acked
        <4>3. b \in Buffer /\ b.total = cb.total
          BY <1>0, <4>2, ConsumeType
        <4> HIDE DEF b
        <4>4. a.rwnd \in Nat
          BY <2>1
        <4>5. cb'.total = b.total
          BY <4>1, <4>3, <4>4, OpenWindowPlaces, Zenon
        <4> QED BY <4>3, <4>5
      <3> QED BY <1>11, <3>1, <3>2, Zenon DEF RecvAck, RecvFin, RecvFresh, RecvIgnored
    <2> QED BY <1>0, <2>1, <2>2 DEF Place
  <1>12. ASSUME NEW rwnd \in Nat, SetRwndSize(rwnd) PROVE Place'
    <2>1. cb' = BufSetWindow(cb, TRUE, EffectiveWindow(rwnd)) /\ UNCHANGED <<diskEnd, cc>>
      BY <1>12 DEF SetRwndSize
    <2>2. cb'.total = cb.total
      BY <1>0, <2>1, OpenWindowPlaces, Zenon
    <2> QED BY <1>0, <2>1, <2>2 DEF Place
  <1>13. CASE ClientDisconnected \/ ActivateDiskBuffering
    BY <1>3, <1>4, <1>13
       DEF ClientDisconnected, ActivateDiskBuffering, Disconnect, Activate
  <1>14. CASE SendReturns \/ SendFails \/ AttachReader \/ UNCHANGED vars
    BY <1>1, <1>14 DEF SendReturns, SendFails, AttachReader, vars
  <1> QED BY <1>2, <1>5, <1>7, <1>8, <1>9, <1>10, <1>11, <1>12, <1>13, <1>14, Zenon
          DEF ManagerStep

-----------------------------------------------------------------------------
(* The inductive invariant of the whole. *)

HandlerState ==
    [pc : {"idle", "disconnect", "activate", "connect", "connecting", "attach"},
     id : Stream, seq : Nat, job : BOOLEAN]
CallerState ==
    [pc : {"run", "ask", "wait", "resp", "start", "startok", "failed"},
     seq : Nat, done : BOOLEAN]

\* A packet carries bytes or an end, never both or neither.
Shaped(p) == p.data = <<>> <=> p.end # "none"

\* Everything names a stream that was made: nothing is known of the next one.
NetInv      == /\ up \in BOOLEAN /\ live \subseteq Stream /\ attached \subseteq 1..cur
               /\ faults \in 0..MaxFaults
ProgressInv == loop \in BOOLEAN /\ done \in BOOLEAN /\ file \in Seq(Byte) /\ gap \in Nat
CallerInv   == /\ cur \in Stream /\ cl \in CallerState
               /\ cl.pc \in {"ask", "resp", "start"} => cur > 1
HandlerInv  == /\ h \in HandlerState /\ h.id <= cur
               /\ h.job <=> h.id = 1
               /\ h.pc = "attach" => h.job
ReaderInv   == /\ rd \in ReaderState /\ Bounded(rd.ooo) /\ rd.id = cur
               /\ \A q \in rd.ooo : Shaped(q)
DataInv     == /\ dnet \in Seq(Packet)
               /\ \A p \in Elements(dnet) : p.id <= cur /\ Shaped(p)
AckInv      == anet \in Seq(AckState) /\ \A a \in Elements(anet) : a.id <= cur
PacketInv   == pkt # NoPacket => pkt.id <= cur /\ Shaped(pkt)
OwnerInv    == streamId # NoStream => streamId <= cur
CallInv     == cc.pc # "idle" =>
                   /\ h.pc = "connecting" /\ cc.id = h.id
                   /\ cc.rwnd = IF h.job THEN Rwnd ELSE 0

\* A restart has begun and its reader may not be sent bytes yet.
Corked == cur > 1 /\ rd.open /\ cl.pc \in {"ask", "wait", "resp", "start"}

\* Then the job manager's window for it is closed, no acknowledgement opens it,
\* and at most the end of the stream is on its way.
CorkSend ==
    Corked => /\ cur \notin attached
              /\ connected /\ streamId = cur => rwndSize = 0
              /\ pkt.id = cur => pkt.data = <<>>
CorkRead ==
    Corked => /\ \A p \in Elements(dnet) : p.id = cur => p.data = <<>>
              /\ \A q \in rd.ooo : q.data = <<>>
              /\ rd.buf = <<>>
              /\ \A a \in Elements(anet) : a.id = cur => a.fin

DInv == /\ IInv /\ Place
        /\ NetInv /\ ProgressInv /\ CallerInv /\ HandlerInv /\ ReaderInv
        /\ DataInv /\ AckInv /\ PacketInv /\ OwnerInv /\ CallInv
        /\ CorkSend /\ CorkRead /\ Aligned

\* The parts of the invariant that a step leaves alone.
LEMMA DFrame ==
    ASSUME DInv
    PROVE  /\ UNCHANGED <<up, live, attached, faults, cur>> => NetInv'
           /\ UNCHANGED <<loop, done, file, gap>> => ProgressInv'
           /\ UNCHANGED <<cur, cl>> => CallerInv'
           /\ UNCHANGED <<cur, h>> => HandlerInv'
           /\ UNCHANGED <<cur, rd>> => ReaderInv'
           /\ UNCHANGED <<cur, dnet>> => DataInv'
           /\ UNCHANGED <<cur, anet>> => AckInv'
           /\ cur' = cur /\ pkt' \in {pkt, NoPacket} => PacketInv'
           /\ UNCHANGED <<cur, streamId>> => OwnerInv'
           /\ UNCHANGED <<cc, h>> => CallInv'
           /\ UNCHANGED <<file, gap, rd>> => Aligned'
  <1> USE DEF DInv
  <1>1. /\ UNCHANGED <<up, live, attached, faults, cur>> => NetInv'
        /\ UNCHANGED <<loop, done, file, gap>> => ProgressInv'
        /\ UNCHANGED <<cur, cl>> => CallerInv'
        /\ UNCHANGED <<cur, h>> => HandlerInv'
    BY DEF NetInv, ProgressInv, CallerInv, HandlerInv
  <1>2. /\ UNCHANGED <<cur, rd>> => ReaderInv'
        /\ UNCHANGED <<cur, dnet>> => DataInv'
        /\ UNCHANGED <<cur, anet>> => AckInv'
    BY DEF ReaderInv, DataInv, AckInv
  <1>3. /\ cur' = cur /\ pkt' \in {pkt, NoPacket} => PacketInv'
        /\ UNCHANGED <<cur, streamId>> => OwnerInv'
        /\ UNCHANGED <<cc, h>> => CallInv'
    BY DEF PacketInv, OwnerInv, CallInv
  <1>4. UNCHANGED <<file, gap, rd>> => Aligned'
    BY DEF Aligned, Position
  <1> QED BY <1>1, <1>2, <1>3, <1>4

\* The cork, when a step leaves what it is about alone.
LEMMA CorkFrame ==
    ASSUME DInv, cur' = cur,
           UNCHANGED <<cl, rd>> \/ (Corked' => Corked)
    PROVE  /\ /\ attached' \subseteq attached
              /\ pkt' \in {pkt, NoPacket}
              /\ connected' /\ streamId' = cur =>
                   connected /\ streamId = cur /\ rwndSize' = rwndSize
              => CorkSend'
           /\ UNCHANGED <<rd, dnet, anet>> => CorkRead'
  <1>1. Corked' => Corked
    BY DEF Corked
  <1>2. /\ attached' \subseteq attached
        /\ pkt' \in {pkt, NoPacket}
        /\ connected' /\ streamId' = cur =>
             connected /\ streamId = cur /\ rwndSize' = rwndSize
        => CorkSend'
    <2>1. NoPacket.data = <<>>
      BY DEF NoPacket
    <2> QED BY <1>1, <2>1 DEF DInv, CorkSend
  <1>3. UNCHANGED <<rd, dnet, anet>> => CorkRead'
    BY <1>1 DEF DInv, CorkRead
  <1> QED BY <1>2, <1>3

\* A step that only the stream manager takes part in.
LEMMA ManagerOnly ==
    ASSUME DInv, IInv', Place',
           UNCHANGED <<netVars, h, clientVars, cc, streamId>>,
           pkt' \in {pkt, NoPacket},
           connected' => connected /\ rwndSize' = rwndSize
    PROVE  DInv'
  <1>1. CorkSend' /\ CorkRead'
    BY CorkFrame
  <1> QED BY <1>1, DFrame DEF DInv

\* Streams are numbered from 1.
LEMMA StreamNumbers ==
    /\ Stream = 1..MaxStreams /\ MaxStreams \in Nat \ {0} /\ NoStream \notin Stream
    /\ Stream \subseteq Nat
  BY StreamAssumption, WriterAssumption

\* The read loop keeps the invariant.
LEMMA ReadLoopKeepsD == ASSUME DInv, ReadLoopRuns PROVE DInv'
  <1>1. IInv' /\ Place'
    BY ManagerIInv, PlaceStep DEF ReadLoopRuns, ManagerStep, DInv
  <1>2. /\ UNCHANGED <<netVars, h, clientVars, cc, streamId, connected, rwndSize, pkt>>
    BY DEF ReadLoopRuns, ReadLoop, ReadData, StoreOnDisk, DiskWriteFails, DiskFileChanged,
           StoreInBuffer, ReadEnds
  <1> QED BY <1>1, <1>2, ManagerOnly

\* So does a drain.
LEMMA DrainKeepsD == ASSUME DInv, NEW s \in Stream, DrainRuns(s) PROVE DInv'
  <1>1. IInv' /\ Place'
    BY ManagerIInv, PlaceStep DEF DrainRuns, ManagerStep, DInv
  <1>2. UNCHANGED <<netVars, h, clientVars, cc, streamId, connected, rwndSize, pkt>>
    BY DEF DrainRuns, Drain, DrainGivesUp, DrainReads, DrainChecks, DrainWrites,
           DrainUpdates, DrainCatchesUp, DrainRepeats, DrainEnds
  <1> QED BY <1>1, <1>2, ManagerOnly

\* What the sender prepares: an end, or bytes when the window is open.
LEMMA PreparedPacket ==
    ASSUME IInv, PrepareBytes \/ PrepareTerminal
    PROVE  /\ pkt' # NoPacket /\ pkt'.id = streamId /\ Shaped(pkt') /\ connected
           /\ rwndSize = 0 => pkt'.data = <<>>
  <1>0. /\ connected /\ streamId \in Stream /\ streamId # NoStream
        /\ rwndSize \in Nat /\ sentNotAcked \in Nat /\ Cwnd \in Nat
        /\ term \in {"none", "eof", "err"}
    BY SizesAssumption, WriterAssumption
       DEF IInv, Types, LinkType, AckType, TermType, FlowControl, PrepareBytes, PrepareTerminal
  <1>1. CASE PrepareBytes
    <2>1. pkt' = [id |-> streamId, seq |-> HeadOf(cb) + sentNotAcked,
                  data |-> NextBytes, end |-> "none"]
      BY <1>1 DEF PrepareBytes
    <2>2. NextBytes # <<>> /\ Credit > 0
      BY <1>1 DEF PrepareBytes, BytesDue
    <2>3. rwndSize # 0
      BY <1>0, <2>2 DEF Credit, EffectiveWindow, Lesser
    <2>4. pkt'.id = streamId /\ pkt'.data = NextBytes /\ pkt'.end = "none"
      BY <2>1
    <2> QED BY <1>0, <2>2, <2>3, <2>4 DEF Shaped, NoPacket
  <1>2. CASE PrepareTerminal
    <2>1. pkt' = [id |-> streamId, seq |-> eofPos, data |-> <<>>, end |-> term]
      BY <1>2 DEF PrepareTerminal
    <2>2. term # "none"
      BY <1>2 DEF PrepareTerminal, TerminalDue
    <2> QED BY <1>0, <2>1, <2>2 DEF Shaped, NoPacket
  <1> QED BY <1>1, <1>2

\* So does the sender loop.
LEMMA SenderKeepsD == ASSUME DInv, SenderLoopRuns PROVE DInv'
  <1>1. IInv' /\ Place'
    BY ManagerIInv, PlaceStep DEF SenderLoopRuns, ManagerStep, DInv
  <1>2. UNCHANGED <<netVars, h, clientVars>>
    BY DEF SenderLoopRuns
  <1>3. CASE SenderStops \/ SenderWaits \/ FailureDisconnects \/ FailureActivates
    <2>1. UNCHANGED <<cc, streamId, pkt>> /\ (connected' => connected /\ rwndSize' = rwndSize)
      <3>1. CASE SenderStops \/ SenderWaits \/ FailureActivates
        <4>1. UNCHANGED <<cc, streamId, pkt, connected, rwndSize>>
          BY <3>1 DEF SenderStops, SenderWaits, FailureActivates, Activate
        <4> QED BY <4>1, Zenon
      <3>2. CASE FailureDisconnects
        BY <3>2, Zenon DEF FailureDisconnects, Disconnect
      <3> QED BY <1>3, <3>1, <3>2
    <2> QED BY <1>1, <1>2, <2>1, ManagerOnly
  <1>4. CASE PrepareBytes \/ PrepareTerminal
    <2>1. /\ UNCHANGED <<cc, streamId, connected, rwndSize>>
          /\ IInv
      BY <1>4 DEF PrepareBytes, PrepareTerminal, DInv
    <2>2. /\ pkt' # NoPacket /\ pkt'.id = streamId /\ Shaped(pkt') /\ connected
          /\ rwndSize = 0 => pkt'.data = <<>>
      BY <1>4, <2>1, PreparedPacket
    <2>3. streamId # NoStream
      BY <2>1, <2>2 DEF IInv, FlowControl
    <2>4. PacketInv'
      BY <1>2, <2>2, <2>3 DEF DInv, OwnerInv, PacketInv
    <2>5. CorkSend'
      BY <1>2, <2>1, <2>2 DEF DInv, CorkSend, Corked
    <2>6. CorkRead'
      BY <1>2, CorkFrame
    <2> QED BY <1>1, <1>2, <2>1, <2>4, <2>5, <2>6, DFrame DEF DInv
  <1> QED BY <1>3, <1>4 DEF SenderLoopRuns, SenderLoop

\* A packet that the network carries is one more on its way, or lost.
LEMMA DeliveredEffect ==
    ASSUME DInv, Delivered
    PROVE  /\ dnet' \in Seq(Packet)
           /\ \A p \in Elements(dnet') : p \in Elements(dnet) \/ (p = pkt /\ pkt \in Packet)
  <1>1. dnet \in Seq(Packet)
    BY DEF DInv, DataInv
  <1>2. CASE dnet' = dnet
    BY <1>1, <1>2
  <1>3. CASE pkt.id \in live /\ dnet' = Append(dnet, pkt)
    <2>1. pkt \in Packet
      <3>1. live \subseteq Stream /\ pkt \in Packet \union {NoPacket}
        BY DEF DInv, NetInv, IInv, Types, PktType
      <3>2. NoPacket.id = NoStream
        BY DEF NoPacket
      <3> QED BY <1>3, <3>1, <3>2, StreamNumbers
    <2>2. /\ dnet' \in Seq(Packet) /\ Len(dnet') = Len(dnet) + 1 /\ Len(dnet) \in Nat
          /\ \A i \in 1..Len(dnet) : dnet'[i] = dnet[i]
          /\ dnet'[Len(dnet) + 1] = pkt
      BY <1>1, <1>3, <2>1
    <2>3. ASSUME NEW i \in DOMAIN dnet' PROVE dnet'[i] \in Elements(dnet) \/ dnet'[i] = pkt
      <3>1. i \in 1..(Len(dnet) + 1)
        BY <2>2
      <3>2. CASE i = Len(dnet) + 1
        BY <2>2, <3>2
      <3>3. CASE i \in 1..Len(dnet)
        BY <1>1, <2>2, <3>3 DEF Elements
      <3> QED BY <2>2, <3>1, <3>2, <3>3
    <2> QED BY <2>1, <2>2, <2>3 DEF Elements
  <1> QED BY <1>2, <1>3 DEF Delivered

\* A packet that is sent, or that timed out, keeps the invariant.
LEMMA SendKeepsD == ASSUME DInv, Sent \/ SendTimesOut PROVE DInv'
  <1>1. IInv' /\ Place'
    BY ManagerIInv, PlaceStep DEF Sent, SendTimesOut, ManagerStep, DInv
  <1>2. /\ UNCHANGED <<up, live, attached, anet, h, clientVars, cc, streamId,
                       connected, rwndSize>>
        /\ pkt' \in {pkt, NoPacket} /\ Delivered
    BY DEF Sent, SendTimesOut, SendReturns, SendFails
  <1>3. faults' \in 0..MaxFaults
    <2>1. faults \in 0..MaxFaults /\ MaxFaults \in Nat
      BY FaultAssumption DEF DInv, NetInv
    <2> QED BY <2>1 DEF Sent, SendTimesOut
  <1>4. NetInv'
    BY <1>2, <1>3 DEF DInv, NetInv
  <1>5. /\ dnet' \in Seq(Packet)
        /\ \A p \in Elements(dnet') : p \in Elements(dnet) \/ (p = pkt /\ pkt \in Packet)
    BY <1>2, DeliveredEffect
  <1>6. pkt \in Packet => pkt # NoPacket
    BY StreamNumbers DEF Packet, NoPacket
  <1>7. DataInv'
    BY <1>2, <1>5, <1>6 DEF DInv, DataInv, PacketInv
  <1>8. CorkSend'
    BY <1>2, CorkFrame
  <1>9. CorkRead'
    BY <1>2, <1>5 DEF DInv, CorkSend, CorkRead, Corked
  <1> QED BY <1>1, <1>2, <1>4, <1>7, <1>8, <1>9, DFrame DEF DInv

\* The rest of a channel when its first element is taken.
LEMMA TailElements ==
    ASSUME NEW S, NEW s \in Seq(S), s # <<>>
    PROVE  /\ Head(s) \in S /\ Head(s) \in Elements(s)
           /\ Tail(s) \in Seq(S) /\ Elements(Tail(s)) \subseteq Elements(s)
  <1>1. /\ Len(s) \in Nat /\ Len(s) > 0 /\ DOMAIN s = 1..Len(s) /\ Head(s) = s[1]
        /\ Tail(s) \in Seq(S) /\ Len(Tail(s)) = Len(s) - 1
    OBVIOUS
  <1>2. ASSUME NEW i \in DOMAIN Tail(s) PROVE Tail(s)[i] \in Elements(s)
    <2>1. i \in 1..(Len(s) - 1) /\ Tail(s)[i] = s[i + 1]
      BY <1>1
    <2> QED BY <1>1, <2>1 DEF Elements
  <1> QED BY <1>1, <1>2 DEF Elements

\* A packet that arrives keeps the invariant.
LEMMA DataKeepsD == ASSUME DInv, DataArrives PROVE DInv'
  <1>0. UNCHANGED <<vars, up, live, attached, faults, h, cur, cl, loop, file, gap, done>>
    BY DEF DataArrives
  <1>1. IInv' /\ Place'
    BY <1>0, ManagerIInv, PlaceStep DEF ManagerStep, DInv
  <1> DEFINE p == Head(dnet)
  <1>2. /\ p \in Packet /\ p \in Elements(dnet) /\ dnet' = Tail(dnet)
        /\ dnet' \in Seq(Packet) /\ Elements(dnet') \subseteq Elements(dnet)
    BY TailElements DEF DataArrives, DInv, DataInv
  <1>3. p.id <= cur /\ Shaped(p)
    BY <1>2 DEF DInv, DataInv
  <1>4. RecvData(p)
    BY DEF DataArrives
  <1> HIDE DEF p
  <1>5. /\ Received(p, rd, rd')
        /\ anet' = anet \/ \E a : Answered(p, rd', a) /\ Acked(a)
    BY <1>2, <1>4, RecvDataEffect DEF DInv, ReaderInv
  <1>6. /\ rd \in ReaderState /\ rd.id = cur /\ anet \in Seq(AckState)
        /\ \A q \in rd.ooo : Shaped(q)
    BY DEF DInv, ReaderInv, AckInv
  <1>7. /\ rd' \in ReaderState /\ Bounded(rd'.ooo) /\ rd'.id = cur /\ rd'.open = rd.open
        /\ \A q \in rd'.ooo : q \in rd.ooo \/ (q = p /\ p.id = cur)
    BY <1>5, <1>6 DEF Received
  <1>8. ReaderInv'
    BY <1>0, <1>3, <1>6, <1>7 DEF ReaderInv
  <1>9. DataInv'
    BY <1>0, <1>2 DEF DInv, DataInv
  <1>10. /\ anet' \in Seq(AckState)
         /\ \A a \in Elements(anet') :
              a \in Elements(anet) \/ (Answered(p, rd', a) /\ a \in AckState)
    <2>1. CASE anet' = anet
      BY <1>6, <2>1
    <2>2. ASSUME NEW a, Answered(p, rd', a), Acked(a)
          PROVE  anet' \in Seq(AckState) /\ Elements(anet') \subseteq Elements(anet) \union {a}
      <3>1. a \in AckState
        BY <2>2 DEF Answered
      <3> QED BY <1>6, <2>2, <3>1, AckedEffect
    <2>3. ASSUME NEW a, Answered(p, rd', a) PROVE a \in AckState
      BY <2>3 DEF Answered
    <2> QED BY <1>5, <2>1, <2>2, <2>3
  <1>11. AckInv'
    <2>1. cur \in Nat
      BY StreamNumbers DEF DInv, CallerInv
    <2> QED BY <1>0, <1>7, <1>10, <2>1 DEF DInv, AckInv, Answered
  <1>12. Corked' => Corked
    BY <1>0, <1>7 DEF Corked
  <1>13. CorkSend'
    BY <1>0, <1>12, CorkFrame DEF vars
  <1>14. CorkRead'
    <2> SUFFICES ASSUME Corked
                 PROVE  /\ \A q \in Elements(dnet') : q.id = cur => q.data = <<>>
                        /\ \A q \in rd'.ooo : q.data = <<>>
                        /\ rd'.buf = <<>>
                        /\ \A a \in Elements(anet') : a.id = cur => a.fin
      BY <1>0, <1>12 DEF CorkRead
    <2>1. /\ \A q \in Elements(dnet) : q.id = cur => q.data = <<>>
          /\ \A q \in rd.ooo : q.data = <<>>
          /\ rd.buf = <<>> /\ \A a \in Elements(anet) : a.id = cur => a.fin
      BY DEF DInv, CorkRead
    <2>2. p.id = cur => p.data = <<>> /\ p.end # "none"
      BY <1>2, <1>3, <2>1 DEF Shaped
    <2>3. \A q \in rd'.ooo : q.data = <<>>
      BY <1>7, <2>1, <2>2
    <2>4. rd'.buf = <<>>
      <3>1. CASE p.id = cur
        BY <1>5, <2>1, <2>2, <3>1 DEF Received
      <3>2. CASE p.id # cur
        <4>1. rd' = rd
          BY <1>4, <1>6, <3>2 DEF RecvData
        <4> QED BY <2>1, <4>1
      <3> QED BY <3>1, <3>2
    <2>5. \A a \in Elements(anet') : a.id = cur => a.fin
      <3>1. CASE p.id = cur
        BY <1>10, <2>1, <2>2, <3>1 DEF Answered
      <3>2. CASE p.id # cur
        <4>1. anet' = anet
          BY <1>4, <1>6, <3>2 DEF RecvData
        <4> QED BY <2>1, <4>1
      <3> QED BY <3>1, <3>2
    <2> QED BY <1>2, <2>1, <2>3, <2>4, <2>5
  <1>15. Aligned'
    <2>1. Len(rd'.buf) = Len(rd.buf) + (rd'.next - rd.next)
      BY <1>5 DEF Received
    <2>2. /\ rd.next \in Nat /\ rd'.next \in Nat /\ Len(rd.buf) \in Nat /\ Len(rd'.buf) \in Nat
      BY <1>6, <1>7, ReaderFields
    <2>3. Position' = Position /\ Position \in Nat
      BY <1>0 DEF Position, DInv, ProgressInv
    <2>4. rd.open => Position + Len(rd.buf) = rd.next
      BY DEF DInv, Aligned
    <2> DEFINE n == rd.next
               m == rd'.next
               k == Len(rd.buf)
               l == Len(rd'.buf)
    <2>5. rd.open => Position + l = m
      <3>1. l = k + (m - n) /\ n \in Nat /\ m \in Nat /\ k \in Nat
        BY <2>1, <2>2
      <3>2. rd.open => Position + k = n
        BY <2>4
      <3> HIDE DEF n, m, k, l
      <3> QED BY <2>3, <3>1, <3>2
    <2> QED BY <1>7, <2>3, <2>5 DEF Aligned
  <1> QED BY <1>0, <1>1, <1>8, <1>9, <1>11, <1>13, <1>14, <1>15, DFrame DEF DInv, vars

\* Two pieces of the stream put together.
LEMMA JoinType ==
    ASSUME NEW s \in Seq(Byte), NEW t \in Seq(Byte)
    PROVE  /\ Len(s) \in Nat /\ Len(t) \in Nat /\ s \o t \in Seq(Byte)
           /\ Len(s \o t) = Len(s) + Len(t)
  OBVIOUS

\* A reader that closes says so, for its own stream.
LEMMA CloseEffect ==
    ASSUME DInv, Acked(AckOf(rd, FALSE, TRUE))
    PROVE  /\ anet' \in Seq(AckState)
           /\ \A a \in Elements(anet') : a.id <= cur
  <1>1. rd \in ReaderState /\ rd.id = cur /\ anet \in Seq(AckState) /\ cur \in Nat
    BY StreamNumbers DEF DInv, ReaderInv, AckInv, CallerInv
  <1>2. \A f, c \in BOOLEAN : AckOf(rd, f, c) \in AckState /\ AckOf(rd, f, c).id = rd.id
    BY <1>1, AckFields
  <1>3. AckOf(rd, FALSE, TRUE) \in AckState /\ AckOf(rd, FALSE, TRUE).id = cur
    BY <1>1, <1>2, Zenon
  <1>4. /\ anet' \in Seq(AckState)
        /\ Elements(anet') \subseteq Elements(anet) \union {AckOf(rd, FALSE, TRUE)}
    BY <1>1, <1>3, AckedEffect, Zenon
  <1>5. ASSUME NEW a \in Elements(anet') PROVE a.id <= cur
    <2>1. CASE a \in Elements(anet)
      BY <2>1 DEF DInv, AckInv
    <2>2. CASE a = AckOf(rd, FALSE, TRUE)
      <3>1. a.id = cur
        BY <1>3, <2>2, Zenon
      <3> QED BY <1>1, <3>1
    <2> QED BY <1>4, <1>5, <2>1, <2>2
  <1> QED BY <1>4, <1>5

\* What is left of a reader that was closed.
LEMMA ClosedReader ==
    ASSUME DInv, cur' = cur, rd' = [rd EXCEPT !.open = FALSE]
    PROVE  ReaderInv' /\ ~rd'.open
  <1>1. rd \in ReaderState
    BY DEF DInv, ReaderInv
  <1>2. rd' = ReaderRec(rd.id, rd.next, rd.buf, rd.ooo, rd.end, FALSE, rd.rwndSent)
    BY <1>1, ReaderExcept, Zenon
  <1>3. \A o \in BOOLEAN :
          /\ ReaderRec(rd.id, rd.next, rd.buf, rd.ooo, rd.end, o, rd.rwndSent) \in ReaderState
          /\ ReaderRec(rd.id, rd.next, rd.buf, rd.ooo, rd.end, o, rd.rwndSent).id = rd.id
          /\ ReaderRec(rd.id, rd.next, rd.buf, rd.ooo, rd.end, o, rd.rwndSent).ooo = rd.ooo
          /\ ReaderRec(rd.id, rd.next, rd.buf, rd.ooo, rd.end, o, rd.rwndSent).open = o
    <2> TAKE o \in BOOLEAN
    <2>1. ReaderRec(rd.id, rd.next, rd.buf, rd.ooo, rd.end, o, rd.rwndSent) \in ReaderState
      BY <1>1, ReaderFields, ReaderType, Zenon
    <2> QED BY <2>1 DEF ReaderRec
  <1>4. rd' \in ReaderState /\ rd'.id = rd.id /\ rd'.ooo = rd.ooo /\ ~rd'.open
    BY <1>2, <1>3, Zenon
  <1> QED BY <1>4 DEF DInv, ReaderInv

\* A step that closes the reader, and leaves the stream manager and the network
\* alone but for the acknowledgement that says so.
LEMMA CloseKeeps ==
    ASSUME DInv, rd' = [rd EXCEPT !.open = FALSE], Acked(AckOf(rd, FALSE, TRUE)),
           UNCHANGED <<vars, up, live, attached, dnet, faults, h, cur, file, gap>>,
           loop' \in BOOLEAN, done' \in BOOLEAN,
           cl' = cl \/ cl' = [cl EXCEPT !.pc = "run"]
    PROVE  DInv'
  <1>1. IInv' /\ Place'
    BY ManagerIInv, PlaceStep DEF ManagerStep, DInv
  <1>2. ReaderInv' /\ ~rd'.open
    BY ClosedReader
  <1>3. AckInv'
    BY CloseEffect DEF AckInv
  <1>4. CallerInv'
    BY DEF DInv, CallerInv, CallerState
  <1>5. ProgressInv'
    BY DEF DInv, ProgressInv
  <1>6. CorkSend' /\ CorkRead' /\ Aligned'
    BY <1>2 DEF CorkSend, CorkRead, Corked, Aligned
  <1> QED BY <1>1, <1>2, <1>3, <1>4, <1>5, <1>6, DFrame DEF DInv, vars

\* The output loop that ends, and a restart that comes to nothing.
LEMMA CloseKeepsD == ASSUME DInv, LoopEnds \/ AlreadyDone \/ CallFails PROVE DInv'
  <1>0. loop \in BOOLEAN /\ done \in BOOLEAN
    BY DEF DInv, ProgressInv
  <1>1. CASE LoopEnds
    <2>1. loop' \in BOOLEAN /\ done' \in BOOLEAN
      BY <1>1, Zenon DEF LoopEnds
    <2> QED BY <1>1, <2>1, CloseKeeps DEF LoopEnds
  <1>2. CASE AlreadyDone
    <2>1. loop' \in BOOLEAN /\ done' \in BOOLEAN
      BY <1>0, <1>2, Zenon DEF AlreadyDone, CloseReader
    <2> QED BY <1>2, <2>1, CloseKeeps DEF AlreadyDone, CloseReader
  <1>3. CASE CallFails
    BY <1>0, <1>3, CloseKeeps DEF CallFails, CloseReader
  <1> QED BY <1>1, <1>2, <1>3

\* One Read of the output loop moves bytes from the reader to the file.
LEMMA ReadEffect ==
    ASSUME DInv, LoopReads
    PROVE  /\ rd' \in ReaderState /\ rd'.id = rd.id /\ rd'.next = rd.next
           /\ rd'.ooo = rd.ooo /\ rd'.open = rd.open
           /\ file' \in Seq(Byte)
           /\ Len(rd'.buf) <= Len(rd.buf)
           /\ Len(file') + Len(rd'.buf) = Len(file) + Len(rd.buf)
           /\ \/ anet' = anet
              \/ \E a \in AckState : /\ Acked(a) /\ a.id = rd.id /\ a.seq = rd.next
                                     /\ a.rwnd = FreeWindow(rd')
  <1> DEFINE n    == Lesser(MaxPacket, Len(rd.buf))
             x    == DropFirst(rd.buf, n)
             r    == [rd EXCEPT !.buf = x]
             tell == r.buf = <<>> \/ FreeWindow(r) - rd.rwndSent >= AckStep
             head == SubSeq(rd.buf, 1, n)
  <1>0. rd \in ReaderState /\ rd.buf \in Seq(Byte) /\ Len(rd.buf) \in Nat /\ file \in Seq(Byte)
    BY ReaderFields DEF DInv, ReaderInv, ProgressInv
  <1>1. n \in Nat /\ n <= Len(rd.buf)
    BY <1>0, SizesAssumption DEF Lesser
  <1>2. /\ file' = file \o head
        /\ rd' = IF tell THEN [r EXCEPT !.rwndSent = FreeWindow(r)] ELSE r
        /\ IF tell THEN Acked(AckOf(r, FALSE, FALSE)) ELSE UNCHANGED anet
    BY DEF LoopReads
  <1>3. /\ head \in Seq(Byte) /\ Len(head) = n
        /\ x \in Seq(Byte) /\ Len(x) = Len(rd.buf) - n
    <2> DEFINE b == rd.buf
    <2>1. b \in Seq(Byte) /\ n \in Nat /\ n <= Len(b)
      BY <1>0, <1>1
    <2> HIDE DEF n, b
    <2>2. SubSeq(b, 1, n) \in Seq(Byte) /\ Len(SubSeq(b, 1, n)) = n
      BY <2>1
    <2>3. DropFirst(b, n) \in Seq(Byte) /\ Len(DropFirst(b, n)) = Len(b) - n
      BY <2>1, DropType
    <2> QED BY <2>2, <2>3 DEF b
  <1> HIDE DEF n, x, head, tell
  <1>4. r = ReaderRec(rd.id, rd.next, x, rd.ooo, rd.end, rd.open, rd.rwndSent)
    BY <1>0, ReaderExcept
  <1>5. /\ r \in ReaderState /\ r.id = rd.id /\ r.next = rd.next /\ r.buf = x
        /\ r.ooo = rd.ooo /\ r.open = rd.open
    <2>1. ReaderRec(rd.id, rd.next, x, rd.ooo, rd.end, rd.open, rd.rwndSent) \in ReaderState
      BY <1>0, <1>3, ReaderFields, ReaderType, Zenon
    <2> HIDE DEF r
    <2> QED BY <1>4, <2>1 DEF ReaderRec
  <1> HIDE DEF r
  <1>6. /\ rd' \in ReaderState /\ rd'.id = rd.id /\ rd'.next = rd.next /\ rd'.buf = x
        /\ rd'.ooo = rd.ooo /\ rd'.open = rd.open
    <2>1. CASE rd' = r
      BY <1>5, <2>1
    <2>2. CASE rd' = [r EXCEPT !.rwndSent = FreeWindow(r)]
      <3>1. rd' = ReaderRec(r.id, r.next, r.buf, r.ooo, r.end, r.open, FreeWindow(r))
        BY <1>5, <2>2, ReaderExcept, Zenon
      <3>2. FreeWindow(r) \in 0..Rwnd
        BY <1>5, FreeWindowType
      <3>3. ReaderRec(r.id, r.next, r.buf, r.ooo, r.end, r.open, FreeWindow(r)) \in ReaderState
        BY <1>5, <3>2, ReaderFields, ReaderType, Zenon
      <3> QED BY <1>5, <3>1, <3>3 DEF ReaderRec
    <2> QED BY <1>2, <2>1, <2>2
  <1>7. /\ file' \in Seq(Byte) /\ Len(file') + Len(rd'.buf) = Len(file) + Len(rd.buf)
        /\ Len(rd'.buf) <= Len(rd.buf)
    <2>1. file' \in Seq(Byte) /\ Len(file') = Len(file) + n /\ Len(file) \in Nat
      <3>1. file \in Seq(Byte) /\ head \in Seq(Byte) /\ Len(head) = n /\ file' = file \o head
        BY <1>0, <1>2, <1>3, Zenon
      <3>2. Len(file) \in Nat /\ file \o head \in Seq(Byte)
            /\ Len(file \o head) = Len(file) + Len(head)
        BY <3>1, JoinType
      <3> QED BY <3>1, <3>2
    <2>2. Len(rd'.buf) = Len(rd.buf) - n
      BY <1>3, <1>6
    <2> DEFINE a == Len(rd.buf)
               b == Len(rd'.buf)
               c == Len(file)
               d == Len(file')
    <2>3. a \in Nat /\ c \in Nat /\ n \in Nat /\ b = a - n /\ d = c + n
      BY <1>0, <1>1, <2>1, <2>2
    <2> HIDE DEF a, b, c, d
    <2>4. d + b = c + a /\ b <= a
      BY <2>3
    <2> QED BY <2>1, <2>4 DEF a, b, c, d
  <1>8. ASSUME Acked(AckOf(r, FALSE, FALSE))
        PROVE  \E a \in AckState : /\ Acked(a) /\ a.id = rd.id /\ a.seq = rd.next
                                   /\ a.rwnd = FreeWindow(rd')
    <2>1. FreeWindow(rd') = FreeWindow(r)
      BY <1>5, <1>6 DEF FreeWindow
    <2>2. \A f, c \in BOOLEAN : LET a == AckOf(r, f, c)
                                IN  /\ a \in AckState /\ a.id = r.id /\ a.seq = r.next
                                    /\ a.rwnd = FreeWindow(r)
      BY <1>5, AckFields, ZenonT(30)
    <2> QED BY <1>5, <1>8, <2>1, <2>2, Zenon
  <1> QED BY <1>2, <1>6, <1>7, <1>8, Zenon

\* A Read of the output loop keeps the invariant.
LEMMA LoopReadsKeepsD == ASSUME DInv, LoopReads PROVE DInv'
  <1>0. /\ UNCHANGED <<vars, up, live, attached, dnet, faults, h, cur, cl, loop, gap, done>>
        /\ rd.buf # <<>>
    BY DEF LoopReads
  <1>1. IInv' /\ Place'
    BY <1>0, ManagerIInv, PlaceStep DEF ManagerStep, DInv
  <1>2. /\ rd' \in ReaderState /\ rd'.id = rd.id /\ rd'.next = rd.next
        /\ rd'.ooo = rd.ooo /\ rd'.open = rd.open /\ file' \in Seq(Byte)
        /\ Len(file') + Len(rd'.buf) = Len(file) + Len(rd.buf)
        /\ \/ anet' = anet
           \/ \E a \in AckState : /\ Acked(a) /\ a.id = rd.id /\ a.seq = rd.next
                                  /\ a.rwnd = FreeWindow(rd')
    BY ReadEffect
  <1>3. ReaderInv' /\ ProgressInv'
    BY <1>0, <1>2 DEF DInv, ReaderInv, ProgressInv
  <1>4. AckInv'
    <2>1. anet \in Seq(AckState) /\ cur \in Nat /\ rd.id = cur
      BY StreamNumbers DEF DInv, AckInv, CallerInv, ReaderInv
    <2>2. ASSUME NEW a \in AckState, Acked(a), a.id = rd.id PROVE AckInv'
      <3>1. anet' \in Seq(AckState) /\ Elements(anet') \subseteq Elements(anet) \union {a}
        BY <2>1, <2>2, AckedEffect
      <3> QED BY <1>0, <2>1, <2>2, <3>1 DEF DInv, AckInv
    <2> QED BY <1>0, <1>2, <2>2, DFrame
  <1>5. ~Corked
    BY <1>0 DEF DInv, CorkRead
  <1>6. CorkSend' /\ CorkRead'
    BY <1>0, <1>2, <1>5 DEF CorkSend, CorkRead, Corked
  <1>7. Aligned'
    <2> DEFINE a == Len(file)
               b == Len(rd.buf)
               c == Len(file')
               d == Len(rd'.buf)
    <2>1. a \in Nat /\ b \in Nat /\ c \in Nat /\ d \in Nat /\ gap \in Nat
      BY <1>2, ReaderFields DEF DInv, ReaderInv, ProgressInv
    <2>2. c + d = a + b
      BY <1>2
    <2>3. rd.open => (a + gap) + b = rd.next
      BY DEF DInv, Aligned, Position
    <2> HIDE DEF a, b, c, d
    <2>4. (c + gap) + d = (a + gap) + b
      BY <2>1, <2>2
    <2> QED BY <1>0, <1>2, <2>3, <2>4 DEF Aligned, Position, a, b, c, d
  <1> QED BY <1>0, <1>1, <1>3, <1>4, <1>6, <1>7, DFrame DEF DInv, vars

\* A restart keeps the invariant: nothing anywhere names the new stream yet.
LEMMA RestartKeepsD == ASSUME DInv, Restart PROVE DInv'
  <1>0. /\ UNCHANGED <<vars, up, live, attached, dnet, h, gap, done>>
        /\ cur < MaxStreams /\ cur' = cur + 1 /\ file' = file \o rd.buf
        /\ rd' = NewReader(cur + 1, Len(file') + gap)
        /\ cl' = [pc |-> "ask", seq |-> Len(file') + gap, done |-> FALSE]
    BY DEF Restart
  <1>1. IInv' /\ Place'
    BY <1>0, ManagerIInv, PlaceStep DEF ManagerStep, DInv
  <1>2. /\ cur \in Stream /\ cur \in Nat /\ cur' \in Stream /\ cur < cur' /\ cur' \in Nat
        /\ cur' > 1 /\ NoStream \notin Stream
    BY <1>0, StreamNumbers DEF DInv, CallerInv
  <1>3. \A i \in Stream : i <= cur => i <= cur' /\ i # cur'
    BY <1>2, StreamNumbers
  <1>4. /\ file' \in Seq(Byte) /\ Len(file') + gap \in Nat /\ gap \in Nat /\ loop' = FALSE
    <2>1. file \in Seq(Byte) /\ rd.buf \in Seq(Byte) /\ gap \in Nat
      BY ReaderFields DEF DInv, ProgressInv, ReaderInv
    <2>2. file' \in Seq(Byte)
      BY <1>0, <2>1, JoinType
    <2>3. loop' = FALSE
      BY Zenon DEF Restart
    <2>4. Len(file') \in Nat
      BY <2>2
    <2> QED BY <2>1, <2>2, <2>3, <2>4
  <1>5. NetInv'
    <2>1. faults' \in 0..MaxFaults
      <3>1. faults \in 0..MaxFaults /\ MaxFaults \in Nat
        BY FaultAssumption DEF DInv, NetInv
      <3> QED BY <3>1 DEF Restart
    <2> QED BY <1>0, <1>2, <2>1 DEF DInv, NetInv
  <1>6. ProgressInv'
    <2>1. FALSE \in BOOLEAN
      OBVIOUS
    <2> QED BY <1>0, <1>4, <2>1, Zenon DEF DInv, ProgressInv
  <1>7. CallerInv' /\ cl'.pc = "ask"
    <2> DEFINE at == Len(file') + gap
    <2>1. at \in Nat
      BY <1>4
    <2> HIDE DEF at
    <2>2. \A b \in BOOLEAN : [pc |-> "ask", seq |-> at, done |-> b] \in CallerState
      BY <2>1 DEF CallerState
    <2>3. cl' = [pc |-> "ask", seq |-> at, done |-> FALSE]
      BY <1>0 DEF at
    <2>4. cl' \in CallerState
      BY <2>2, <2>3, Zenon
    <2>5. cl'.pc = "ask"
      BY <2>3
    <2> QED BY <1>2, <2>4, <2>5 DEF CallerInv
  <1>8. HandlerInv'
    <2>1. h' = h /\ h \in HandlerState /\ h.id <= cur
      BY <1>0 DEF DInv, HandlerInv
    <2>2. h.id \in Stream
      BY <2>1 DEF HandlerState
    <2>3. h.id <= cur'
      BY <1>3, <2>1, <2>2
    <2> QED BY <2>1, <2>3, Zenon DEF DInv, HandlerInv
  <1>9. /\ rd' \in ReaderState /\ rd'.id = cur' /\ rd'.ooo = {} /\ rd'.buf = <<>>
        /\ rd'.next = Len(file') + gap
    <2> DEFINE at == Len(file') + gap
    <2>1. rd' = ReaderRec(cur', at, <<>>, {}, "none", TRUE, Rwnd)
      BY <1>0 DEF NewReader, ReaderRec
    <2>2. at \in Nat /\ <<>> \in Seq(Byte) /\ {} \in SUBSET StoredPacket
          /\ "none" \in {"none", "eof", "err"} /\ Rwnd \in 0..Rwnd
      BY <1>4, RwndAssumption, SizesAssumption
    <2> HIDE DEF at
    <2>3. \A o \in BOOLEAN :
            /\ ReaderRec(cur', at, <<>>, {}, "none", o, Rwnd) \in ReaderState
            /\ ReaderRec(cur', at, <<>>, {}, "none", o, Rwnd).id = cur'
            /\ ReaderRec(cur', at, <<>>, {}, "none", o, Rwnd).next = at
            /\ ReaderRec(cur', at, <<>>, {}, "none", o, Rwnd).ooo = {}
            /\ ReaderRec(cur', at, <<>>, {}, "none", o, Rwnd).buf = <<>>
      <3> TAKE o \in BOOLEAN
      <3>1. ReaderRec(cur', at, <<>>, {}, "none", o, Rwnd) \in ReaderState
        BY <1>2, <2>2, ReaderType
      <3> QED BY <3>1 DEF ReaderRec
    <2>4. rd' \in ReaderState /\ rd'.id = cur' /\ rd'.next = at /\ rd'.ooo = {} /\ rd'.buf = <<>>
      BY <2>1, <2>3, Zenon
    <2> QED BY <2>4 DEF at
  <1>10. ReaderInv'
    BY <1>9 DEF ReaderInv, Bounded
  <1>11. /\ \A p \in Elements(dnet') : p.id <= cur' /\ p.id # cur' /\ Shaped(p)
         /\ dnet' \in Seq(Packet)
    <2>1. dnet \in Seq(Packet) /\ \A p \in Elements(dnet) : p \in Packet /\ p.id <= cur /\ Shaped(p)
      BY DEF DInv, DataInv, Elements
    <2>2. \A p \in Elements(dnet) : p.id \in Stream
      BY <2>1 DEF Packet
    <2> QED BY <1>0, <1>3, <2>1, <2>2
  <1>12. /\ anet' \in Seq(AckState)
         /\ \A a \in Elements(anet') : a.id <= cur' /\ a.id # cur'
    <2>1. anet' \in Seq(AckState) /\ \A a \in Elements(anet') : a.id <= cur
      <3>1. CASE anet' = anet
        BY <3>1 DEF DInv, AckInv
      <3>2. CASE Acked(AckOf(rd, FALSE, TRUE))
        BY <3>2, CloseEffect
      <3> QED BY <3>1, <3>2 DEF Restart
    <2>2. \A a \in Elements(anet') : a \in AckState
      BY <2>1 DEF Elements
    <2>3. \A a \in AckState : a.id \in Stream
      BY DEF AckState
    <2> QED BY <1>3, <2>1, <2>2, <2>3
  <1>13. PacketInv' /\ (pkt' # NoPacket => pkt'.id # cur')
    <2>1. pkt # NoPacket => pkt \in Packet
      BY DEF DInv, IInv, Types, PktType
    <2>2. pkt # NoPacket => pkt.id \in Stream
      BY <2>1 DEF Packet
    <2> QED BY <1>0, <1>3, <2>2 DEF DInv, PacketInv, vars
  <1>14. OwnerInv' /\ streamId' # cur'
    <2>1. streamId \in Stream \union {NoStream}
      BY DEF DInv, IInv, Types, LinkType
    <2> QED BY <1>0, <1>2, <1>3, <2>1 DEF DInv, OwnerInv, vars
  <1>15. CorkSend'
    <2>1. cur' \notin attached'
      <3>1. attached \subseteq 1..cur
        BY DEF DInv, NetInv
      <3> QED BY <1>0, <1>2, <3>1
    <2>2. pkt' = NoPacket => pkt'.data = <<>>
      BY DEF NoPacket
    <2> QED BY <1>13, <1>14, <2>1, <2>2 DEF CorkSend
  <1>16. CorkRead'
    BY <1>9, <1>11, <1>12 DEF CorkRead
  <1>17. Aligned'
    <2>1. Len(<<>>) = 0
      OBVIOUS
    <2> DEFINE at == Len(file') + gap
    <2>2. at \in Nat /\ rd'.next = at /\ Len(rd'.buf) = 0 /\ Position' = at
      BY <1>0, <1>4, <1>9, <2>1 DEF Position
    <2> HIDE DEF at
    <2> QED BY <2>2 DEF Aligned
  <1>18. DataInv' /\ AckInv'
    BY <1>11, <1>12 DEF DataInv, AckInv
  <1>19. CallInv'
    BY <1>0, DFrame DEF vars
  <1> QED BY <1>1, <1>5, <1>6, <1>7, <1>8, <1>10, <1>13, <1>14, <1>15, <1>16, <1>17, <1>18,
             <1>19 DEF DInv

\* The gap that makes the file's place the job manager's.
LEMMA GapMeets ==
    ASSUME NEW n \in Nat, NEW seq \in Nat, NEW k \in Nat, Len(file) = n, gap = k
    PROVE  /\ NewGap(n + k, seq) \in Nat
           /\ Lesser(seq, n) + NewGap(n + k, seq) = seq
  BY DEF NewGap, Lesser

\* The reply to JobPrepareConnect keeps the invariant: the two places are made
\* equal whichever was ahead.
LEMMA ReconcileKeepsD == ASSUME DInv, Reconcile PROVE DInv'
  <1>0. /\ UNCHANGED <<vars, netVars, h, cur, loop, done>>
        /\ cl.pc = "resp" /\ cl' = [cl EXCEPT !.pc = "start"]
        /\ gap' = NewGap(Len(file) + gap, cl.seq)
        /\ file' = SubSeq(file, 1, Lesser(cl.seq, Len(file)))
        /\ rd' = [rd EXCEPT !.next = cl.seq]
    BY DEF Reconcile
  <1>1. IInv' /\ Place'
    BY <1>0, ManagerIInv, PlaceStep DEF ManagerStep, DInv
  <1>2. /\ rd \in ReaderState /\ file \in Seq(Byte) /\ Len(file) \in Nat /\ gap \in Nat
        /\ cl \in CallerState /\ cl.seq \in Nat /\ cur > 1
    BY <1>0 DEF DInv, ReaderInv, ProgressInv, CallerInv, CallerState
  <1>3. /\ gap' \in Nat /\ file' \in Seq(Byte) /\ Len(file') + gap' = cl.seq
    <2> DEFINE n == Len(file)
               q == cl.seq
               m == Lesser(q, n)
    <2>1. gap' \in Nat /\ m + gap' = q
      BY <1>0, <1>2, GapMeets
    <2>2. m \in 0..Len(file)
      BY <1>2 DEF Lesser
    <2>3. file' = SubSeq(file, 1, m)
      BY <1>0
    <2> HIDE DEF m
    <2>4. SubSeq(file, 1, m) \in Seq(Byte) /\ Len(SubSeq(file, 1, m)) = m
      BY <1>2, <2>2
    <2> QED BY <2>1, <2>3, <2>4
  <1>4. /\ rd' \in ReaderState /\ rd'.id = rd.id /\ rd'.next = cl.seq /\ rd'.ooo = rd.ooo
        /\ rd'.buf = rd.buf /\ rd'.open = rd.open
    <2>1. rd' = ReaderRec(rd.id, cl.seq, rd.buf, rd.ooo, rd.end, rd.open, rd.rwndSent)
      BY <1>0, <1>2, ReaderExcept, Zenon
    <2>2. ReaderRec(rd.id, cl.seq, rd.buf, rd.ooo, rd.end, rd.open, rd.rwndSent) \in ReaderState
      BY <1>2, ReaderFields, ReaderType, Zenon
    <2> QED BY <2>1, <2>2 DEF ReaderRec
  <1>5. ReaderInv' /\ ProgressInv'
    BY <1>0, <1>3, <1>4 DEF DInv, ReaderInv, ProgressInv
  <1>6. CallerInv' /\ cl'.pc = "start"
    BY <1>0, <1>2 DEF DInv, CallerInv, CallerState
  <1>7. Corked' <=> Corked
    BY <1>0, <1>4, <1>6 DEF Corked
  <1>8. CorkSend' /\ CorkRead'
    BY <1>0, <1>4, <1>7 DEF DInv, CorkSend, CorkRead, vars
  <1>9. Aligned'
    <2> SUFFICES ASSUME rd.open PROVE Position' + Len(rd'.buf) = rd'.next
      BY <1>4 DEF Aligned
    <2>1. rd'.buf = <<>>
      BY <1>0, <1>2, <1>4 DEF DInv, CorkRead, Corked
    <2>2. Len(rd'.buf) = 0
      BY <2>1
    <2>3. Position' = cl.seq
      BY <1>3 DEF Position
    <2> QED BY <1>2, <1>4, <2>2, <2>3
  <1> QED BY <1>0, <1>1, <1>5, <1>6, <1>8, <1>9, DFrame DEF DInv, vars

\* The output loop's start keeps the invariant.
LEMMA LoopStartsKeepsD == ASSUME DInv, LoopStarts PROVE DInv'
  <1>0. /\ UNCHANGED <<vars, netVars, h, cur, rd, file, gap, done>>
        /\ cl' = [cl EXCEPT !.pc = "run"] /\ loop'
    BY DEF LoopStarts
  <1>1. IInv' /\ Place'
    BY <1>0, ManagerIInv, PlaceStep DEF ManagerStep, DInv
  <1>2. CallerInv' /\ cl'.pc = "run"
    BY <1>0 DEF DInv, CallerInv, CallerState
  <1>3. loop' \in BOOLEAN
    BY Zenon DEF LoopStarts
  <1>4. ProgressInv'
    BY <1>0, <1>3 DEF DInv, ProgressInv
  <1>5. CorkSend' /\ CorkRead'
    BY <1>2 DEF CorkSend, CorkRead, Corked
  <1> QED BY <1>0, <1>1, <1>2, <1>4, <1>5, DFrame DEF DInv, vars

\* The reply of a call is for the restart that waits for it.
LEMMA RepliedEffect ==
    ASSUME NEW reply, Replied(reply)
    PROVE  \/ cl' = cl
           \/ cl' = reply /\ h.id = cur /\ cl.pc = "wait"
  BY DEF Replied

\* PrepareConnect keeps the invariant.
LEMMA PrepareKeepsD == ASSUME DInv, PrepareConnect PROVE DInv'
  <1>0. /\ UNCHANGED <<vars, up, attached, dnet, anet, faults, cur, rd, loop, file, gap, done>>
        /\ cl.pc = "ask" /\ cc.pc = "idle"
    BY DEF PrepareConnect, Unlocked
  <1>1. IInv' /\ Place'
    BY <1>0, ManagerIInv, PlaceStep DEF ManagerStep, DInv
  <1>2. /\ cur \in Stream /\ cur > 1 /\ cur \in Nat /\ cl \in CallerState /\ cl.seq \in Nat
        /\ cl.done \in BOOLEAN
    BY <1>0, StreamNumbers DEF DInv, CallerInv, CallerState
  <1>3. /\ cl' \in CallerState /\ cl'.pc \in {"resp", "wait"}
        /\ h' = h \/ h' = [pc |-> "disconnect", id |-> cur, seq |-> cl.seq, job |-> FALSE]
        /\ live' = live \/ live' = live \union {cur}
    <2>1. CASE termAcked
      <3>1. cl' = [pc |-> "resp", seq |-> cl.seq, done |-> TRUE] /\ h' = h /\ live' = live
        BY <2>1 DEF PrepareConnect
      <3>2. \A b \in BOOLEAN : /\ [pc |-> "resp", seq |-> cl.seq, done |-> b] \in CallerState
                               /\ [pc |-> "resp", seq |-> cl.seq, done |-> b].pc = "resp"
        BY <1>2 DEF CallerState
      <3>3. cl' \in CallerState /\ cl'.pc = "resp"
        BY <3>1, <3>2, Zenon
      <3> QED BY <3>1, <3>3
    <2>2. CASE ~termAcked
      <3>1. /\ cl' = [cl EXCEPT !.pc = "wait"]
            /\ h' = [pc |-> "disconnect", id |-> cur, seq |-> cl.seq, job |-> FALSE]
            /\ live' = live \union {cur}
        BY <2>2 DEF PrepareConnect
      <3>2. cl' \in CallerState /\ cl'.pc = "wait"
        BY <1>2, <3>1 DEF CallerState
      <3> QED BY <3>1, <3>2
    <2> QED BY <2>1, <2>2
  <1>4. HandlerInv'
    <2>1. CASE h' = h
      BY <1>0, <2>1, DFrame
    <2>2. CASE h' = [pc |-> "disconnect", id |-> cur, seq |-> cl.seq, job |-> FALSE]
      <3>1. \A b \in BOOLEAN :
              LET g == [pc |-> "disconnect", id |-> cur, seq |-> cl.seq, job |-> b]
              IN  /\ g \in HandlerState /\ g.id = cur /\ g.job = b /\ g.pc = "disconnect"
        BY <1>2 DEF HandlerState
      <3>2. h' \in HandlerState /\ h'.id = cur /\ ~h'.job /\ h'.pc = "disconnect"
        BY <2>2, <3>1, Zenon
      <3>3. cur # 1 /\ cur <= cur
        BY <1>2
      <3> QED BY <1>0, <3>2, <3>3 DEF HandlerInv
    <2> QED BY <1>3, <2>1, <2>2
  <1>5. NetInv' /\ CallerInv' /\ CallInv'
    BY <1>0, <1>2, <1>3 DEF DInv, NetInv, CallerInv, CallInv, vars
  <1>6. Corked' => Corked
    BY <1>0 DEF Corked
  <1>7. CorkSend' /\ CorkRead'
    BY <1>0, <1>6, CorkFrame DEF vars
  <1> QED BY <1>0, <1>1, <1>4, <1>5, <1>7, DFrame DEF DInv, vars

\* The place of the call that holds the lock, and the rest of it as it was.
LEMMA HandlerMoves ==
    ASSUME DInv, cur' = cur, NEW p, h' = [h EXCEPT !.pc = p],
           p \in {"idle", "activate", "connect", "connecting"} \/ (p = "attach" /\ h.job)
    PROVE  /\ HandlerInv' /\ h'.pc = p /\ h'.id = h.id /\ h'.job = h.job /\ h'.seq = h.seq
  <1>1. h \in HandlerState
    BY DEF DInv, HandlerInv
  <1>2. /\ h' \in HandlerState /\ h'.pc = p /\ h'.id = h.id /\ h'.job = h.job /\ h'.seq = h.seq
    BY <1>1 DEF HandlerState
  <1> QED BY <1>2, Zenon DEF DInv, HandlerInv

\* The call disconnects the old client, and the disk file is opened.
LEMMA PreludeKeepsD == ASSUME DInv, HandlerDisconnects \/ HandlerActivates PROVE DInv'
  <1>1. IInv' /\ Place'
    BY ManagerIInv, PlaceStep DEF HandlerDisconnects, HandlerActivates, ManagerStep, DInv
  <1>2. /\ UNCHANGED <<up, live, dnet, anet, faults, clientVars, cc, streamId, pkt>>
        /\ attached' \subseteq attached /\ cc.pc = "idle"
    BY DEF HandlerDisconnects, HandlerActivates, ClientDisconnected, ActivateDiskBuffering,
           Disconnect, Activate, Unlocked
  <1>3. connected' => connected /\ rwndSize' = rwndSize
    <2>1. CASE HandlerDisconnects
      BY <2>1, Zenon DEF HandlerDisconnects, ClientDisconnected, Disconnect
    <2>2. CASE HandlerActivates
      <3>1. connected' = connected /\ rwndSize' = rwndSize
        BY <2>2 DEF HandlerActivates, ActivateDiskBuffering, Activate
      <3> QED BY <3>1, Zenon
    <2> QED BY <2>1, <2>2
  <1>4. HandlerInv'
    BY <1>2, HandlerMoves DEF HandlerDisconnects, HandlerActivates
  <1>5. NetInv' /\ CallInv'
    BY <1>2 DEF DInv, NetInv, CallInv
  <1>6. CorkSend' /\ CorkRead'
    BY <1>2, <1>3, CorkFrame
  <1> QED BY <1>1, <1>2, <1>4, <1>5, <1>6, DFrame DEF DInv

\* ClientConnected begins, or is refused.
LEMMA ConnectKeepsD == ASSUME DInv, HandlerConnects \/ HandlerRefused PROVE DInv'
  <1>0. /\ h \in HandlerState /\ h.id \in Stream /\ h.seq \in Nat /\ h.job \in BOOLEAN
        /\ cl \in CallerState /\ Rwnd \in Nat
    BY RwndAssumption, SizesAssumption DEF DInv, HandlerInv, HandlerState, CallerInv
  <1>1. CASE HandlerConnects
    <2> DEFINE r == IF h.job THEN Rwnd ELSE 0
    <2>1. ConnectBegins(h.id, r, h.seq) /\ r \in Nat
      BY <1>0, <1>1 DEF HandlerConnects
    <2>2. IInv' /\ Place'
      <3> HIDE DEF r
      <3> QED BY <1>0, <2>1, ManagerIInv, PlaceStep DEF ManagerStep, DInv
    <2>3. UNCHANGED <<netVars, clientVars, streamId, connected, rwndSize, pkt>>
      BY <1>1 DEF HandlerConnects, ConnectBegins
    <2>4. /\ HandlerInv' /\ h'.pc = "connecting" /\ h'.id = h.id /\ h'.job = h.job
      BY <1>1, <2>3, HandlerMoves DEF HandlerConnects
    <2>5. CallInv'
      <3>1. cc'.id = h.id /\ cc'.rwnd = r
        <4> HIDE DEF r
        <4> QED BY <2>1 DEF ConnectBegins
      <3> QED BY <2>4, <3>1, Zenon DEF CallInv
    <2>6. CorkSend' /\ CorkRead'
      BY <2>3, CorkFrame
    <2> QED BY <2>2, <2>3, <2>4, <2>5, <2>6, DFrame DEF DInv
  <1>2. CASE HandlerRefused
    <2>0. /\ UNCHANGED <<vars, netVars, cur, rd, loop, file, gap, done>> /\ cc.pc = "idle"
          /\ h' = [h EXCEPT !.pc = "idle"]
      BY <1>2 DEF HandlerRefused, Unlocked
    <2>1. IInv' /\ Place'
      BY <2>0, ManagerIInv, PlaceStep DEF ManagerStep, DInv
    <2>2. HandlerInv'
      BY <2>0, HandlerMoves
    <2>3. CASE cl' = cl
      <3>1. CorkSend' /\ CorkRead' /\ CallInv'
        BY <2>0, <2>3, CorkFrame DEF CallInv, vars
      <3> QED BY <2>0, <2>1, <2>2, <2>3, <3>1, DFrame DEF DInv, vars
    <2>4. CASE cl' = [cl EXCEPT !.pc = "failed"]
      <3>1. CallerInv' /\ cl'.pc = "failed"
        BY <1>0, <2>0, <2>4 DEF DInv, CallerInv, CallerState
      <3>2. CorkSend' /\ CorkRead' /\ CallInv'
        BY <2>0, <3>1 DEF CorkSend, CorkRead, Corked, CallInv, vars
      <3> QED BY <2>0, <2>1, <2>2, <3>1, <3>2, DFrame DEF DInv, vars
    <2> QED BY <1>2, <2>3, <2>4, RepliedEffect DEF HandlerRefused
  <1> QED BY <1>1, <1>2

\* ClientConnected consumes what its client has.
LEMMA ConsumesKeepsD == ASSUME DInv, HandlerConsumes PROVE DInv'
  <1>1. IInv' /\ Place'
    BY ManagerIInv, PlaceStep DEF HandlerConsumes, ManagerStep, DInv
  <1>2. UNCHANGED <<netVars, h, clientVars, streamId, connected, rwndSize, pkt>>
    BY DEF HandlerConsumes, ConnectConsumes
  <1>3. CallInv'
    <2> DEFINE x == HeadOf(cb')
    <2>1. cc.pc # "idle" /\ cc' = [cc EXCEPT !.pc = "window", !.head = x] /\ cc \in CallState
      BY DEF HandlerConsumes, ConnectConsumes, DInv, IInv, Types, CallType
    <2> HIDE DEF x
    <2>2. cc'.id = cc.id /\ cc'.rwnd = cc.rwnd
      BY <2>1 DEF CallState
    <2>3. h' = h
      BY <1>2
    <2> QED BY <2>1, <2>2, <2>3, Zenon DEF DInv, CallInv
  <1>4. CorkSend' /\ CorkRead'
    BY <1>2, CorkFrame
  <1> QED BY <1>1, <1>2, <1>3, <1>4, DFrame DEF DInv

\* The client is connected: the window of a restart is closed.
LEMMA ConnectedKeepsD == ASSUME DInv, HandlerConnected PROVE DInv'
  <1>0. /\ UNCHANGED <<netVars, cur, rd, loop, file, gap, done, pkt>>
        /\ ConnectEnds /\ cc.pc = "window" /\ h.pc = "connecting" /\ cc' = Idle
        /\ streamId' = cc.id /\ rwndSize' = cc.rwnd
    BY DEF HandlerConnected, ConnectEnds
  <1>1. IInv' /\ Place'
    BY <1>0, ManagerIInv, PlaceStep DEF ManagerStep, DInv
  <1>2. /\ cc.id = h.id /\ cc.rwnd = (IF h.job THEN Rwnd ELSE 0) /\ h.id <= cur
        /\ h.id \in Stream /\ (h.job <=> h.id = 1) /\ h.job \in BOOLEAN
    BY <1>0 DEF DInv, CallInv, HandlerInv, HandlerState
  <1>3. /\ cl \in CallerState /\ cur \in Nat /\ cur >= 1
    BY StreamNumbers DEF DInv, CallerInv
  <1>4. HandlerInv'
    <2>1. CASE h.job
      BY <1>0, <2>1, HandlerMoves DEF HandlerConnected
    <2>2. CASE ~h.job
      BY <1>0, <2>2, HandlerMoves DEF HandlerConnected
    <2> QED BY <2>1, <2>2
  <1>5. \/ cl' = cl
        \/ cl' = [pc |-> "resp", seq |-> StartSeq, done |-> FALSE] /\ h.id = cur /\ ~h.job
           /\ cl.pc = "wait"
    BY RepliedEffect DEF HandlerConnected
  <1>6. CallerInv' /\ (Corked' => Corked)
    <2>1. CASE cl' = cl
      BY <1>0, <2>1, DFrame DEF Corked
    <2>2. CASE cl' = [pc |-> "resp", seq |-> StartSeq, done |-> FALSE] /\ h.id = cur /\ ~h.job
               /\ cl.pc = "wait"
      <3>1. StartSeq \in Nat
        BY DEF DInv, IInv, Types, CallType, CallState, Place, StartSeq, Greater
      <3>2. \A b \in BOOLEAN :
              /\ [pc |-> "resp", seq |-> StartSeq, done |-> b] \in CallerState
              /\ [pc |-> "resp", seq |-> StartSeq, done |-> b].pc = "resp"
        BY <3>1 DEF CallerState
      <3>3. cl' \in CallerState
        BY <2>2, <3>2, Zenon
      <3>4. cur > 1
        BY <1>2, <1>3, <2>2
      <3> QED BY <1>0, <2>2, <3>3, <3>4 DEF DInv, CallerInv, Corked
    <2> QED BY <1>5, <2>1, <2>2
  <1>7. OwnerInv' /\ CallInv'
    BY <1>0, <1>2 DEF OwnerInv, CallInv, Idle
  <1>8. CorkSend'
    <2>1. Corked /\ streamId' = cur => rwndSize' = 0
      BY <1>0, <1>2 DEF Corked
    <2> QED BY <1>0, <1>6, <2>1 DEF DInv, CorkSend
  <1>9. CorkRead'
    BY <1>0, <1>6, CorkFrame
  <1> QED BY <1>0, <1>1, <1>4, <1>6, <1>7, <1>8, <1>9, DFrame DEF DInv

\* StartJob goes on: the first stream's writer is attached.
LEMMA JobStartedKeepsD == ASSUME DInv, JobStarted PROVE DInv'
  <1>0. /\ UNCHANGED <<up, live, dnet, anet, faults, cur, rd, loop, file, gap, done,
                       cc, streamId, connected, rwndSize, pkt>>
        /\ h.pc = "attach" /\ cc.pc = "idle" /\ h' = [h EXCEPT !.pc = "idle"]
        /\ attached' = IF up THEN {h.id} ELSE {}
    BY DEF JobStarted, AttachReader, Unlocked
  <1>1. IInv' /\ Place'
    BY ManagerIInv, PlaceStep DEF JobStarted, ManagerStep, DInv
  <1>2. HandlerInv'
    BY <1>0, HandlerMoves
  <1>3. /\ cl \in CallerState /\ cur \in Nat /\ cur >= 1 /\ attached' \subseteq {1}
    <2>1. h.id = 1
      BY <1>0 DEF DInv, HandlerInv
    <2> QED BY <1>0, <2>1, StreamNumbers DEF DInv, CallerInv
  <1>4. CallerInv' /\ (Corked' => Corked)
    <2>1. CASE cl' = cl
      BY <1>0, <2>1, DFrame DEF Corked
    <2>2. CASE cl' = [cl EXCEPT !.pc = "startok"]
      BY <1>0, <1>3, <2>2 DEF DInv, CallerInv, CallerState, Corked
    <2> QED BY <2>1, <2>2, RepliedEffect DEF JobStarted
  <1>5. NetInv' /\ CallInv'
    BY <1>0, <1>3 DEF DInv, NetInv, CallInv
  <1>6. CorkSend'
    <2>1. Corked => cur # 1
      BY <1>3 DEF Corked
    <2> QED BY <1>0, <1>3, <1>4, <2>1 DEF DInv, CorkSend
  <1>7. CorkRead'
    BY <1>0, <1>4, CorkFrame
  <1> QED BY <1>0, <1>1, <1>2, <1>4, <1>5, <1>6, <1>7, DFrame DEF DInv

\* StartStream opens the window: the restart is over, or failed.
LEMMA StartStreamKeepsD == ASSUME DInv, StartStream PROVE DInv'
  <1>0. /\ UNCHANGED <<up, live, dnet, anet, faults, h, cur, rd, loop, file, gap, done>>
        /\ attached' = attached \union {cur} /\ cc.pc = "idle"
        /\ SetRwndSize(Rwnd) \/ UNCHANGED vars
        /\ cl' = [cl EXCEPT !.pc = "startok"] \/ cl' = [cl EXCEPT !.pc = "failed"]
    BY DEF StartStream, Unlocked
  <1>1. UNCHANGED <<cc, streamId, pkt>>
    BY <1>0 DEF SetRwndSize, vars
  <1>2. IInv' /\ Place'
    <2>1. Rwnd \in Nat
      BY RwndAssumption, SizesAssumption
    <2> QED BY <1>0, <2>1, ManagerIInv, PlaceStep DEF ManagerStep, DInv
  <1>3. CallerInv' /\ cl'.pc \in {"startok", "failed"}
    BY <1>0 DEF DInv, CallerInv, CallerState
  <1>4. NetInv' /\ CallInv'
    <2>1. cur \in 1..cur
      BY StreamNumbers DEF DInv, CallerInv
    <2> QED BY <1>0, <1>1, <2>1 DEF DInv, NetInv, CallInv
  <1>5. CorkSend' /\ CorkRead'
    BY <1>3 DEF CorkSend, CorkRead, Corked
  <1> QED BY <1>0, <1>1, <1>2, <1>3, <1>4, <1>5, DFrame DEF DInv

\* An acknowledgement that arrives opens no window that is corked: its writer is
\* not attached yet.
LEMMA AckKeepsD == ASSUME DInv, AckArrives PROVE DInv'
  <1> DEFINE a == Head(anet)
  <1>0. UNCHANGED <<up, live, dnet, faults, h, clientVars>>
    BY DEF AckArrives
  <1>1. /\ a \in AckState /\ anet' = Tail(anet)
        /\ anet' \in Seq(AckState) /\ Elements(anet') \subseteq Elements(anet)
    BY TailElements DEF AckArrives, DInv, AckInv
  <1>2. /\ attached' \subseteq attached
        /\ UNCHANGED vars \/ (a.id \in attached /\ RecvAck(a))
    BY DEF AckArrives
  <1> HIDE DEF a
  <1>3. IInv' /\ Place'
    BY <1>1, <1>2, ManagerIInv, PlaceStep DEF ManagerStep, DInv
  <1>4. UNCHANGED <<cc, streamId, connected, pkt>>
    BY <1>2 DEF RecvAck, vars
  <1>5. AckInv' /\ NetInv' /\ CallInv'
    BY <1>0, <1>1, <1>2, <1>4 DEF DInv, AckInv, NetInv, CallInv
  <1>6. CorkSend'
    <2>1. ASSUME Corked, streamId = cur PROVE rwndSize' = rwndSize
      <3>1. CASE UNCHANGED vars
        BY <3>1 DEF vars
      <3>2. CASE a.id \in attached /\ RecvAck(a)
        <4>1. a.id # streamId
          BY <2>1, <3>2 DEF DInv, CorkSend
        <4>2. RecvIgnored(a)
          BY <3>2, <4>1 DEF RecvAck, RecvFin, RecvFresh, Expected
        <4> QED BY <4>2 DEF RecvIgnored
      <3> QED BY <1>2, <3>1, <3>2
    <2>2. Corked' <=> Corked
      BY <1>0 DEF Corked
    <2> QED BY <1>0, <1>2, <1>4, <2>1, <2>2 DEF DInv, CorkSend
  <1>7. CorkRead'
    BY <1>0, <1>1 DEF DInv, CorkRead, Corked
  <1> QED BY <1>0, <1>3, <1>4, <1>5, <1>6, <1>7, DFrame DEF DInv

\* A reader that drops what it has.
LEMMA ReaderDrops ==
    ASSUME NEW r \in ReaderState, NEW buf, NEW ooo, NEW open
    PROVE  [r EXCEPT !.buf = buf, !.ooo = ooo, !.open = open]
           = ReaderRec(r.id, r.next, buf, ooo, r.end, open, r.rwndSent)
  <1>1. [r EXCEPT !.buf = buf, !.ooo = ooo, !.open = open]
        = [[[r EXCEPT !.buf = buf] EXCEPT !.ooo = ooo] EXCEPT !.open = open]
    BY DEF ReaderState
  <1>2. [r EXCEPT !.buf = buf]
        = ReaderRec(r.id, r.next, buf, r.ooo, r.end, r.open, r.rwndSent)
    BY ReaderExcept
  <1>3. [ReaderRec(r.id, r.next, buf, r.ooo, r.end, r.open, r.rwndSent) EXCEPT !.ooo = ooo]
        = ReaderRec(r.id, r.next, buf, ooo, r.end, r.open, r.rwndSent)
    BY DEF ReaderRec
  <1>4. [ReaderRec(r.id, r.next, buf, ooo, r.end, r.open, r.rwndSent) EXCEPT !.open = open]
        = ReaderRec(r.id, r.next, buf, ooo, r.end, open, r.rwndSent)
    BY DEF ReaderRec
  <1> QED BY <1>1, <1>2, <1>3, <1>4, Zenon

\* A reader that was thrown away with its bytes.
LEMMA QuitReader ==
    ASSUME DInv, cur' = cur, rd' = [rd EXCEPT !.buf = <<>>, !.ooo = {}, !.open = FALSE]
    PROVE  ReaderInv' /\ ~rd'.open /\ rd'.buf = <<>> /\ rd'.ooo = {}
  <1>1. rd \in ReaderState
    BY DEF DInv, ReaderInv
  <1>2. rd' = ReaderRec(rd.id, rd.next, <<>>, {}, rd.end, FALSE, rd.rwndSent)
    BY <1>1, ReaderDrops, Zenon
  <1>7. \A o \in BOOLEAN :
          LET r == ReaderRec(rd.id, rd.next, <<>>, {}, rd.end, o, rd.rwndSent)
          IN  /\ r \in ReaderState /\ r.id = rd.id /\ r.ooo = {} /\ r.buf = <<>> /\ r.open = o
    <2> TAKE o \in BOOLEAN
    <2>1. ReaderRec(rd.id, rd.next, <<>>, {}, rd.end, o, rd.rwndSent) \in ReaderState
      <3>1. <<>> \in Seq(Byte) /\ {} \in SUBSET StoredPacket
        OBVIOUS
      <3> QED BY <1>1, <3>1, ReaderFields, ReaderType, Zenon
    <2> QED BY <2>1 DEF ReaderRec
  <1>8. rd' \in ReaderState /\ rd'.id = rd.id /\ rd'.ooo = {} /\ ~rd'.open /\ rd'.buf = <<>>
    BY <1>2, <1>7, Zenon
  <1> QED BY <1>8 DEF DInv, ReaderInv, Bounded

\* The connection that is lost, with or without the main server.
LEMMA LostKeepsD == ASSUME DInv, LinkDrops \/ MainServerQuits PROVE DInv'
  <1>0. /\ UNCHANGED <<vars, h, cur, file, gap, done>> /\ LinkLost
        /\ live' = {} /\ attached' = {} /\ dnet' = <<>> /\ anet' = <<>> /\ loop' \in BOOLEAN
    <2>1. UNCHANGED <<vars, h, cur, file, gap, done>> /\ LinkLost
      BY DEF LinkDrops, MainServerQuits, LinkLost
    <2>2. live' = {} /\ attached' = {} /\ dnet' = <<>> /\ anet' = <<>>
      BY <2>1 DEF LinkLost
    <2>3. loop' \in BOOLEAN
      BY Zenon DEF LinkDrops, MainServerQuits, DInv, ProgressInv
    <2> QED BY <2>1, <2>2, <2>3
  <1>1. IInv' /\ Place'
    BY <1>0, ManagerIInv, PlaceStep DEF ManagerStep, DInv
  <1>2. NetInv'
    <2>1. up' \in BOOLEAN
      BY <1>0, Zenon DEF LinkLost
    <2>2. faults' \in 0..MaxFaults
      <3>1. faults \in 0..MaxFaults /\ MaxFaults \in Nat
        BY FaultAssumption DEF DInv, NetInv
      <3> QED BY <1>0, <3>1 DEF LinkLost
    <2> QED BY <1>0, <2>1, <2>2 DEF NetInv
  <1>3. DataInv' /\ AckInv'
    BY <1>0 DEF DataInv, AckInv, Elements
  <1>4. ProgressInv'
    BY <1>0 DEF DInv, ProgressInv
  <1>5. /\ cl \in CallerState /\ cur \in Stream /\ (cl.pc \in {"ask", "resp", "start"} => cur > 1)
    BY DEF DInv, CallerInv
  <1>6. CallerInv' /\ cl'.pc \in {cl.pc, "failed", "run"}
    <2>1. ASSUME NEW p \in {"failed", "run"}, cl' = [cl EXCEPT !.pc = p]
          PROVE  CallerInv' /\ cl'.pc = p
      BY <1>0, <1>5, <2>1 DEF CallerInv, CallerState
    <2>2. CASE cl' = cl
      BY <1>0, <1>5, <2>2 DEF CallerInv
    <2>3. cl' = cl \/ cl' = [cl EXCEPT !.pc = "failed"] \/ cl' = [cl EXCEPT !.pc = "run"]
      BY DEF LinkDrops, MainServerQuits
    <2> QED BY <2>1, <2>2, <2>3
  <1>7. CASE LinkDrops
    <2>1. rd' = rd
      BY <1>7 DEF LinkDrops
    <2>2. Corked' => Corked
      BY <1>0, <1>6, <2>1 DEF Corked
    <2>3. CorkSend'
      BY <1>0, <2>2 DEF DInv, CorkSend, vars
    <2>4. CorkRead'
      BY <1>0, <2>1, <2>2 DEF DInv, CorkRead, Elements
    <2> QED BY <1>0, <1>1, <1>2, <1>3, <1>4, <1>6, <2>1, <2>3, <2>4, DFrame DEF DInv, vars
  <1>8. CASE MainServerQuits
    <2>1. ReaderInv' /\ ~rd'.open
      BY <1>0, <1>8, QuitReader DEF MainServerQuits
    <2>2. CorkSend' /\ CorkRead' /\ Aligned'
      BY <2>1 DEF CorkSend, CorkRead, Corked, Aligned
    <2> QED BY <1>0, <1>1, <1>2, <1>3, <1>4, <1>6, <2>1, <2>2, DFrame DEF DInv, vars
  <1> QED BY <1>7, <1>8

\* The connection that returns.
LEMMA ReturnKeepsD == ASSUME DInv, LinkReturns PROVE DInv'
  <1>0. UNCHANGED <<vars, live, attached, dnet, anet, faults, h, clientVars>>
    BY DEF LinkReturns
  <1>1. IInv' /\ Place'
    BY <1>0, ManagerIInv, PlaceStep DEF ManagerStep, DInv
  <1>2. up' \in BOOLEAN
    BY Zenon DEF LinkReturns
  <1>3. NetInv'
    BY <1>0, <1>2 DEF DInv, NetInv
  <1>4. CorkSend' /\ CorkRead'
    BY <1>0, CorkFrame DEF vars
  <1> QED BY <1>0, <1>1, <1>3, <1>4, DFrame DEF DInv, vars

\* Every step keeps the invariant.
LEMMA StepKeepsD == DInv /\ [DNext]_dvars => DInv'
  <1>1. ASSUME DInv, UNCHANGED dvars PROVE DInv'
    <2>0. UNCHANGED <<vars, netVars, h, clientVars>>
      BY <1>1 DEF dvars
    <2>1. IInv' /\ Place'
      BY <1>1, <2>0, ManagerIInv, PlaceStep DEF ManagerStep, DInv
    <2>2. UNCHANGED <<cc, streamId, connected, rwndSize, pkt>>
      BY <2>0 DEF vars
    <2> QED BY <1>1, <2>0, <2>1, <2>2, ManagerOnly
  <1>2. ASSUME DInv, DNext PROVE DInv'
    BY <1>2, ReadLoopKeepsD, SenderKeepsD, DrainKeepsD, SendKeepsD, DataKeepsD, CloseKeepsD,
       LoopReadsKeepsD, RestartKeepsD, ReconcileKeepsD, LoopStartsKeepsD, PrepareKeepsD,
       PreludeKeepsD, ConnectKeepsD, ConsumesKeepsD, ConnectedKeepsD, JobStartedKeepsD,
       StartStreamKeepsD, AckKeepsD, LostKeepsD, ReturnKeepsD, Zenon
       DEF DNext, JobManager, JobController
  <1> QED BY <1>1, <1>2

\* The first state satisfies the invariant.
LEMMA InitD == DInit => DInv
  <1> SUFFICES ASSUME DInit PROVE DInv
    OBVIOUS
  <1>0. /\ Init /\ up \in BOOLEAN /\ live = {1} /\ attached = {} /\ dnet = <<>> /\ anet = <<>>
        /\ cur = 1 /\ rd = NewReader(1, 0) /\ loop \in BOOLEAN /\ done \in BOOLEAN
        /\ file = <<>> /\ gap = 0 /\ faults = 0
    <2>1. up \in BOOLEAN /\ loop \in BOOLEAN /\ done \in BOOLEAN
      BY Zenon DEF DInit
    <2> QED BY <2>1 DEF DInit
  <1>1. 1 \in Stream
    BY StreamNumbers
  <1>2. IInv
    BY <1>0, InitIInv
  <1>3. /\ cb.total = 0 /\ diskEnd = 0 /\ cc = Idle /\ pkt = NoPacket /\ streamId = NoStream
    BY <1>0 DEF Init, MakeBuf
  <1>4. Place /\ CallInv /\ PacketInv /\ OwnerInv
    BY <1>3 DEF Place, CallInv, PacketInv, OwnerInv, Idle
  <1>5. NetInv /\ ProgressInv /\ DataInv /\ AckInv
    BY <1>0, <1>1, FaultAssumption DEF NetInv, ProgressInv, DataInv, AckInv, Elements
  <1>6. HandlerInv
    <2>1. \A b \in BOOLEAN :
            LET g == [pc |-> "connect", id |-> 1, seq |-> 0, job |-> b]
            IN  g \in HandlerState /\ g.id = 1 /\ g.job = b /\ g.pc = "connect"
      BY <1>1 DEF HandlerState
    <2>2. h = [pc |-> "connect", id |-> 1, seq |-> 0, job |-> TRUE]
      BY DEF DInit
    <2>3. h \in HandlerState /\ h.id = 1 /\ h.job /\ h.pc = "connect"
      BY <2>1, <2>2, Zenon
    <2> QED BY <1>0, <2>3 DEF HandlerInv
  <1>7. CallerInv
    <2>1. \A b \in BOOLEAN : LET g == [pc |-> "wait", seq |-> 0, done |-> b]
                             IN  g \in CallerState /\ g.pc = "wait"
      BY DEF CallerState
    <2>2. cl = [pc |-> "wait", seq |-> 0, done |-> FALSE]
      BY DEF DInit
    <2>3. cl \in CallerState /\ cl.pc = "wait"
      BY <2>1, <2>2, Zenon
    <2> QED BY <1>0, <1>1, <2>3 DEF CallerInv
  <1>8. rd \in ReaderState /\ rd.id = 1 /\ rd.ooo = {} /\ rd.buf = <<>> /\ rd.next = 0
    <2>1. rd = ReaderRec(1, 0, <<>>, {}, "none", TRUE, Rwnd)
      BY <1>0 DEF NewReader, ReaderRec
    <2>2. \A o \in BOOLEAN :
            LET r == ReaderRec(1, 0, <<>>, {}, "none", o, Rwnd)
            IN  /\ r \in ReaderState /\ r.id = 1 /\ r.next = 0 /\ r.ooo = {} /\ r.buf = <<>>
      <3> TAKE o \in BOOLEAN
      <3>1. ReaderRec(1, 0, <<>>, {}, "none", o, Rwnd) \in ReaderState
        <4>1. <<>> \in Seq(Byte) /\ {} \in SUBSET StoredPacket /\ 0 \in Nat
              /\ "none" \in {"none", "eof", "err"} /\ Rwnd \in 0..Rwnd
          BY RwndAssumption, SizesAssumption
        <4> QED BY <1>1, <4>1, ReaderType
      <3> QED BY <3>1 DEF ReaderRec
    <2> QED BY <2>1, <2>2, Zenon
  <1>9. ReaderInv
    BY <1>0, <1>8 DEF ReaderInv, Bounded
  <1>10. CorkSend /\ CorkRead
    BY <1>0 DEF CorkSend, CorkRead, Corked
  <1>11. Aligned
    BY <1>0, <1>8 DEF Aligned, Position
  <1> QED BY <1>2, <1>4, <1>5, <1>6, <1>7, <1>9, <1>10, <1>11 DEF DInv

\* The parts of the invariant add up to the types.
LEMMA DInvTypes == DInv => DTypeOK
  <1> SUFFICES ASSUME DInv PROVE DTypeOK
    OBVIOUS
  <1>1. /\ up \in BOOLEAN /\ live \subseteq Stream /\ attached \subseteq Stream
        /\ faults \in 0..MaxFaults
    <2>1. cur \in Stream /\ attached \subseteq 1..cur
      BY DEF DInv, NetInv, CallerInv
    <2> QED BY <2>1, StreamNumbers DEF DInv, NetInv
  <1>2. dnet \in Seq(Packet)
    BY DEF DInv, DataInv
  <1>3. anet \in Seq([id : Stream, seq : Nat, rwnd : 0..Rwnd, fin : BOOLEAN, cancel : BOOLEAN])
    BY DEF DInv, AckInv, AckState
  <1>4. h \in [pc : {"idle", "disconnect", "activate", "connect", "connecting", "attach"},
               id : Stream, seq : Nat, job : BOOLEAN]
    BY DEF DInv, HandlerInv, HandlerState
  <1>5. cur \in Stream /\ cl \in [pc : {"run", "ask", "wait", "resp", "start", "startok", "failed"},
                                  seq : Nat, done : BOOLEAN]
    BY DEF DInv, CallerInv, CallerState
  <1>6. rd \in [id : Stream, next : Nat, buf : Seq(Byte), ooo : SUBSET Packet,
                end : {"none", "eof", "err"}, open : BOOLEAN, rwndSent : 0..Rwnd]
    BY DEF DInv, ReaderInv, ReaderState, StoredPacket
  <1>7. loop \in BOOLEAN /\ done \in BOOLEAN /\ file \in Seq(Byte) /\ gap \in Nat
    BY DEF DInv, ProgressInv
  <1> QED BY <1>1, <1>2, <1>3, <1>4, <1>5, <1>6, <1>7, Zenon DEF DTypeOK

\* In every behaviour, of every number of connections and faults, the state of
\* the whole keeps its types: no position, window or stream number leaves its
\* range, and nothing in flight names a stream that was not made.
THEOREM DurableTypes == DSpec => []DTypeOK
  <1> QED BY InitD, StepKeepsD, DInvTypes, PTL DEF DSpec

\* The main server's two records of its place agree at every step of every
\* behaviour: through gaps, truncations, restarts by hand, packets out of order,
\* lost acknowledgements, quits, disk errors and drains cut short.
THEOREM RecordsAlign == DSpec => []Aligned
  <1>1. DInv => Aligned
    BY DEF DInv
  <1> QED BY <1>1, InitD, StepKeepsD, PTL DEF DSpec

\* What StreamManagerProofs shows of the stream manager with any client, it keeps
\* with the job manager and the main server that this repository gives it: its
\* types, its flow control and its disk file.
THEOREM ManagerInWhole == DSpec => [](TypeOK /\ FlowControl /\ DiskInv)
  <1>1. DInv => TypeOK /\ FlowControl /\ DiskInv
    BY TypesTypeOK, InvDisk DEF DInv, IInv
  <1> QED BY <1>1, InitD, StepKeepsD, PTL DEF DSpec
=============================================================================

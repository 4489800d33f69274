---------------------------- MODULE CirBufProofs ----------------------------
(***************************************************************************)
(* The ring of cirbuf.go for every size, byte set and set of writers: its  *)
(* type, its shape, and that it implements the abstract buffer FlowBuf.    *)
(***************************************************************************)
EXTENDS CirBuf, TLAPS

Inv == TypeOK /\ RingInv

USE CirBufSizeAssumption, NoWriterAssumption

-----------------------------------------------------------------------------
(* Arithmetic modulo the ring size, over the few laps that can occur.      *)

\* A position on the ring is its own remainder.
LEMMA ModSmall == ASSUME NEW N \in Nat \ {0}, NEW x \in Int, 0 <= x, x < N PROVE x % N = x
  BY SMT

\* One more lap around the ring changes no position.
LEMMA ModLap == ASSUME NEW N \in Nat \ {0}, NEW x \in Int, 0 <= x, x < 2*N PROVE (x + N) % N = x % N
  <1>1. CASE x < N
    BY <1>1, SMT
  <1>2. CASE x >= N
    BY <1>2, SMT
  <1> QED BY <1>1, <1>2

\* Reducing lands on a position of the ring.
LEMMA ModRange ==
    ASSUME NEW N \in Nat \ {0}, NEW x \in Int
    PROVE  x % N \in 0..(N - 1)
  BY SMT

\* A step around the ring taken in two parts is the step taken at once.
LEMMA ModAdd ==
    ASSUME NEW N \in Nat \ {0}, NEW r \in 0..(N-1), NEW a \in 0..N, NEW b \in 0..N
    PROVE  (((r + a) % N) + b) % N = (r + a + b) % N
  <1>1. CASE r + a < N
    <2>1. r + a \in Int /\ 0 <= r + a
      OBVIOUS
    <2>2. (r + a) % N = r + a
      BY <1>1, <2>1, ModSmall
    <2> QED BY <2>2
  <1>2. CASE r + a >= N
    <2> DEFINE y == r + a - N
    <2>1. y \in Int /\ 0 <= y /\ y < N /\ y < 2*N /\ y + b \in Int /\ 0 <= y + b /\ y + b < 2*N
      BY <1>2
    <2>2. r + a = y + N /\ r + a + b = (y + b) + N
      OBVIOUS
    <2> HIDE DEF y
    <2>3. y % N = y
      BY <2>1, ModSmall
    <2>4. (y + N) % N = y % N
      BY <2>1, ModLap
    <2>5. ((y + b) + N) % N = (y + b) % N
      BY <2>1, ModLap
    <2> QED BY <2>2, <2>3, <2>4, <2>5
  <1> QED BY <1>1, <1>2

\* Where a position that holds an old byte lies, counted from the tail.
LEMMA OffsetBehind ==
    ASSUME NEW N \in Nat \ {0}, NEW r \in 0..(N-1), NEW c \in 0..N,
           NEW j \in Nat, j < c
    PROVE  (((r + j) % N) - ((r + c) % N)) % N = j - c + N
  OBVIOUS

\* Where a position that takes a new byte lies, counted from the tail.
LEMMA OffsetAhead ==
    ASSUME NEW N \in Nat \ {0}, NEW r \in 0..(N-1), NEW c \in 0..N,
           NEW j \in Nat, c <= j, j < c + N
    PROVE  (((r + j) % N) - ((r + c) % N)) % N = j - c
  OBVIOUS

-----------------------------------------------------------------------------
(* The type invariant and the shape of the ring.                           *)

\* The ring after a write is still a ring of bytes.
LEMMA RingAfterType ==
    ASSUME TypeOK, NEW d \in Seq(Byte), NEW n \in 0..Len(d)
    PROVE  RingAfter(d, n) \in [Pos -> Byte]
  <1> SUFFICES ASSUME NEW p \in Pos,
                      ((p - writePos) % CirBufSize) + 1 <= n
               PROVE  d[((p - writePos) % CirBufSize) + 1] \in Byte
    BY DEF RingAfter, TypeOK
  <1>1. (p - writePos) % CirBufSize \in 0..(CirBufSize - 1)
    BY ModRange DEF TypeOK, Pos
  <1> QED BY <1>1

\* How much a call writes, and what it leaves in the ring.
LEMMA WriteSizes ==
    ASSUME Inv, NEW d \in Chunk, Written(d) > 0
    PROVE  LET n == Written(d)
               lost == Greater(0, count + n - windowSize)
           IN  /\ d \in Seq(Byte)
               /\ n \in 1..Len(d) /\ n <= CirBufSize
               /\ lost \in 0..CirBufSize
               /\ count + n - lost \in 0..CirBufSize
               /\ lost > 0 => count + n - lost = windowSize
               /\ lost = 0 => count + n <= windowSize
               /\ syncMode => lost = 0
  BY CirBufChunkAssumption DEF Inv, TypeOK, RingInv, Written, Lesser, Greater

\* Every state of the ring is well typed and well shaped at the start.
LEMMA InitInv == Init => Inv
  <1> SUFFICES ASSUME Init PROVE Inv
    OBVIOUS
  <1>1. TypeOK
    <2>1. PICK zero \in Byte : buf = [p \in Pos |-> zero]
      BY DEF Init
    <2>2. buf \in [Pos -> Byte]
      BY <2>1
    <2>3. 0 \in Pos /\ 0 \in 0..CirBufSize /\ CirBufSize \in 0..CirBufSize /\ 0 \in Nat
      BY DEF Pos
    <2>4. FALSE \in BOOLEAN /\ NoWriter \in Writer \union {NoWriter}
      OBVIOUS
    <2> QED BY <2>2, <2>3, <2>4, Zenon DEF Init, TypeOK
  <1>2. RingInv
    <2>1. 0 % CirBufSize = 0
      BY ModSmall
    <2> QED BY <2>1 DEF Init, RingInv
  <1> QED BY <1>1, <1>2 DEF Inv

\* No method of the ring breaks its type or its shape.
LEMMA NextInv == Inv /\ [Next]_vars => Inv'
  <1> SUFFICES ASSUME Inv, [Next]_vars PROVE Inv'
    OBVIOUS
  <1> USE DEF Inv
  <1>1. ASSUME NEW w \in Writer, NEW d \in Chunk, WriteAvailable(w, d)
        PROVE  Inv'
    <2>1. CASE WriteSome(d)
      <3> DEFINE n == Written(d)
                 lost == Greater(0, count + n - windowSize)
      <3>1. /\ d \in Seq(Byte)
            /\ n \in 1..Len(d) /\ n <= CirBufSize
            /\ lost \in 0..CirBufSize
            /\ count + n - lost \in 0..CirBufSize
            /\ lost > 0 => count + n - lost = windowSize
            /\ lost = 0 => count + n <= windowSize
            /\ syncMode => lost = 0
        BY <2>1, WriteSizes DEF WriteSome
      <3>2. RingAfter(d, n) \in [Pos -> Byte]
        BY <3>1, RingAfterType
      <3> HIDE DEF n, lost
      <3>3. (writePos + n) % CirBufSize \in Pos /\ (readPos + lost) % CirBufSize \in Pos
        <4>1. writePos + n \in Int /\ readPos + lost \in Int
          BY <3>1 DEF TypeOK, Pos
        <4> QED BY <4>1, ModRange DEF Pos
      <3>4. /\ buf' = RingAfter(d, n)
            /\ writePos' = (writePos + n) % CirBufSize
            /\ readPos' = (readPos + lost) % CirBufSize
            /\ count' = count + n - lost
            /\ totalSize' = totalSize + n
            /\ UNCHANGED <<syncMode, windowSize, waiter, panicked>>
        BY <2>1 DEF WriteSome, n, lost
      <3>5. TypeOK'
        BY <3>1, <3>2, <3>3, <3>4 DEF TypeOK
      <3>6. writePos' = (readPos' + count') % CirBufSize
        <4>1. readPos \in 0..(CirBufSize - 1) /\ count \in 0..CirBufSize
          BY DEF TypeOK, Pos
        <4>2. writePos' = (readPos + count + n) % CirBufSize
          <5>1. writePos' = (((readPos + count) % CirBufSize) + n) % CirBufSize
            BY <3>4 DEF RingInv
          <5>2. n \in 0..CirBufSize
            BY <3>1
          <5> QED BY <4>1, <5>1, <5>2, ModAdd
        <4>3. (readPos' + count') % CirBufSize
              = (readPos + lost + (count + n - lost)) % CirBufSize
          BY <3>1, <3>4, <4>1, ModAdd
        <4>4. readPos + lost + (count + n - lost) = readPos + count + n
          BY <3>1, <4>1
        <4> QED BY <4>2, <4>3, <4>4
      <3>7. ~syncMode' => count' <= windowSize'
        BY <3>1, <3>4 DEF TypeOK
      <3>8. (waiter # NoWriter => syncMode /\ count >= windowSize)'
        BY <3>1, <3>4 DEF TypeOK, RingInv
      <3> QED BY <3>5, <3>6, <3>7, <3>8 DEF RingInv
    <2>2. CASE WriteBlocked(w, d)
      <3>1. TypeOK'
        BY <2>2 DEF WriteBlocked, TypeOK
      <3>2. syncMode /\ count >= windowSize
        BY <2>2, CirBufChunkAssumption
        DEF WriteBlocked, Written, Lesser, Greater, TypeOK
      <3>3. RingInv'
        BY <2>2, <3>2 DEF WriteBlocked, RingInv
      <3> QED BY <3>1, <3>3
    <2> QED BY <1>1, <2>1, <2>2 DEF WriteAvailable
  <1>2. ASSUME NEW n \in 0..CirBufSize, Consume(n)
        PROVE  Inv'
    <2>1. n <= count /\ count - n \in 0..CirBufSize
      BY <1>2 DEF Consume, TypeOK
    <2>2. (readPos + n) % CirBufSize \in Pos
      BY ModRange DEF TypeOK, Pos
    <2>3. TypeOK'
      BY <1>2, <2>1, <2>2 DEF Consume, TypeOK
    <2>4. writePos' = (readPos' + count') % CirBufSize
      <3>1. (readPos' + count') % CirBufSize = (readPos + n + (count - n)) % CirBufSize
        BY <1>2, <2>1, ModAdd DEF Consume, TypeOK, Pos
      <3>2. readPos + n + (count - n) = readPos + count
        BY DEF TypeOK, Pos
      <3> QED BY <1>2, <3>1, <3>2 DEF Consume, RingInv
    <2>5. RingInv'
      BY <1>2, <2>1, <2>4 DEF Consume, RingInv, TypeOK
    <2> QED BY <2>3, <2>5
  <1>3. ASSUME NEW sync \in BOOLEAN, NEW window \in 0..(CirBufSize + 1),
               SetEffectiveWindow(sync, window)
        PROVE  Inv'
    <2> DEFINE w == Lesser(window, CirBufSize)
               excess == IF sync THEN 0 ELSE Greater(0, count - w)
    <2>1. /\ w \in 0..CirBufSize
          /\ excess \in 0..CirBufSize
          /\ count - excess \in 0..CirBufSize
          /\ ~sync => count - excess <= w
          /\ sync => excess = 0
      BY DEF TypeOK, Lesser, Greater
    <2> HIDE DEF w, excess
    <2>2. /\ windowSize' = w
          /\ syncMode' = sync
          /\ readPos' = (readPos + excess) % CirBufSize
          /\ count' = count - excess
          /\ waiter' = IF syncMode /\ (w > windowSize \/ ~sync) THEN NoWriter ELSE waiter
          /\ UNCHANGED <<buf, writePos, totalSize, panicked>>
      BY <1>3 DEF SetEffectiveWindow, w, excess
    <2>3. (readPos + excess) % CirBufSize \in Pos
      BY <2>1, ModRange DEF TypeOK, Pos
    <2>4. TypeOK'
      BY <2>1, <2>2, <2>3 DEF TypeOK
    <2>5. writePos' = (readPos' + count') % CirBufSize
      <3>1. (readPos' + count') % CirBufSize
            = (readPos + excess + (count - excess)) % CirBufSize
        BY <2>1, <2>2, ModAdd DEF TypeOK, Pos
      <3>2. readPos + excess + (count - excess) = readPos + count
        BY <2>1 DEF TypeOK, Pos
      <3> QED BY <2>2, <3>1, <3>2 DEF RingInv
    <2>6. (waiter # NoWriter => syncMode /\ count >= windowSize)'
      BY <2>1, <2>2 DEF RingInv, TypeOK
    <2>7. RingInv'
      BY <2>1, <2>2, <2>5, <2>6 DEF RingInv
    <2> QED BY <2>4, <2>7
  <1>4. ASSUME NEW total \in 0..MaxTotal, SetTotalSize(total)
        PROVE  Inv'
    BY <1>4, CirBufMaxTotalAssumption DEF SetTotalSize, TypeOK, RingInv
  <1>5. CASE UNCHANGED vars
    BY <1>5 DEF vars, TypeOK, RingInv
  <1> QED BY <1>1, <1>2, <1>3, <1>4, <1>5 DEF Next

\* Type correctness of the ring of cirbuf.go.
THEOREM TypeCorrect == Spec => []TypeOK
  <1>1. Inv => TypeOK
    BY DEF Inv
  <1> QED BY <1>1, InitInv, NextInv, PTL DEF Spec

\* The head and tail of the ring stay `count` apart, and no writer stays
\* parked once the ring has room or has left synchronous mode.
THEOREM RingCorrect == Spec => []RingInv
  <1>1. Inv => RingInv
    BY DEF Inv
  <1> QED BY <1>1, InitInv, NextInv, PTL DEF Spec
-----------------------------------------------------------------------------
(* The ring implements the abstract buffer.                                *)

\* The bytes a ring holds are a sequence of bytes of the ring's length.
LEMMA ContentsType ==
    ASSUME TypeOK
    PROVE  Contents \in Seq(Byte) /\ Len(Contents) = count
  <1>1. \A i \in 1..count : (readPos + i - 1) % CirBufSize \in Pos
    BY ModRange DEF TypeOK, Pos
  <1>2. Contents \in [1..count -> Byte]
    BY <1>1 DEF Contents, TypeOK
  <1>3. count \in Nat
    BY DEF TypeOK
  <1> QED BY <1>2, <1>3

\* Dropping bytes at the head of the ring drops them from its contents.
LEMMA ContentsDrop ==
    ASSUME TypeOK, NEW n \in 0..count,
           readPos' = (readPos + n) % CirBufSize, count' = count - n, buf' = buf
    PROVE  Contents' = DropFirst(Contents, n)
  <1>1. /\ count \in 0..CirBufSize /\ readPos \in 0..(CirBufSize - 1)
        /\ n \in 0..CirBufSize
    BY DEF TypeOK, Pos
  <1>2. Len(Contents) = count /\ Contents \in Seq(Byte)
    BY ContentsType
  <1>3. DropFirst(Contents, n) = [i \in 1..(count - n) |-> Contents[i + n]]
    BY <1>1, <1>2 DEF DropFirst
  <1>4. ASSUME NEW i \in 1..(count - n)
        PROVE  buf'[(readPos' + i - 1) % CirBufSize] = Contents[i + n]
    <2>1. i - 1 \in 0..CirBufSize /\ i + n \in 1..count
      BY <1>1
    <2>2. (((readPos + n) % CirBufSize) + (i - 1)) % CirBufSize
          = (readPos + n + (i - 1)) % CirBufSize
      BY <1>1, <2>1, ModAdd
    <2>3. /\ readPos + n + (i - 1) = readPos + (i + n) - 1
          /\ ((readPos + n) % CirBufSize) + (i - 1) = ((readPos + n) % CirBufSize) + i - 1
      BY <1>1, <2>1, ModRange
    <2>4. Contents[i + n] = buf[(readPos + (i + n) - 1) % CirBufSize]
      BY <2>1 DEF Contents
    <2> QED BY <2>2, <2>3, <2>4
  <1>5. Contents' = [i \in 1..(count - n) |-> buf'[(readPos' + i - 1) % CirBufSize]]
    BY DEF Contents
  <1> QED BY <1>3, <1>4, <1>5

\* Writing to the ring appends to its contents and drops what the window
\* no longer covers from the head.
LEMMA ContentsWrite ==
    ASSUME Inv, NEW d \in Chunk, WriteSome(d)
    PROVE  Contents' = DropFirst(Contents \o SubSeq(d, 1, Written(d)),
                                 Greater(0, count + Written(d) - windowSize))
  <1> DEFINE S == CirBufSize
             n == Written(d)
             lost == Greater(0, count + n - windowSize)
  <1>1. /\ d \in Seq(Byte)
        /\ n \in 1..Len(d) /\ n <= S
        /\ lost \in 0..S
        /\ count + n - lost \in 0..S
    BY WriteSizes DEF WriteSome
  <1>2. /\ buf' = RingAfter(d, n)
        /\ readPos' = (readPos + lost) % S
        /\ count' = count + n - lost
    BY DEF WriteSome
  <1>3. /\ S \in Nat \ {0} /\ count \in 0..S
        /\ readPos \in 0..(S - 1) /\ writePos \in 0..(S - 1)
        /\ writePos = (readPos + count) % S
    BY DEF Inv, TypeOK, RingInv, Pos
  <1>4. Len(Contents) = count /\ Contents \in Seq(Byte)
    BY ContentsType DEF Inv
  <1> HIDE DEF n, lost
  <1> DEFINE whole == Contents \o SubSeq(d, 1, n)
  <1>5. /\ whole \in Seq(Byte) /\ Len(whole) = count + n
        /\ \A j \in 1..(count + n) :
              whole[j] = IF j <= count THEN Contents[j] ELSE d[j - count]
    BY <1>1, <1>3, <1>4
  <1> HIDE DEF whole
  <1>6. DropFirst(whole, lost) = [i \in 1..(count + n - lost) |-> whole[i + lost]]
    BY <1>1, <1>3, <1>5 DEF DropFirst
  <1>7. ASSUME NEW i \in 1..(count + n - lost)
        PROVE  buf'[(readPos' + i - 1) % S] = whole[i + lost]
    <2> DEFINE j == i - 1 + lost
               p == (readPos + j) % S
    <2>1. /\ i - 1 \in 0..S /\ lost \in 0..S /\ j \in Nat
          /\ j < count + n /\ j + 1 = i + lost /\ lost + (i - 1) = j
          /\ count + n - lost <= S /\ readPos + j \in Int
      BY <1>1, <1>3
    <2> HIDE DEF j
    <2>2. (readPos' + i - 1) % S = p
      <3>1. (((readPos + lost) % S) + (i - 1)) % S = (readPos + lost + (i - 1)) % S
        BY <1>3, <2>1, ModAdd
      <3>2. readPos' + i - 1 = ((readPos + lost) % S) + (i - 1)
        BY <1>2, <1>3, <2>1, ModRange
      <3>3. readPos + lost + (i - 1) = readPos + j
        BY <1>3, <2>1
      <3> QED BY <3>1, <3>2, <3>3
    <2>3. p \in Pos
      BY <1>3, <2>1, ModRange DEF Pos
    <2>8. p - writePos = ((readPos + j) % S) - ((readPos + count) % S)
      BY <1>3
    <2> HIDE DEF p
    <2>4. buf'[p] = LET k == ((p - writePos) % S) + 1
                    IN  IF k <= n THEN d[k] ELSE buf[p]
      BY <1>2, <2>3 DEF RingAfter
    <2>5. CASE j < count
      <3>1. (p - writePos) % S = j - count + S
        <4>1. (((readPos + j) % S) - ((readPos + count) % S)) % S = j - count + S
          BY <1>3, <2>1, <2>5, OffsetBehind
        <4> QED BY <2>8, <4>1
      <3>2. j - count + S >= n
        BY <1>1, <1>3, <2>1, <2>5
      <3>3. buf'[p] = buf[p]
        <4>1. ~(j - count + S + 1 <= n)
          BY <1>1, <1>3, <2>1, <3>2
        <4> QED BY <2>4, <3>1, <4>1
      <3>4. Contents[j + 1] = buf[p]
        <4>1. j + 1 \in 1..count /\ readPos + (j + 1) - 1 = readPos + j
          BY <1>3, <2>1, <2>5
        <4> QED BY <4>1 DEF Contents, p
      <3>5. whole[i + lost] = Contents[j + 1]
        BY <1>1, <1>3, <1>5, <2>1, <2>5
      <3> QED BY <2>2, <3>3, <3>4, <3>5
    <2>6. CASE j >= count
      <3>1. (p - writePos) % S = j - count
        <4>1. j < count + S
          BY <1>1, <1>3, <2>1
        <4>2. (((readPos + j) % S) - ((readPos + count) % S)) % S = j - count
          BY <1>3, <2>1, <2>6, <4>1, OffsetAhead
        <4> QED BY <2>8, <4>2
      <3>2. buf'[p] = d[j - count + 1]
        BY <1>1, <1>3, <2>1, <2>4, <2>6, <3>1
      <3>3. whole[i + lost] = d[j + 1 - count] /\ j + 1 - count = j - count + 1
        <4>1. j + 1 \in 1..(count + n) /\ ~(j + 1 <= count) /\ j + 1 - count = j - count + 1
          BY <1>1, <1>3, <2>1, <2>6
        <4>2. whole[j + 1] = d[j + 1 - count]
          BY <1>3, <1>5, <2>1, <4>1
        <4> QED BY <2>1, <4>1, <4>2
      <3> QED BY <2>2, <3>2, <3>3
    <2> QED BY <1>3, <2>1, <2>5, <2>6
  <1>8. Contents' = [i \in 1..(count + n - lost) |-> buf'[(readPos' + i - 1) % S]]
    BY <1>2 DEF Contents
  <1>9. Contents' = DropFirst(whole, lost)
    BY <1>6, <1>7, <1>8
  <1> QED BY <1>9 DEF whole, lost, n

\* A buffer record, field by field.
BufRec(data, total, sync, window, waiting, panic) ==
    [data |-> data, total |-> total, sync |-> sync,
     window |-> window, waiter |-> waiting, panic |-> panic]

\* The operators of the abstract buffer, field by field.
LEMMA ConsumeRec ==
    ASSUME NEW a, NEW b, NEW c, NEW d, NEW e, NEW f, NEW n
    PROVE  FB!BufConsume(BufRec(a, b, c, d, e, f), n)
           = BufRec(FB!DropFirst(a, n), b, c, d, NoWriter, f)
  <1> DEFINE r == BufRec(a, b, c, d, e, f)
             x == FB!DropFirst(a, n)
  <1>1. FB!BufConsume(r, n) = [r EXCEPT !.data = x, !.waiter = NoWriter]
    BY Zenon DEF FB!BufConsume, BufRec
  <1> HIDE DEF x
  <1>2. [r EXCEPT !.data = x, !.waiter = NoWriter]
        = [[r EXCEPT !.data = x] EXCEPT !.waiter = NoWriter]
    BY DEF BufRec
  <1>3. [r EXCEPT !.data = x] = BufRec(x, b, c, d, e, f)
    BY DEF BufRec
  <1>4. [BufRec(x, b, c, d, e, f) EXCEPT !.waiter = NoWriter]
        = BufRec(x, b, c, d, NoWriter, f)
    BY DEF BufRec
  <1> QED BY <1>1, <1>2, <1>3, <1>4, Zenon DEF x

\* What a new window leaves, as a record.
LEMMA WindowRec ==
    ASSUME NEW a, NEW b, NEW c, NEW d, NEW e, NEW f, NEW sync, NEW window
    PROVE  LET w    == FB!Lesser(window, CirBufSize)
               over == IF sync THEN 0 ELSE FB!Greater(0, Len(a) - w)
               woken == IF c /\ (w > d \/ ~sync) THEN NoWriter ELSE e
           IN  FB!BufSetWindow(BufRec(a, b, c, d, e, f), sync, window)
               = BufRec(FB!DropFirst(a, over), b, sync, w, woken, f)
  <1> DEFINE r == BufRec(a, b, c, d, e, f)
             z == FB!Lesser(window, CirBufSize)
             x == FB!DropFirst(a, IF sync THEN 0 ELSE FB!Greater(0, Len(a) - z))
             u == IF c /\ (z > d \/ ~sync) THEN NoWriter ELSE e
  <1>1. FB!BufSetWindow(r, sync, window)
        = [r EXCEPT !.data = x, !.sync = sync, !.window = z, !.waiter = u]
    BY Zenon DEF FB!BufSetWindow, BufRec
  <1> HIDE DEF x, z, u
  <1>2. [r EXCEPT !.data = x, !.sync = sync, !.window = z, !.waiter = u]
        = [[[[r EXCEPT !.data = x] EXCEPT !.sync = sync] EXCEPT !.window = z]
             EXCEPT !.waiter = u]
    BY DEF BufRec
  <1>3. [r EXCEPT !.data = x] = BufRec(x, b, c, d, e, f)
    BY DEF BufRec
  <1>4. [BufRec(x, b, c, d, e, f) EXCEPT !.sync = sync] = BufRec(x, b, sync, d, e, f)
    BY DEF BufRec
  <1>5. [BufRec(x, b, sync, d, e, f) EXCEPT !.window = z] = BufRec(x, b, sync, z, e, f)
    BY DEF BufRec
  <1>6. [BufRec(x, b, sync, z, e, f) EXCEPT !.waiter = u] = BufRec(x, b, sync, z, u, f)
    BY DEF BufRec
  <1>7. FB!BufSetWindow(r, sync, window) = BufRec(x, b, sync, z, u, f)
    BY <1>1, <1>2, <1>3, <1>4, <1>5, <1>6, Zenon
  <1> QED BY <1>7 DEF x, z, u

\* Every method of the ring is a step of the abstract buffer.
LEMMA StepRefines == Inv /\ [Next]_vars => [FB!Next]_AbsBuf
  <1> SUFFICES ASSUME Inv, [Next]_vars PROVE [FB!Next]_AbsBuf
    OBVIOUS
  <1>t. TypeOK /\ Contents \in Seq(Byte) /\ Len(Contents) = count
    BY ContentsType DEF Inv
  <1>r. AbsBuf = BufRec(Contents, totalSize, syncMode, windowSize, waiter, panicked)
    BY DEF AbsBuf, BufRec
  <1>1. ASSUME ~panicked, NEW w \in Writer, NEW d \in Chunk, WriteAvailable(w, d)
        PROVE  FB!Next
    <2>1. FB!Writable(AbsBuf, d) = Written(d)
      BY <1>t DEF FB!Writable, Written, AbsBuf, FB!Lesser, FB!Greater, Lesser, Greater
    <2>2. FB!Dropped(AbsBuf, Written(d)) = Greater(0, count + Written(d) - windowSize)
      BY <1>t DEF FB!Dropped, AbsBuf, FB!Greater, Greater
    <2>3. CASE WriteSome(d)
      <3>1. Contents' = FB!DropFirst(Contents \o SubSeq(d, 1, Written(d)),
                                     FB!Dropped(AbsBuf, Written(d)))
        BY <2>2, <2>3, ContentsWrite DEF DropFirst, FB!DropFirst
      <3>2. AbsBuf' = FB!BufWrite(AbsBuf, w, d)
        BY <2>1, <2>3, <3>1 DEF FB!BufWrite, AbsBuf, WriteSome
      <3> QED BY <1>1, <1>t, <3>2 DEF WriteAvailable, FB!Next, FB!Write, AbsBuf
    <2>4. CASE WriteBlocked(w, d)
      <3>1. Contents' = Contents
        BY <2>4 DEF WriteBlocked, Contents
      <3>2. AbsBuf' = FB!BufWrite(AbsBuf, w, d)
        <4>1. Written(d) = 0 /\ UNCHANGED <<totalSize, syncMode, windowSize>>
          BY <2>4 DEF WriteBlocked
        <4>0. FB!Writable(AbsBuf, d) = 0 /\ AbsBuf.waiter = waiter
          BY <2>1, <4>1 DEF AbsBuf
        <4>2. CASE waiter = NoWriter
          <5>1. FB!BufWrite(AbsBuf, w, d) =
                  BufRec(Contents, totalSize, syncMode, windowSize, w, panicked)
            <6>1. FB!BufWrite(AbsBuf, w, d) = [AbsBuf EXCEPT !.waiter = w]
              BY <4>0, <4>2 DEF FB!BufWrite
            <6>2. [BufRec(Contents, totalSize, syncMode, windowSize, waiter, panicked)
                      EXCEPT !.waiter = w]
                  = BufRec(Contents, totalSize, syncMode, windowSize, w, panicked)
              BY DEF BufRec
            <6> QED BY <1>r, <6>1, <6>2, Zenon
          <5>2. waiter' = w /\ panicked' = panicked
            BY <2>4, <4>2 DEF WriteBlocked
          <5> QED BY <3>1, <4>1, <5>1, <5>2, Zenon DEF AbsBuf, BufRec
        <4>3. CASE waiter # NoWriter
          <5> DEFINE yes == TRUE
          <5>1. yes = TRUE
            OBVIOUS
          <5>2. FB!BufWrite(AbsBuf, w, d) = [AbsBuf EXCEPT !.panic = yes]
            BY <4>0, <4>3 DEF FB!BufWrite
          <5>3. waiter' = waiter /\ panicked' = yes
            BY <2>4, <4>3 DEF WriteBlocked
          <5> HIDE DEF yes
          <5>4. [BufRec(Contents, totalSize, syncMode, windowSize, waiter, panicked)
                    EXCEPT !.panic = yes]
                = BufRec(Contents, totalSize, syncMode, windowSize, waiter, yes)
            BY DEF BufRec
          <5> QED BY <1>r, <3>1, <4>1, <5>2, <5>3, <5>4, Zenon DEF AbsBuf, BufRec
        <4> QED BY <4>2, <4>3
      <3> QED BY <1>1, <1>t, <3>2 DEF WriteAvailable, FB!Next, FB!Write, AbsBuf
    <2> QED BY <1>1, <2>3, <2>4 DEF WriteAvailable
  <1>2. ASSUME ~panicked, NEW n \in 0..CirBufSize, Consume(n)
        PROVE  FB!Next
    <2>1. Contents' = FB!DropFirst(Contents, n)
      BY <1>2, <1>t, ContentsDrop DEF Consume, DropFirst, FB!DropFirst, TypeOK
    <2>2. AbsBuf' = FB!BufConsume(AbsBuf, n)
      <3>1. FB!BufConsume(AbsBuf, n) =
              BufRec(FB!DropFirst(Contents, n), totalSize, syncMode, windowSize, NoWriter, panicked)
        BY <1>r, ConsumeRec
      <3>2. UNCHANGED <<totalSize, syncMode, windowSize, panicked>> /\ waiter' = NoWriter
        BY <1>2 DEF Consume
      <3> QED BY <2>1, <3>1, <3>2, Zenon DEF AbsBuf, BufRec
    <2> QED BY <1>2, <1>t, <2>2 DEF FB!Next, FB!Consume, FB!CanConsume, AbsBuf, Consume
  <1>3. ASSUME ~panicked, NEW sync \in BOOLEAN, NEW window \in 0..(CirBufSize + 1),
               SetEffectiveWindow(sync, window)
        PROVE  FB!Next
    <2> DEFINE w == Lesser(window, CirBufSize)
               excess == IF sync THEN 0 ELSE Greater(0, count - w)
    <2>1. excess \in 0..count
      BY <1>t DEF TypeOK, Lesser, Greater
    <2>2. Contents' = FB!DropFirst(Contents, excess)
      BY <1>3, <1>t, <2>1, ContentsDrop DEF SetEffectiveWindow, DropFirst, FB!DropFirst
    <2>3. /\ FB!Lesser(window, CirBufSize) = w
          /\ FB!Greater(0, count - w) = Greater(0, count - w)
      BY DEF FB!Lesser, FB!Greater, Lesser, Greater
    <2>4. AbsBuf' = FB!BufSetWindow(AbsBuf, sync, window)
      <3> DEFINE woken == IF syncMode /\ (w > windowSize \/ ~sync) THEN NoWriter ELSE waiter
      <3>1. FB!BufSetWindow(AbsBuf, sync, window) =
              BufRec(FB!DropFirst(Contents, excess), totalSize, sync, w, woken, panicked)
        BY <1>r, <1>t, <2>3, WindowRec
      <3>2. /\ UNCHANGED <<totalSize, panicked>>
            /\ syncMode' = sync /\ windowSize' = w /\ waiter' = woken
        BY <1>3 DEF SetEffectiveWindow
      <3> HIDE DEF woken, w, excess
      <3> QED BY <2>2, <3>1, <3>2, Zenon DEF AbsBuf, BufRec
    <2> QED BY <1>3, <2>4 DEF FB!Next, FB!SetWindow, AbsBuf
  <1>4. ASSUME ~panicked, NEW total \in 0..MaxTotal, SetTotalSize(total)
        PROVE  FB!Next
    <2>1. AbsBuf' = FB!BufSetTotal(AbsBuf, total)
      <3>1. FB!BufSetTotal(AbsBuf, total) =
              BufRec(Contents, total, syncMode, windowSize, waiter, panicked)
        BY DEF FB!BufSetTotal, AbsBuf, BufRec
      <3>2. UNCHANGED <<Contents, syncMode, windowSize, waiter, panicked>>
        BY <1>4 DEF SetTotalSize, Contents
      <3>3. totalSize' = total
        BY <1>4 DEF SetTotalSize
      <3> QED BY <3>1, <3>2, <3>3, Zenon DEF AbsBuf, BufRec
    <2> QED BY <1>4, <1>t, <2>1 DEF FB!Next, FB!SetTotal, AbsBuf, SetTotalSize
  <1>5. CASE UNCHANGED vars
    BY <1>5 DEF vars, AbsBuf, Contents
  <1> QED BY <1>1, <1>2, <1>3, <1>4, <1>5 DEF Next

\* An empty ring stands for an empty abstract buffer.
LEMMA InitRefines == Init => FB!Init
  <1> SUFFICES ASSUME Init PROVE FB!Init
    OBVIOUS
  <1>1. Contents = <<>>
    BY DEF Init, Contents
  <1> QED BY <1>1 DEF Init, FB!Init, FB!MakeBuf, AbsBuf

\* The ring of cirbuf.go implements the flow-control buffer: the bytes come
\* out in the order they went in, at every size, window and mode change.
THEOREM Refinement == Spec => ImplementsFlowBuf
  BY InitInv, NextInv, InitRefines, StepRefines, PTL
  DEF Spec, ImplementsFlowBuf, FB!Spec

-----------------------------------------------------------------------------
(* What a peek reads.                                                      *)

\* PeekDataAt, at any offset and length and across the end of the ring,
\* reads what the abstract buffer holds there.
LEMMA PeekReads ==
    ASSUME TypeOK, NEW offset \in 0..CirBufSize, NEW len \in 0..CirBufSize
    PROVE  PeekDataAt(offset, len) = BufPeek(AbsBuf, offset, len)
  <1>1. /\ count \in 0..CirBufSize /\ readPos \in 0..(CirBufSize - 1)
        /\ CirBufSize \in Nat
    BY DEF TypeOK, Pos
  <1>2. Contents \in Seq(Byte) /\ Len(Contents) = count
    BY ContentsType
  <1>3. AbsBuf.data = Contents
    BY DEF AbsBuf
  <1>4. CASE offset >= count
    <2>1. PeekDataAt(offset, len) = <<>>
      BY <1>1, <1>4 DEF PeekDataAt
    <2>2. BufPeek(AbsBuf, offset, len) = <<>>
      BY <1>1, <1>2, <1>3, <1>4 DEF BufPeek, Lesser
    <2> QED BY <2>1, <2>2
  <1>5. CASE offset < count
    <2> DEFINE n == Lesser(len, count - offset)
    <2>1. /\ n \in 0..CirBufSize /\ offset + n \in 0..count
          /\ Lesser(offset + len, count) = offset + n
      BY <1>1, <1>5 DEF Lesser
    <2>2. PeekDataAt(offset, len)
            = [i \in 1..n |-> buf[(readPos + offset + i - 1) % CirBufSize]]
      BY <1>1, <1>5 DEF PeekDataAt
    <2>3. BufPeek(AbsBuf, offset, len) = SubSeq(Contents, offset + 1, offset + n)
      BY <1>1, <1>2, <1>3, <1>5, <2>1 DEF BufPeek
    <2> HIDE DEF n
    <2>4. SubSeq(Contents, offset + 1, offset + n)
            = [i \in 1..n |-> Contents[i + offset]]
      BY <1>1, <1>2, <2>1
    <2>5. ASSUME NEW i \in 1..n
          PROVE  Contents[i + offset] = buf[(readPos + offset + i - 1) % CirBufSize]
      <3>1. i + offset \in 1..count
        BY <1>1, <2>1
      <3>2. readPos + (i + offset) - 1 = readPos + offset + i - 1
        BY <1>1, <2>1
      <3>3. Contents[i + offset] = buf[(readPos + (i + offset) - 1) % CirBufSize]
        BY <3>1 DEF Contents
      <3> QED BY <3>2, <3>3
    <2> QED BY <2>2, <2>3, <2>4, <2>5
  <1> QED BY <1>1, <1>4, <1>5

\* A peek at any offset returns the bytes the abstract buffer holds there.
THEOREM PeekCorrect == Spec => []PeekReadsContents
  <1>1. Inv => PeekReadsContents
    BY PeekReads DEF Inv, PeekReadsContents
  <1> QED BY <1>1, InitInv, NextInv, PTL DEF Spec
=============================================================================

----------------------------- MODULE TerminalProofs -----------------------------
(***************************************************************************)
(* A durable terminal's input path, for every capacity of the channel and  *)
(* every number of sessions and keys: a send never blocks with the queue's *)
(* lock held, nothing is held back without a timer, no key that the queue  *)
(* took is lost or given to the program twice, and the keys of a session   *)
(* leave in their order.                                                   *)
(*                                                                         *)
(* Its files, for every size of a part, a file, a read and an echo: the    *)
(* cache and the database of pkg/filestore together are the file that      *)
(* StoredFile promises; the job's file is what was read from the stream,   *)
(* and the block's file gets all of it, from one failed append, unsaved    *)
(* loss, gap or truncation to the next; and a restart of the stream asks   *)
(* for no output past the place that was read.                             *)
(***************************************************************************)
EXTENDS Terminal, FiniteSetTheorems, WellFoundedInduction, TLAPS

\* What the proofs need of the constants.
LEMMA Numbers == MaxSeq \in Nat /\ Capacity \in Nat /\ Session \subseteq Nat
  BY QueueAssumption, TerminalAssumption

-----------------------------------------------------------------------------
(* Sequences and sorted sets of keys *)

\* What two sequences hold together.
LEMMA ItemsConcat ==
    ASSUME NEW s \in Seq(Key), NEW t \in Seq(Key)
    PROVE  /\ s \o t \in Seq(Key) /\ Len(s \o t) = Len(s) + Len(t)
           /\ Items(s \o t) = Items(s) \union Items(t)
  <1>1. s \o t \in Seq(Key) /\ Len(s \o t) = Len(s) + Len(t)
    OBVIOUS
  <1>2. ASSUME NEW i \in DOMAIN s PROVE (s \o t)[i] = s[i] /\ i \in DOMAIN (s \o t)
    OBVIOUS
  <1>3. ASSUME NEW i \in DOMAIN t
        PROVE  (s \o t)[Len(s) + i] = t[i] /\ Len(s) + i \in DOMAIN (s \o t)
    OBVIOUS
  <1>4. ASSUME NEW i \in DOMAIN (s \o t)
        PROVE  (s \o t)[i] \in Items(s) \union Items(t)
    <2>1. CASE i <= Len(s)
      BY <2>1 DEF Items
    <2>2. CASE i > Len(s)
      <3>1. i - Len(s) \in DOMAIN t /\ (s \o t)[i] = t[i - Len(s)]
        BY <2>2
      <3> QED BY <3>1 DEF Items
    <2> QED BY <2>1, <2>2
  <1>5. Items(s \o t) \subseteq Items(s) \union Items(t)
    BY <1>4 DEF Items
  <1>6. Items(s) \subseteq Items(s \o t)
    BY <1>2 DEF Items
  <1>7. Items(t) \subseteq Items(s \o t)
    BY <1>3 DEF Items
  <1> QED BY <1>1, <1>5, <1>6, <1>7

\* What a sequence holds with one key more.
LEMMA ItemsAppend ==
    ASSUME NEW s \in Seq(Key), NEW k \in Key
    PROVE  /\ Append(s, k) \in Seq(Key) /\ Len(Append(s, k)) = Len(s) + 1
           /\ Items(Append(s, k)) = Items(s) \union {k}
  <1>1. /\ Append(s, k) \in Seq(Key) /\ Len(Append(s, k)) = Len(s) + 1
        /\ DOMAIN Append(s, k) = 1..(Len(s) + 1) /\ DOMAIN s = 1..Len(s)
    OBVIOUS
  <1>2. \A i \in DOMAIN s : Append(s, k)[i] = s[i]
    OBVIOUS
  <1>3. Append(s, k)[Len(s) + 1] = k
    OBVIOUS
  <1>4. 1..(Len(s) + 1) = 1..Len(s) \union {Len(s) + 1}
    OBVIOUS
  <1> QED BY <1>1, <1>2, <1>3, <1>4 DEF Items

\* The sessions are told apart, and the queue holds finitely many keys.
QueueType ==
    /\ order \in Seq(Session)
    /\ \A i, j \in DOMAIN order : order[i] = order[j] => i = j
    /\ buffer \subseteq Key /\ IsFiniteSet(buffer) /\ outCh \in Seq(Key)

\* A key is not before itself.
LEMMA BeforeIrreflexive ==
    ASSUME QueueType, NEW k \in Key
    PROVE  ~Before(k, k)
  <1>1. k.n \in Nat
    BY DEF Key
  <1>2. ~Earlier(k.s, k.s)
    BY DEF Earlier, QueueType
  <1> QED BY <1>1, <1>2 DEF Before

\* Keys that leave the buffer in their order: all of them, each once.
LEMMA SortedRun ==
    ASSUME QueueType, NEW S \in SUBSET buffer, NEW e \in Sorted(S)
    PROVE  /\ e \in Seq(Key) /\ Len(e) = Cardinality(S) /\ Items(e) = S
           /\ IsFiniteSet(buffer \ S) /\ Cardinality(buffer) \in Nat
           /\ Cardinality(buffer \ S) \in Nat /\ Cardinality(S) \in Nat
           /\ Cardinality(buffer \ S) + Cardinality(S) = Cardinality(buffer)
  <1>1. IsFiniteSet(S) /\ Cardinality(S) \in Nat
    BY FS_Subset, FS_CardinalityType DEF QueueType
  <1> DEFINE n == Cardinality(S)
  <1>2. e \in [1..n -> S] /\ \A i, j \in 1..n : i < j => Before(e[i], e[j])
    BY DEF Sorted
  <1>3. \A i \in 1..n : e[i] \in S /\ e[i] \in Key
    BY <1>2 DEF QueueType
  <1>4. \A i, j \in 1..n : i < j => e[i] # e[j]
    BY <1>2, <1>3, BeforeIrreflexive
  <1>5. \A i, j \in 1..n : e[i] = e[j] => i = j
    <2> HIDE DEF n
    <2> QED BY <1>1, <1>4 DEF n
  <1>6. e \in Injection(1..n, S)
    BY <1>2, <1>5 DEF Injection, IsInjective
  <1>7. Cardinality(1..n) = n
    <2>1. n \in Nat
      BY <1>1
    <2> HIDE DEF n
    <2> QED BY <2>1, FS_Interval
  <1>8. e \in Surjection(1..n, S)
    BY <1>1, <1>6, <1>7, FS_Injection
  <1>9. e \in Seq(Key) /\ Len(e) = n
    <2>1. n \in Nat /\ e \in [1..n -> Key]
      BY <1>1, <1>2, <1>3
    <2> HIDE DEF n
    <2> QED BY <2>1
  <1>10. Items(e) = S
    BY <1>2, <1>8 DEF Items, Surjection
  <1>11. buffer \intersect S = S
    OBVIOUS
  <1>12. /\ IsFiniteSet(buffer \ S) /\ Cardinality(buffer) \in Nat /\ Cardinality(buffer \ S) \in Nat
         /\ Cardinality(buffer \ S) = Cardinality(buffer) - Cardinality(S)
    BY <1>11, FS_Difference, FS_CardinalityType DEF QueueType
  <1> QED BY <1>1, <1>9, <1>10, <1>12

-----------------------------------------------------------------------------
(* The operations of the queue *)

\* What the queue holds, and how much that is.
Held   == buffer \union Items(outCh)
Amount == Cardinality(buffer) + Len(outCh)

\* A set of keys moves from the buffer to the channel, after some keys of which
\* the queue knew nothing.
LEMMA Moves ==
    ASSUME QueueType, NEW S \in SUBSET buffer, NEW e \in Sorted(S), UNCHANGED order,
           NEW more \in Seq(Key), outCh' = (outCh \o more) \o e, buffer' = buffer \ S
    PROVE  /\ QueueType' /\ Held' = Held \union Items(more) /\ Amount' = Amount + Len(more)
  <1>1. /\ e \in Seq(Key) /\ Len(e) = Cardinality(S) /\ Items(e) = S
        /\ IsFiniteSet(buffer \ S) /\ Cardinality(buffer) \in Nat
        /\ Cardinality(buffer \ S) \in Nat /\ Cardinality(S) \in Nat
        /\ Cardinality(buffer \ S) + Cardinality(S) = Cardinality(buffer)
    BY SortedRun
  <1>2. outCh \in Seq(Key) /\ Len(outCh) \in Nat /\ Len(more) \in Nat
    BY DEF QueueType
  <1>3. /\ outCh \o more \in Seq(Key) /\ Len(outCh \o more) = Len(outCh) + Len(more)
        /\ Items(outCh \o more) = Items(outCh) \union Items(more)
    BY <1>2, ItemsConcat
  <1>4. /\ outCh' \in Seq(Key) /\ Len(outCh') = Len(outCh) + Len(more) + Cardinality(S)
        /\ Items(outCh') = Items(outCh) \union Items(more) \union S
    <2>1. /\ (outCh \o more) \o e \in Seq(Key)
          /\ Len((outCh \o more) \o e) = Len(outCh \o more) + Len(e)
          /\ Items((outCh \o more) \o e) = Items(outCh \o more) \union Items(e)
      BY <1>1, <1>3, ItemsConcat
    <2> QED BY <1>1, <1>3, <2>1
  <1>5. QueueType'
    BY <1>1, <1>4 DEF QueueType
  <1>6. Held' = Held \union Items(more)
    BY <1>4 DEF Held
  <1>7. Amount' = Amount + Len(more)
    BY <1>1, <1>2, <1>4 DEF Amount
  <1> QED BY <1>5, <1>6, <1>7

\* The empty sequence, and the sequence of one key.
LEMMA Few ==
    ASSUME NEW k \in Key, NEW s \in Seq(Key)
    PROVE  /\ <<>> \in Seq(Key) /\ Len(<<>>) = 0 /\ Items(<<>>) = {} /\ s \o <<>> = s
           /\ <<k>> \in Seq(Key) /\ Len(<<k>>) = 1 /\ Items(<<k>>) = {k}
           /\ s \o <<k>> = Append(s, k)
  <1>1. Items(<<>>) = {}
    BY DEF Items
  <1>2. Items(<<k>>) = {k}
    BY DEF Items
  <1>3. s \o <<>> = s /\ s \o <<k>> = Append(s, k)
    OBVIOUS
  <1> QED BY <1>1, <1>2, <1>3

\* A key that is taken is held from then on, once, and has its timer.
Takes(k) ==
    /\ QueueType' /\ HeldHasTimer'
    /\ Held' = Held \union {k} /\ Amount' = Amount + 1

\* A key of a new session: what was held back leaves before it.
LEMMA NewSessionTakes ==
    ASSUME QueueType, HeldHasTimer, NEW k \in Key, NewSession(k)
    PROVE  Takes(k)
  <1> PICK e \in Sorted(buffer) :
        outCh' = IF k.n = 1 THEN Append(outCh \o e, k) ELSE outCh \o e
    BY DEF NewSession
  <1>1. /\ order' \in Seq(Session)
        /\ \A i, j \in DOMAIN order' : order'[i] = order'[j] => i = j
    <2>1. order' = Append(order, k.s) /\ k.s \in Session /\ k.s \notin Seen
      BY DEF NewSession, Key
    <2> QED BY <2>1 DEF QueueType, Seen
  <1>2. /\ e \in Seq(Key) /\ Len(e) = Cardinality(buffer) /\ Items(e) = buffer
        /\ Cardinality(buffer) \in Nat
    BY SortedRun
  <1>3. outCh \in Seq(Key) /\ Len(outCh) \in Nat
    BY DEF QueueType
  <1>4. /\ outCh \o e \in Seq(Key) /\ Len(outCh \o e) = Amount /\ Items(outCh \o e) = Held
    <2>1. /\ outCh \o e \in Seq(Key) /\ Len(outCh \o e) = Len(outCh) + Len(e)
          /\ Items(outCh \o e) = Items(outCh) \union Items(e)
      BY <1>2, <1>3, ItemsConcat
    <2> QED BY <1>2, <1>3, <2>1 DEF Amount, Held
  <1>5. Amount \in Nat
    BY <1>2, <1>3 DEF Amount
  <1>6. CASE k.n = 1
    <2>1. outCh' = Append(outCh \o e, k) /\ buffer' = {}
      BY <1>6 DEF NewSession
    <2>2. /\ outCh' \in Seq(Key) /\ Len(outCh') = Amount + 1 /\ Items(outCh') = Held \union {k}
      BY <1>4, <2>1, ItemsAppend
    <2>3. IsFiniteSet(buffer') /\ Cardinality(buffer') = 0
      BY <2>1, FS_EmptySet
    <2> QED BY <1>1, <1>5, <2>1, <2>2, <2>3 DEF Takes, QueueType, HeldHasTimer, Held, Amount
  <1>7. CASE k.n # 1
    <2>1. outCh' = outCh \o e /\ buffer' = {k} /\ timer' # {}
      BY <1>7 DEF NewSession
    <2>2. IsFiniteSet(buffer') /\ Cardinality(buffer') = 1
      BY <2>1, FS_Singleton
    <2>3. Held' = Held \union {k}
      BY <1>4, <2>1 DEF Held
    <2>4. Amount' = Amount + 1
      BY <1>4, <1>5, <2>1, <2>2 DEF Amount
    <2> QED BY <1>1, <1>4, <2>1, <2>2, <2>3, <2>4 DEF Takes, QueueType, HeldHasTimer
  <1> QED BY <1>6, <1>7

\* A late key leaves at once.
LEMMA QueueLateTakes ==
    ASSUME QueueType, HeldHasTimer, NEW k \in Key, QueueLate(k)
    PROVE  Takes(k)
  <1>1. outCh' = Append(outCh, k) /\ UNCHANGED <<order, buffer, timer>>
    BY DEF QueueLate
  <1>2. outCh \in Seq(Key) /\ Cardinality(buffer) \in Nat
    BY FS_CardinalityType DEF QueueType
  <1>3. /\ outCh' \in Seq(Key) /\ Len(outCh') = Len(outCh) + 1
        /\ Items(outCh') = Items(outCh) \union {k}
    BY <1>1, <1>2, ItemsAppend
  <1>4. QueueType'
    BY <1>1, <1>3 DEF QueueType
  <1>5. Held' = Held \union {k} /\ Amount' = Amount + 1
    BY <1>1, <1>2, <1>3 DEF Held, Amount
  <1> QED BY <1>1, <1>4, <1>5 DEF Takes, HeldHasTimer

\* The key that is next leaves, and those that follow it.
LEMMA QueueNextTakes ==
    ASSUME QueueType, HeldHasTimer, NEW k \in Key, QueueNext(k)
    PROVE  Takes(k)
  <1> DEFINE run == Following(k.s, k.n)
  <1>1. run \in SUBSET buffer
    BY DEF Following
  <1> PICK e \in Sorted(run) : outCh' = Append(outCh, k) \o e
    BY DEF QueueNext
  <1>2. buffer' = buffer \ run /\ UNCHANGED <<order, timer>>
    BY DEF QueueNext
  <1>3. /\ <<k>> \in Seq(Key) /\ Len(<<k>>) = 1 /\ Items(<<k>>) = {k}
        /\ outCh' = (outCh \o <<k>>) \o e
    BY Few DEF QueueType
  <1> HIDE DEF run
  <1>4. QueueType' /\ Held' = Held \union {k} /\ Amount' = Amount + 1
    BY <1>1, <1>2, <1>3, Moves
  <1> QED BY <1>2, <1>4 DEF Takes, HeldHasTimer

\* An early key is held back, with a timer.
LEMMA QueueEarlyTakes ==
    ASSUME QueueType, HeldHasTimer, NEW k \in Key, k \notin buffer, QueueEarly(k)
    PROVE  Takes(k)
  <1>1. buffer' = buffer \union {k} /\ timer' # {} /\ UNCHANGED <<order, outCh>>
    BY DEF QueueEarly
  <1>2. /\ IsFiniteSet(buffer') /\ Cardinality(buffer') = Cardinality(buffer) + 1
        /\ Cardinality(buffer) \in Nat /\ Len(outCh) \in Nat
    BY <1>1, FS_AddElement, FS_CardinalityType DEF QueueType
  <1>3. QueueType'
    BY <1>1, <1>2 DEF QueueType
  <1>4. Held' = Held \union {k} /\ Amount' = Amount + 1
    BY <1>1, <1>2 DEF Held, Amount
  <1> QED BY <1>1, <1>3, <1>4 DEF Takes, HeldHasTimer

\* What the queue holds, and how much, stays the same.
Keeps == QueueType' /\ HeldHasTimer' /\ Held' = Held /\ Amount' = Amount

\* The queue is not touched.
LEMMA QueueFrame ==
    ASSUME QueueType, HeldHasTimer, UNCHANGED <<order, buffer, timer, outCh>>
    PROVE  Keeps
  BY DEF Keeps, QueueType, HeldHasTimer, Held, Amount

\* A timeout sends keys, and sets a timer for those that stay.
LEMMA OnTimeoutKeeps ==
    ASSUME QueueType, HeldHasTimer, OnTimeout
    PROVE  Keeps
  <1> DEFINE leave == {k \in buffer : \E l \in aged : k = l \/ Before(k, l)}
  <1>1. leave \in SUBSET buffer
    OBVIOUS
  <1> PICK e \in Sorted(leave) : outCh' = outCh \o e
    BY DEF OnTimeout
  <1>2. /\ buffer' = buffer \ leave /\ UNCHANGED order
        /\ timer' \in (IF buffer = leave THEN {{}} ELSE {{k} : k \in buffer \ leave})
    BY DEF OnTimeout
  <1> HIDE DEF leave
  <1>3. HeldHasTimer'
    BY <1>1, <1>2 DEF HeldHasTimer
  <1>4. outCh' = (outCh \o <<>>) \o e
    BY DEF QueueType
  <1>5. <<>> \in Seq(Key) /\ Len(<<>>) = 0 /\ Items(<<>>) = {}
    BY DEF Items
  <1>6. QueueType' /\ Held' = Held /\ Amount' = Amount + 0
    BY <1>1, <1>2, <1>4, <1>5, Moves
  <1>7. Amount \in Nat
    BY FS_CardinalityType DEF QueueType, Amount
  <1> QED BY <1>3, <1>6, <1>7 DEF Keeps

-----------------------------------------------------------------------------
(* The input path *)

\* No key is numbered twice: one that has been sent is of a session before, or
\* its number has been given; and one that is under way has not been taken.
Sent ==
    /\ session \in Session /\ count \in 0..MaxSeq /\ wire \subseteq Key /\ taken \subseteq Key
    /\ wire \intersect taken = {}
    /\ \A k \in wire \union taken : k.s < session \/ (k.s = session /\ k.n <= count)

\* Every key that was taken is held, or was read by the program, once.
Once ==
    /\ shell \in Seq(Key) /\ IsFiniteSet(taken)
    /\ taken = Held \union Items(shell) /\ Cardinality(taken) = Amount + Len(shell)

\* Sessions and numbers can be compared.
LEMMA Comparable ==
    ASSUME Sent
    PROVE  session \in Nat /\ \A k \in wire \union taken : k.s \in Nat /\ k.n \in Nat
  <1>1. ASSUME NEW k \in Key PROVE k.s \in Nat /\ k.n \in Nat
    <2>1. k.s \in Session /\ k.n \in 1..MaxSeq
      BY DEF Key
    <2>2. k.s \in Nat
      BY <2>1, Numbers
    <2>3. k.n \in Nat
      BY <2>1, Numbers
    <2> QED BY <2>2, <2>3
  <1>2. session \in Nat /\ wire \union taken \subseteq Key
    BY Numbers DEF Sent
  <1> QED BY <1>1, <1>2

KeysInv == QueueType /\ HeldHasTimer /\ NeverBlocks /\ Sent /\ Once

\* A step that leaves the keys where they are.
LEMMA InputFrame ==
    ASSUME KeysInv, Keeps, Sent', UNCHANGED <<shell, taken>>
    PROVE  KeysInv'
  <1>1. Once'
    BY DEF KeysInv, Keeps, Once
  <1>2. NeverBlocks'
    BY DEF KeysInv, Keeps, NeverBlocks, Amount
  <1> QED BY <1>1, <1>2 DEF Keeps, KeysInv

\* A key is sent under a number of its own.
LEMMA SendInputKeeps ==
    ASSUME KeysInv, SendInput
    PROVE  KeysInv'
  <1> DEFINE k == [s |-> session, n |-> count + 1]
  <1>1. /\ count' = count + 1 /\ count < MaxSeq /\ wire' = wire \union {k}
        /\ UNCHANGED <<session, taken, shell>> /\ UNCHANGED <<order, buffer, timer, outCh>>
    BY DEF SendInput, qvars
  <1>2. k \in Key /\ k \notin taken /\ count \in Nat /\ session \in Nat /\ MaxSeq \in Nat
    BY <1>1, Numbers DEF KeysInv, Sent, Key
  <1>3. \A l \in wire \union taken : l.s \in Nat /\ l.n \in Nat
    BY Comparable DEF KeysInv
  <1>4. Sent'
    BY <1>1, <1>2, <1>3 DEF KeysInv, Sent
  <1> QED BY <1>1, <1>4, InputFrame, QueueFrame DEF KeysInv

\* A call that arrives: the key is taken, or refused for want of room.
LEMMA JobInputKeeps ==
    ASSUME KeysInv, NEW k \in wire, JobInput(k)
    PROVE  KeysInv'
  <1>1. /\ wire' = wire \ {k} /\ UNCHANGED <<session, count, shell>>
        /\ taken' = IF HasRoom THEN taken \union {k} ELSE taken
    BY DEF JobInput
  <1>2. k \in Key /\ k \notin taken /\ k \notin buffer
    BY DEF KeysInv, Sent, Once, Held
  <1>3. Sent'
    BY <1>1, <1>2 DEF KeysInv, Sent
  <1>4. CASE ~HasRoom
    <2>1. UNCHANGED <<order, buffer, timer, outCh>>
      BY <1>4 DEF JobInput, QueueItem, QueueFull, NewSession, QueueLate, QueueNext, QueueEarly, qvars
    <2> QED BY <1>1, <1>3, <1>4, <2>1, InputFrame, QueueFrame DEF KeysInv
  <1>5. CASE HasRoom
    <2>1. Takes(k)
      BY <1>2, <1>5, NewSessionTakes, QueueLateTakes, QueueNextTakes, QueueEarlyTakes
         DEF JobInput, QueueItem, QueueFull, KeysInv
    <2>2. Amount < Capacity /\ Amount \in Nat /\ Len(shell) \in Nat
      BY <1>5, FS_CardinalityType DEF HasRoom, Amount, KeysInv, QueueType, Once
    <2>3. NeverBlocks'
      BY <2>1, <2>2, Numbers DEF Takes, NeverBlocks, Amount
    <2>4. taken' = taken \union {k}
      BY <1>1, <1>5
    <2>5. IsFiniteSet(taken') /\ Cardinality(taken') = Cardinality(taken) + 1
      BY <1>2, <2>4, FS_AddElement DEF KeysInv, Once
    <2>6. Once'
      BY <1>1, <2>1, <2>2, <2>4, <2>5 DEF KeysInv, Once, Takes
    <2> QED BY <1>3, <2>1, <2>3, <2>6 DEF KeysInv, Takes
  <1> QED BY <1>4, <1>5

\* A timer fires, or a key grows old.
LEMMA QueueTimeKeeps ==
    ASSUME KeysInv, QueueTime
    PROVE  KeysInv'
  <1>1. Sent' /\ UNCHANGED <<shell, taken>>
    BY DEF QueueTime, tvars, KeysInv, Sent
  <1>2. Keeps
    BY OnTimeoutKeeps, QueueFrame DEF QueueTime, Ages, TimerFires, StrayFires, KeysInv
  <1> QED BY <1>1, <1>2, InputFrame

\* The program reads the first key of the channel.
LEMMA HandleInputKeeps ==
    ASSUME KeysInv, HandleInput
    PROVE  KeysInv'
  <1> DEFINE k == Head(outCh)
  <1>1. /\ outCh # <<>> /\ outCh' = Tail(outCh) /\ shell' = Append(shell, k)
        /\ UNCHANGED <<order, buffer, timer, session, count, wire, taken>>
    BY DEF HandleInput, Receive
  <1>2. /\ outCh \in Seq(Key) /\ shell \in Seq(Key) /\ Cardinality(buffer) \in Nat
        /\ Len(shell) \in Nat
    BY FS_CardinalityType DEF KeysInv, QueueType, Once
  <1>3. /\ k \in Key /\ Tail(outCh) \in Seq(Key) /\ Len(outCh) \in Nat
        /\ Len(Tail(outCh)) = Len(outCh) - 1 /\ outCh = <<k>> \o Tail(outCh)
    BY <1>1, <1>2
  <1>4. Items(outCh) = {k} \union Items(outCh')
    <2>1. <<k>> \in Seq(Key) /\ Items(<<k>>) = {k}
      BY <1>3, Few
    <2>2. Items(<<k>> \o Tail(outCh)) = Items(<<k>>) \union Items(Tail(outCh))
      BY <1>3, <2>1, ItemsConcat
    <2>3. outCh' = Tail(outCh)
      BY <1>1
    <2> QED BY <1>3, <2>1, <2>2, <2>3
  <1>5. /\ shell' \in Seq(Key) /\ Len(shell') = Len(shell) + 1
        /\ Items(shell') = Items(shell) \union {k}
    BY <1>1, <1>2, <1>3, ItemsAppend
  <1>6. QueueType' /\ HeldHasTimer' /\ Sent'
    BY <1>1, <1>3 DEF KeysInv, QueueType, HeldHasTimer, Sent
  <1>7. NeverBlocks'
    BY <1>1, <1>2, <1>3, Numbers DEF KeysInv, NeverBlocks
  <1>8. Once'
    <2>1. taken' = Held' \union Items(shell')
      BY <1>1, <1>4, <1>5 DEF KeysInv, Once, Held
    <2>2. Cardinality(taken') = Amount' + Len(shell')
      <3>1. Cardinality(taken) = Cardinality(buffer) + Len(outCh) + Len(shell)
        BY <1>2, <1>3 DEF KeysInv, Once, Amount
      <3>2. Cardinality(taken') = Cardinality(taken) /\ Cardinality(buffer') = Cardinality(buffer)
        BY <1>1
      <3>3. Len(outCh') = Len(outCh) - 1 /\ Len(shell') = Len(shell) + 1
        BY <1>1, <1>3, <1>5
      <3>4. Len(outCh) \in Nat /\ Len(shell) \in Nat /\ Cardinality(buffer) \in Nat
        BY <1>2, <1>3
      <3>5. Amount' = Cardinality(buffer) + (Len(outCh) - 1)
        BY <3>2, <3>3 DEF Amount
      <3>6. Cardinality(taken') = Cardinality(buffer) + Len(outCh) + Len(shell)
        BY <3>1, <3>2
      <3>7. Amount' + Len(shell') = (Cardinality(buffer) + (Len(outCh) - 1)) + (Len(shell) + 1)
        BY <3>3, <3>5
      <3> QED BY <3>4, <3>6, <3>7
    <2> QED BY <1>1, <1>5, <2>1, <2>2 DEF KeysInv, Once
  <1> QED BY <1>6, <1>7, <1>8 DEF KeysInv

\* The server starts again: the new controller is a session of its own.
LEMMA RestartKeeps ==
    ASSUME KeysInv, ServerRestarts
    PROVE  KeysInv'
  <1>1. /\ session + 1 \in Session /\ session' = session + 1 /\ count' = 0
        /\ UNCHANGED <<wire, taken, shell>> /\ UNCHANGED <<order, buffer, timer, outCh>>
    BY DEF ServerRestarts, qvars
  <1>2. session \in Nat /\ \A k \in wire \union taken : k.s \in Nat /\ k.n \in Nat
    BY Comparable DEF KeysInv
  <1>3. Sent'
    BY <1>1, <1>2, Numbers DEF KeysInv, Sent
  <1> QED BY <1>1, <1>3, InputFrame, QueueFrame DEF KeysInv

\* The output and the files leave the input path alone, but for a restart of the
\* server, which begins a session.
OutputStep == Appends \/ ClearBlock \/ CloseBlock \/ Flushes \/ StreamReturns \/ Losses

LEMMA OutputFrame ==
    ASSUME OutputStep
    PROVE  UNCHANGED <<qvars, wire, shell, taken>> /\ (ServerRestarts \/ UNCHANGED <<session, count>>)
  BY DEF OutputStep, Appends, AppendJobFile, AppendBlockFile, ClearBlock, CloseBlock, Flushes,
         StreamReturns, Losses, AppendJobFileFails, AppendBlockFileFails, FlushGoesWrong,
         StreamIsLost, RestartStreaming, ServerRestarts, inputVars, tvars

LEMMA OutputKeeps ==
    ASSUME KeysInv, OutputStep, ~ServerRestarts
    PROVE  KeysInv'
  <1>1. UNCHANGED <<order, buffer, timer, outCh, session, count, wire, taken, shell>>
    BY OutputFrame DEF qvars
  <1>2. Sent'
    BY <1>1 DEF KeysInv, Sent
  <1> QED BY <1>1, <1>2, InputFrame, QueueFrame DEF KeysInv

\* KeysInv holds at first, and always.
LEMMA KeysAlways == Spec => []KeysInv
  <1>1. Init => KeysInv
    <2> SUFFICES ASSUME Init PROVE KeysInv
      OBVIOUS
    <2>1. QueueType /\ HeldHasTimer /\ NeverBlocks
      BY FS_EmptySet, Numbers DEF Init, QueueInit, QueueType, HeldHasTimer, NeverBlocks
    <2>2. Sent
      BY Numbers DEF Init, Sent
    <2>3. Once
      BY FS_EmptySet DEF Init, QueueInit, Once, Held, Amount, Items
    <2> QED BY <2>1, <2>2, <2>3 DEF KeysInv
  <1>2. KeysInv /\ [Next]_vars => KeysInv'
    <2> SUFFICES ASSUME KeysInv, [Next]_vars PROVE KeysInv'
      OBVIOUS
    <2>1. CASE Next
      BY <2>1, SendInputKeeps, JobInputKeeps, QueueTimeKeeps, HandleInputKeeps, RestartKeeps,
         OutputKeeps DEF Next, Delivers, OutputStep
    <2>2. CASE UNCHANGED vars
      <3>1. Sent'
        BY <2>2 DEF vars, tvars, KeysInv, Sent
      <3> QED BY <2>2, <3>1, InputFrame, QueueFrame DEF vars, qvars, tvars, KeysInv
    <2> QED BY <2>1, <2>2
  <1> QED BY <1>1, <1>2, PTL DEF Spec

\* No send of the queue on its channel blocks.
THEOREM SendsNeverBlock == Spec => []NeverBlocks
  <1>1. KeysInv => NeverBlocks
    BY DEF KeysInv
  <1> QED BY <1>1, KeysAlways, PTL

\* No key is held back without a timer.
THEOREM TimerForHeld == Spec => []HeldHasTimer
  <1>1. KeysInv => HeldHasTimer
    BY DEF KeysInv
  <1> QED BY <1>1, KeysAlways, PTL

\* No key that the queue took is lost, or given to the program twice.
THEOREM KeysPassOnce == Spec => []KeysOnce
  <1>1. ASSUME KeysInv PROVE KeysOnce
    <2>1. shell \in Seq(Key) /\ outCh \in Seq(Key)
      BY <1>1 DEF KeysInv, Once, QueueType
    <2>2. Len(shell \o outCh) = Len(shell) + Len(outCh)
          /\ Items(shell \o outCh) = Items(shell) \union Items(outCh)
      BY <2>1, ItemsConcat
    <2>3. Cardinality(buffer) \in Nat /\ Len(shell) \in Nat /\ Len(outCh) \in Nat
      BY <1>1, <2>1, FS_CardinalityType DEF KeysInv, QueueType
    <2> QED BY <1>1, <2>2, <2>3 DEF KeysOnce, KeysInv, Once, Held, Amount
  <1> QED BY <1>1, KeysAlways, PTL

-----------------------------------------------------------------------------
(* The order in which keys leave the input queue: no key overtakes one of   *)
(* its session that is held back, and none leaves before one that has not   *)
(* come unless a key has waited too long.                                   *)


\* Only keys of the current session are held back, those from the next number
\* on; and only held keys have waited.
Current ==
    /\ nextSeq \in Nat /\ aged \subseteq buffer
    /\ \A k \in buffer : IsCurrent(k.s) /\ k.n >= nextSeq

\* What InOrder says of a step.
Ordered ==
    \A i \in DOMAIN Departures : LET k == Departures[i] IN
        /\ \A l \in buffer : l.s = k.s /\ l.n < k.n => l \in {Departures[j] : j \in 1..(i - 1)}
        /\ order' = order /\ IsCurrent(k.s) /\ aged = {} =>
               \A n \in nextSeq..k.n : [s |-> k.s, n |-> n] \in taken'

-----------------------------------------------------------------------------
(* Departures and sorted runs *)

\* The larger of two numbers.
LEMMA MaxOfTwo ==
    ASSUME NEW a \in Nat, NEW b \in Nat
    PROVE  Max({a, b}) = IF a >= b THEN a ELSE b
  <1> DEFINE m == IF a >= b THEN a ELSE b
  <1>1. m \in {a, b} /\ \A y \in {a, b} : m >= y
    OBVIOUS
  <1>2. \A x \in {a, b} : (\A y \in {a, b} : x >= y) => x = m
    OBVIOUS
  <1> QED BY <1>1, <1>2 DEF Max

\* The keys that a step appends to the channel are its departures.
LEMMA AppendedDepart ==
    ASSUME outCh \in Seq(Key), NEW t \in Seq(Key), outCh' = outCh \o t
    PROVE  DOMAIN Departures = 1..Len(t) /\ \A i \in 1..Len(t) : Departures[i] = t[i]
  <1>1. Len(outCh) \in Nat /\ Len(t) \in Nat /\ Len(outCh') = Len(outCh) + Len(t)
    OBVIOUS
  <1>2. Max({Len(outCh'), Len(outCh)}) = Len(outCh')
    BY <1>1, MaxOfTwo
  <1>3. Departures = [i \in 1..Len(t) |-> outCh'[Len(outCh) + i]]
    <2>1. Max({Len(outCh'), Len(outCh)}) - Len(outCh) = Len(t)
      BY <1>1, <1>2
    <2> QED BY <2>1, Zenon DEF Departures
  <1>4. \A i \in 1..Len(t) : outCh'[Len(outCh) + i] = t[i]
    OBVIOUS
  <1> QED BY <1>3, <1>4

\* A step that does not lengthen the channel sends nothing.
LEMMA NothingDeparts ==
    ASSUME outCh \in Seq(Key), outCh' \in Seq(Key), Len(outCh') <= Len(outCh)
    PROVE  Ordered
  <1>1. Len(outCh) \in Nat /\ Len(outCh') \in Nat
    OBVIOUS
  <1>2. Max({Len(outCh'), Len(outCh)}) = Len(outCh)
    BY <1>1, MaxOfTwo
  <1>3. DOMAIN Departures = {}
    BY <1>1, <1>2 DEF Departures
  <1> QED BY <1>3 DEF Ordered

\* In the current session, before means less.
LEMMA BeforeIsLess ==
    ASSUME QueueType, NEW k \in Key, NEW l \in Key, IsCurrent(k.s), IsCurrent(l.s)
    PROVE  /\ k.s = l.s /\ k.n \in Nat /\ l.n \in Nat
           /\ Before(k, l) <=> k.n < l.n
           /\ k.n = l.n => k = l
  <1>1. k.s = l.s /\ ~Earlier(k.s, l.s)
    BY DEF IsCurrent, Earlier, QueueType
  <1>2. k.n \in Nat /\ l.n \in Nat /\ (k.s = l.s /\ k.n = l.n => k = l)
    BY DEF Key
  <1> QED BY <1>1, <1>2 DEF Before

\* In a sorted run a key comes after the keys of its session with less numbers.
LEMMA RunAscends ==
    ASSUME QueueType, Current, NEW S \in SUBSET buffer, NEW e \in Sorted(S)
    PROVE  \A i \in 1..Len(e) : \A l \in S : l.n < e[i].n => \E j \in 1..(i - 1) : e[j] = l
  <1> SUFFICES ASSUME NEW i \in 1..Len(e), NEW l \in S, l.n < e[i].n
               PROVE  \E j \in 1..(i - 1) : e[j] = l
    OBVIOUS
  <1>1. e \in Seq(Key) /\ Len(e) = Cardinality(S) /\ Items(e) = S /\ Cardinality(S) \in Nat
    BY SortedRun
  <1>2. PICK j \in 1..Len(e) : e[j] = l
    BY <1>1 DEF Items
  <1>3. e[i] \in S /\ e[i] \in Key /\ l \in Key
    BY <1>1 DEF Items, QueueType
  <1>4. l.n \in Nat /\ e[i].n \in Nat /\ (Before(e[i], l) <=> e[i].n < l.n)
    BY <1>3, BeforeIsLess DEF Current
  <1>5. i < j => Before(e[i], e[j])
    BY <1>1, <1>2 DEF Sorted
  <1>6. j < i
    BY <1>1, <1>2, <1>4, <1>5
  <1> QED BY <1>1, <1>2, <1>6

\* The last key of a run has its largest number.
LEMMA RunLast ==
    ASSUME QueueType, Current, NEW S \in SUBSET buffer, NEW e \in Sorted(S), S # {}
    PROVE  \E m \in S : \A l \in S : l.n <= m.n
  <1>1. e \in Seq(Key) /\ Len(e) = Cardinality(S) /\ Items(e) = S /\ Cardinality(S) \in Nat
    BY SortedRun
  <1>2. Len(e) >= 1
    BY <1>1 DEF Items
  <1>3. e[Len(e)] \in S
    BY <1>1, <1>2 DEF Items
  <1>4. ASSUME NEW l \in S, ~(l.n <= e[Len(e)].n) PROVE FALSE
    <2>1. PICK j \in 1..Len(e) : e[j] = l
      BY <1>1 DEF Items
    <2>2. e[Len(e)] \in Key /\ l \in Key
      BY <1>3 DEF QueueType
    <2>3. l.n \in Nat /\ e[Len(e)].n \in Nat /\ (Before(l, e[Len(e)]) <=> l.n < e[Len(e)].n)
      BY <1>3, <2>2, BeforeIsLess DEF Current
    <2>4. j < Len(e) => Before(e[j], e[Len(e)])
      BY <1>1, <1>2, <2>1 DEF Sorted
    <2> QED BY <1>1, <1>2, <1>4, <2>1, <2>3, <2>4
  <1> QED BY <1>3, <1>4

-----------------------------------------------------------------------------
(* The operations of the queue *)

\* The queue is not touched, or its receiver takes a key.
LEMMA CurrentFrame ==
    ASSUME Current, UNCHANGED <<order, nextSeq, buffer, aged>>
    PROVE  Current'
  BY DEF Current, IsCurrent

\* A new session: the keys of the one before leave in their order, and then the
\* first of its own.
LEMMA NewSessionOrder ==
    ASSUME KeysInv, Current, NEW k \in Key, NewSession(k)
    PROVE  Current' /\ Ordered
  <1> USE DEF KeysInv
  <1> PICK e \in Sorted(buffer) :
        outCh' = IF k.n = 1 THEN Append(outCh \o e, k) ELSE outCh \o e
    BY DEF NewSession
  <1>1. order' = Append(order, k.s) /\ order \in Seq(Session) /\ k.n \in Nat /\ k.n >= 1
    BY Numbers DEF NewSession, QueueType, Key
  <1>2. order' # order /\ IsCurrent(k.s)'
    BY <1>1 DEF IsCurrent
  <1>3. /\ nextSeq' = IF k.n = 1 THEN 2 ELSE 1
        /\ buffer' = IF k.n = 1 THEN {} ELSE {k}
        /\ aged' = {}
    BY DEF NewSession
  <1>4. Current'
    BY <1>1, <1>2, <1>3 DEF Current, IsCurrent
  <1>5. e \in Seq(Key) /\ Items(e) = buffer /\ outCh \in Seq(Key) /\ Len(e) \in Nat
    BY SortedRun DEF QueueType
  <1> DEFINE t == IF k.n = 1 THEN Append(e, k) ELSE e
  <1>6. t \in Seq(Key) /\ outCh' = outCh \o t
    <2>1. /\ outCh \o e \in Seq(Key) /\ Append(e, k) = e \o <<k>> /\ Append(e, k) \in Seq(Key)
          /\ Append(outCh \o e, k) = (outCh \o e) \o <<k>>
      BY <1>5, ItemsConcat, ItemsAppend, Few
    <2>2. (outCh \o e) \o <<k>> = outCh \o (e \o <<k>>)
      BY <1>5
    <2> QED BY <1>5, <2>1, <2>2
  <1>7. DOMAIN Departures = 1..Len(t) /\ \A i \in 1..Len(t) : Departures[i] = t[i]
    <2> HIDE DEF t
    <2> QED BY <1>5, <1>6, AppendedDepart
  <1>8. ASSUME NEW i \in 1..Len(t), NEW l \in buffer, l.s = t[i].s, l.n < t[i].n
        PROVE  \E j \in 1..(i - 1) : t[j] = l
    <2>1. i <= Len(e)
      <3>1. k.s # l.s
        BY SMTT(30) DEF NewSession, Current, IsCurrent, Seen, QueueType
      <3>2. i = Len(e) + 1 => t[i] = k
        BY <1>5
      <3>3. Len(t) <= Len(e) + 1
        BY <1>5
      <3> QED BY <1>5, <1>8, <3>1, <3>2, <3>3
    <2>2. t[i] = e[i] /\ \A j \in 1..(i - 1) : t[j] = e[j]
      BY <1>5, <2>1
    <2>3. \E j \in 1..(i - 1) : e[j] = l
      BY <1>5, <1>8, <2>1, <2>2, RunAscends
    <2> QED BY <2>2, <2>3
  <1>9. Ordered
    <2> HIDE DEF t
    <2>1. ASSUME NEW i \in 1..Len(t) PROVE \A j \in 1..(i - 1) : Departures[j] = t[j]
      BY <1>6, <1>7
    <2> QED BY <1>2, <1>7, <1>8, <2>1 DEF Ordered
  <1> QED BY <1>4, <1>9

\* A late key: none of its session with a lesser number is held back.
LEMMA QueueLateOrder ==
    ASSUME KeysInv, Current, NEW k \in Key, QueueLate(k)
    PROVE  Current' /\ Ordered
  <1>1. outCh' = outCh \o <<k>> /\ outCh \in Seq(Key)
    BY Few DEF KeysInv, QueueType, QueueLate
  <1>2. DOMAIN Departures = {1} /\ Departures[1] = k
    <2>1. <<k>> \in Seq(Key) /\ Len(<<k>>) = 1 /\ <<k>>[1] = k /\ 1..1 = {1}
      OBVIOUS
    <2>2. DOMAIN Departures = 1..Len(<<k>>) /\ \A i \in 1..Len(<<k>>) : Departures[i] = <<k>>[i]
      BY <1>1, <2>1, AppendedDepart
    <2> QED BY <2>1, <2>2
  <1>3. k.n \in Nat /\ \A l \in buffer : l.n \in Nat
    BY DEF Key, KeysInv, QueueType
  <1>4. \A l \in buffer : ~(l.s = k.s /\ l.n < k.n)
    BY <1>3 DEF QueueLate, Current
  <1>5. IsCurrent(k.s) => nextSeq..k.n = {}
    BY <1>3 DEF QueueLate, Current
  <1>6. Ordered
    BY <1>2, <1>4, <1>5 DEF Ordered
  <1> QED BY <1>6, CurrentFrame DEF QueueLate

\* An early key is held back.
LEMMA QueueEarlyOrder ==
    ASSUME KeysInv, Current, NEW k \in Key, QueueEarly(k)
    PROVE  Current' /\ Ordered
  <1>1. Ordered
    BY NothingDeparts DEF KeysInv, QueueType, QueueEarly
  <1>2. k.n \in Nat
    BY DEF Key
  <1>3. Current'
    BY <1>2 DEF QueueEarly, Current, IsCurrent
  <1> QED BY <1>1, <1>3

-----------------------------------------------------------------------------
(* The key that is next *)

\* The keys that follow it are those with a number up to the last of them.
LEMMA FollowingRun ==
    ASSUME KeysInv, Current, NEW k \in Key, IsCurrent(k.s), k.n = nextSeq, k \notin buffer,
           NEW m \in Following(k.s, k.n), \A l \in Following(k.s, k.n) : l.n <= m.n
    PROVE  /\ Following(k.s, k.n) = {[s |-> k.s, n |-> i] : i \in (k.n + 1)..m.n}
           /\ Cardinality(Following(k.s, k.n)) = m.n - k.n
           /\ \A l \in buffer \ Following(k.s, k.n) : l.n > m.n
  <1> DEFINE run == Following(k.s, k.n)
             upTo(x) == {[s |-> k.s, n |-> i] : i \in (k.n + 1)..x.n}
  <1>1. \A x \in buffer : x \in run <=> {l \in buffer : ~Before(x, l)} = upTo(x)
    BY DEF Following
  <1>2. run \subseteq buffer /\ buffer \subseteq Key
    BY DEF Following, KeysInv, QueueType
  <1>3. k.n \in Nat /\ \A x, l \in buffer :
            /\ x.s = k.s /\ x.n \in Nat /\ l.n \in Nat /\ (Before(x, l) <=> x.n < l.n)
            /\ x.n = l.n => x = l
    <2>1. ASSUME NEW x \in buffer, NEW l \in buffer
          PROVE  /\ x.n \in Nat /\ l.n \in Nat /\ (Before(x, l) <=> x.n < l.n)
                 /\ x.n = l.n => x = l
      BY <1>2, BeforeIsLess DEF Current, KeysInv
    <2>2. ASSUME NEW x \in buffer PROVE x.s = k.s
      BY <1>2, BeforeIsLess DEF Current, KeysInv
    <2>3. k.n \in Nat
      BY DEF Key
    <2> QED BY <2>1, <2>2, <2>3
  <1>4. m \in buffer /\ {l \in buffer : ~Before(m, l)} = upTo(m)
    BY <1>1, <1>2
  <1>5. ASSUME NEW l \in buffer, l.n <= m.n PROVE l \in run
    <2>1. ASSUME NEW x \in buffer, ~Before(l, x) PROVE x \in upTo(l)
      <3>1. x \in upTo(m) /\ x.n <= l.n
        BY <1>3, <1>4, <1>5, <2>1
      <3> QED BY <1>3, <3>1
    <2>2. ASSUME NEW i \in (k.n + 1)..l.n
          PROVE  [s |-> k.s, n |-> i] \in buffer /\ ~Before(l, [s |-> k.s, n |-> i])
      <3>1. i \in (k.n + 1)..m.n
        BY <1>3, <1>4, <1>5
      <3>2. [s |-> k.s, n |-> i] \in buffer
        BY <1>4, <3>1
      <3> QED BY <1>3, <3>2
    <2>3. {x \in buffer : ~Before(l, x)} = upTo(l)
      BY <2>1, <2>2
    <2> QED BY <1>1, <2>3
  <1>6. run = upTo(m)
    BY <1>2, <1>3, <1>4, <1>5
  <1>7. \A l \in buffer \ run : l.n > m.n
    BY <1>3, <1>4, <1>5
  <1>8. m.n \in Nat /\ m.n >= k.n
    BY <1>3, <1>4 DEF Current
  <1>9. Cardinality(upTo(m)) = m.n - k.n
    <2> DEFINE f == [i \in (k.n + 1)..m.n |-> [s |-> k.s, n |-> i]]
    <2>1. f \in Bijection((k.n + 1)..m.n, upTo(m))
      BY DEF Bijection, Injection, Surjection, IsInjective
    <2>2. ExistsBijection((k.n + 1)..m.n, upTo(m))
      BY <2>1 DEF ExistsBijection
    <2>3. IsFiniteSet((k.n + 1)..m.n) /\ Cardinality((k.n + 1)..m.n) = m.n - k.n
      <3>1. k.n + 1 \in Int /\ m.n \in Int /\ k.n \in Int
        BY <1>3, <1>8
      <3>2. /\ IsFiniteSet((k.n + 1)..m.n)
            /\ Cardinality((k.n + 1)..m.n) = IF k.n + 1 > m.n THEN 0 ELSE m.n - (k.n + 1) + 1
        BY <3>1, FS_Interval
      <3> QED BY <1>3, <1>8, <3>2
    <2> QED BY <2>2, <2>3, FS_Bijection
  <1> QED BY <1>6, <1>7, <1>9

\* The key that is next leaves, and then those that follow it, without a gap.
LEMMA QueueNextOrder ==
    ASSUME KeysInv, Current, NEW k \in Key, k \notin buffer, QueueNext(k),
           taken' = taken \union {k}
    PROVE  Current' /\ Ordered
  <1> DEFINE run == Following(k.s, k.n)
  <1>1. run \in SUBSET buffer
    BY DEF Following
  <1> PICK e \in Sorted(run) : outCh' = Append(outCh, k) \o e
    BY DEF QueueNext
  <1>2. /\ IsCurrent(k.s) /\ k.n = nextSeq /\ nextSeq' = nextSeq + 1 + Cardinality(run)
        /\ buffer' = buffer \ run /\ aged' = aged \ run /\ order' = order
    BY DEF QueueNext
  <1> HIDE DEF run
  <1>3. /\ e \in Seq(Key) /\ Len(e) = Cardinality(run) /\ Items(e) = run /\ Len(e) \in Nat
        /\ outCh \in Seq(Key) /\ QueueType
    BY <1>1, SortedRun DEF KeysInv, QueueType
  <1>4. \A l \in buffer : l \in Key /\ l.s = k.s /\ l.n \in Nat /\ k.n \in Nat /\ l.n > k.n
    <2> TAKE l \in buffer
    <2>1. l \in Key
      BY <1>3 DEF QueueType
    <2>2. l.s = k.s /\ l.n \in Nat /\ k.n \in Nat /\ (k.n = l.n => k = l)
      BY <1>2, <1>3, <2>1, BeforeIsLess DEF Current
    <2> QED BY <1>2, <2>1, <2>2 DEF Current
  <1>5. /\ \A l \in buffer \ run : l.n >= nextSeq'
        /\ \A l \in run : \A n \in (k.n + 1)..l.n : [s |-> k.s, n |-> n] \in run
    <2>1. CASE run = {}
      <3>1. Cardinality(run) = 0
        BY <2>1, FS_EmptySet
      <3> QED BY <1>2, <1>4, <2>1, <3>1
    <2>2. CASE run # {}
      <3>1. PICK m \in run : \A l \in run : l.n <= m.n
        BY <1>1, <1>3, <2>2, RunLast
      <3>2. /\ run = {[s |-> k.s, n |-> i] : i \in (k.n + 1)..m.n}
            /\ Cardinality(run) = m.n - k.n
            /\ \A l \in buffer \ run : l.n > m.n
        BY <1>2, <3>1, FollowingRun DEF run
      <3>3. m.n \in Nat /\ k.n \in Nat /\ \A l \in buffer : l.n \in Nat
        BY <1>1, <1>4, <3>1
      <3>4. nextSeq' = m.n + 1
        BY <1>2, <3>2, <3>3
      <3>5. \A l \in buffer \ run : l.n >= nextSeq'
        BY <3>2, <3>3, <3>4
      <3>6. ASSUME NEW l \in run, NEW n \in (k.n + 1)..l.n PROVE [s |-> k.s, n |-> n] \in run
        <4>1. n \in (k.n + 1)..m.n
          BY <1>1, <3>1, <3>3
        <4> QED BY <3>2, <4>1
      <3> QED BY <3>5, <3>6
    <2> QED BY <2>1, <2>2
  <1>6. Current'
    <2>1. nextSeq' \in Nat
      BY <1>2, <1>3 DEF Current
    <2> QED BY <1>2, <1>5, <2>1 DEF Current, IsCurrent
  <1> DEFINE t == <<k>> \o e
  <1>7. /\ t \in Seq(Key) /\ outCh' = outCh \o t /\ Len(t) = Len(e) + 1
        /\ t[1] = k /\ \A i \in 1..Len(e) : t[i + 1] = e[i]
    BY <1>3
  <1> HIDE DEF t
  <1>8. DOMAIN Departures = 1..Len(t) /\ \A i \in 1..Len(t) : Departures[i] = t[i]
    BY <1>3, <1>7, AppendedDepart
  <1>9. ASSUME NEW i \in 1..Len(t)
        PROVE  /\ \A l \in buffer : l.n < t[i].n => \E j \in 1..(i - 1) : t[j] = l
               /\ \A n \in nextSeq..t[i].n : [s |-> t[i].s, n |-> n] \in taken'
    <2>1. CASE i = 1
      <3>1. \A l \in buffer : ~(l.n < t[i].n)
        BY <1>4, <1>7, <2>1
      <3>2. ASSUME NEW n \in nextSeq..t[i].n PROVE [s |-> t[i].s, n |-> n] = k
        BY <1>2, <1>7, <2>1 DEF Key, Current
      <3> QED BY <3>1, <3>2
    <2>2. CASE i # 1
      <3>1. /\ i - 1 \in 1..Len(e) /\ t[i] = e[i - 1]
            /\ \A j \in 1..(i - 2) : t[j + 1] = e[j] /\ j + 1 \in 1..(i - 1)
        BY <1>3, <1>7, <2>2
      <3>2. e[i - 1] \in run
        BY <1>3, <3>1 DEF Items
      <3>3. ASSUME NEW l \in buffer, l.n < t[i].n PROVE \E j \in 1..(i - 1) : t[j] = l
        <4>1. l \in run
          <5>1. [s |-> k.s, n |-> l.n] \in run
            <6>1. e[i - 1] \in buffer /\ l.n < e[i - 1].n
              BY <1>1, <3>1, <3>2, <3>3
            <6>2. l.n \in (k.n + 1)..e[i - 1].n
              BY <1>4, <6>1
            <6> QED BY <1>5, <3>2, <6>2
          <5>2. l = [s |-> k.s, n |-> l.n]
            BY <1>4 DEF Key
          <5> QED BY <5>1, <5>2
        <4>2. PICK j \in 1..((i - 1) - 1) : e[j] = l
          <5>1. l.n < e[i - 1].n
            BY <3>1, <3>3
          <5>2. \A h \in 1..Len(e) : \A x \in run : x.n < e[h].n => \E j \in 1..(h - 1) : e[j] = x
            BY <1>1, <1>3, RunAscends
          <5> QED BY <3>1, <4>1, <5>1, <5>2
        <4>3. j \in 1..(i - 2)
          BY <4>2
        <4> QED BY <3>1, <4>2, <4>3
      <3>4. ASSUME NEW n \in nextSeq..t[i].n PROVE [s |-> t[i].s, n |-> n] \in taken'
        <4>1. t[i].s = k.s /\ t[i].n \in Nat /\ k.n \in Nat
          BY <1>1, <1>4, <3>1, <3>2
        <4>2. CASE n = k.n
          <5>1. [s |-> k.s, n |-> n] = k
            BY <4>2 DEF Key
          <5> QED BY <4>1, <5>1
        <4>3. CASE n # k.n
          <5>1. [s |-> k.s, n |-> n] \in run
            BY <1>2, <1>5, <3>1, <3>2, <4>1, <4>3
          <5>2. run \subseteq taken
            BY <1>1 DEF KeysInv, Once, Held
          <5> QED BY <4>1, <5>1, <5>2
        <4> QED BY <4>2, <4>3
      <3> QED BY <3>3, <3>4
    <2> QED BY <2>1, <2>2
  <1>10. Ordered
    <2>1. ASSUME NEW i \in 1..Len(t) PROVE \A j \in 1..(i - 1) : Departures[j] = t[j]
      <3>1. \A j \in 1..(i - 1) : j \in 1..Len(t)
        BY <1>3, <1>7
      <3> QED BY <1>8, <3>1
    <2> QED BY <1>8, <1>9, <2>1 DEF Ordered
  <1> QED BY <1>6, <1>10

-----------------------------------------------------------------------------
(* Timeouts *)

\* The number that is next after a timeout.
LEMMA GivenUp ==
    ASSUME QueueType, Current, NEW S \in SUBSET buffer, NEW m \in S, \A l \in S : l.n <= m.n
    PROVE  Max({nextSeq} \union {k.n + 1 : k \in {l \in S : IsCurrent(l.s)}}) = m.n + 1
  <1> DEFINE N == {nextSeq} \union {k.n + 1 : k \in {l \in S : IsCurrent(l.s)}}
  <1>1. \A l \in S : l.n \in Nat /\ IsCurrent(l.s) /\ l.n >= nextSeq
    BY DEF QueueType, Key, Current
  <1>2. m.n + 1 \in N /\ \A y \in N : y \in Nat /\ m.n + 1 >= y
    BY <1>1 DEF Current
  <1>3. \A x \in N : (\A y \in N : x >= y) => x = m.n + 1
    <2> HIDE DEF N
    <2>1. m.n + 1 \in Nat
      BY <1>2
    <2> QED BY <1>2, <2>1
  <1> QED BY <1>2, <1>3 DEF Max

\* Keys leave up to the last that has waited too long.
LEMMA OnTimeoutOrder ==
    ASSUME KeysInv, Current, OnTimeout
    PROVE  Current' /\ Ordered
  <1> DEFINE leave == {k \in buffer : \E l \in aged : k = l \/ Before(k, l)}
  <1>1. leave \in SUBSET buffer /\ (aged = {} => leave = {})
    OBVIOUS
  <1> PICK e \in Sorted(leave) : outCh' = outCh \o e
    BY DEF OnTimeout
  <1>2. /\ buffer' = buffer \ leave /\ aged' = {} /\ order' = order
        /\ nextSeq' = Max({nextSeq} \union {k.n + 1 : k \in {l \in leave : IsCurrent(l.s)}})
    BY DEF OnTimeout
  <1>3. ASSUME NEW k \in buffer \ leave, NEW l \in leave PROVE l.n < k.n
    <2>1. PICK a \in aged : l = a \/ Before(l, a)
      OBVIOUS
    <2>2. k \in Key /\ l \in Key /\ a \in Key /\ IsCurrent(k.s) /\ IsCurrent(l.s) /\ IsCurrent(a.s)
      BY <2>1 DEF KeysInv, QueueType, Current
    <2>3. /\ k.n \in Nat /\ l.n \in Nat /\ a.n \in Nat
          /\ (l = a \/ l.n < a.n) /\ (Before(k, a) <=> k.n < a.n) /\ (k.n = a.n => k = a)
      BY <2>1, <2>2, BeforeIsLess DEF KeysInv
    <2>4. k # a /\ ~Before(k, a)
      BY <2>1
    <2> QED BY <2>3, <2>4
  <1> HIDE DEF leave
  <1>4. /\ e \in Seq(Key) /\ Items(e) = leave /\ Len(e) \in Nat /\ Len(e) = Cardinality(leave)
        /\ outCh \in Seq(Key) /\ QueueType
    BY <1>1, SortedRun DEF KeysInv, QueueType
  <1>5. Current'
    <2>1. \A l \in buffer : l.n \in Nat
      BY DEF KeysInv, QueueType, Key
    <2>2. CASE leave = {}
      <3>1. nextSeq' = nextSeq
        <4>1. nextSeq' = Max({nextSeq, nextSeq})
          BY <1>2, <2>2
        <4> QED BY <4>1, MaxOfTwo DEF Current
      <3> QED BY <1>2, <2>2, <3>1 DEF Current, IsCurrent
    <2>3. CASE leave # {}
      <3>1. PICK m \in leave : \A l \in leave : l.n <= m.n
        BY <1>1, <1>4, <2>3, RunLast
      <3>2. nextSeq' = m.n + 1
        BY <1>1, <1>2, <1>4, <3>1, GivenUp
      <3>3. m.n \in Nat /\ \A l \in buffer \ leave : l.n >= nextSeq'
        BY <1>1, <1>3, <2>1, <3>1, <3>2
      <3> QED BY <1>2, <3>2, <3>3 DEF Current, IsCurrent
    <2> QED BY <2>2, <2>3
  <1>6. DOMAIN Departures = 1..Len(e) /\ \A i \in 1..Len(e) : Departures[i] = e[i]
    BY <1>4, AppendedDepart
  <1>7. ASSUME NEW i \in 1..Len(e), NEW l \in buffer, l.n < e[i].n
        PROVE  \E j \in 1..(i - 1) : e[j] = l
    <2>1. e[i] \in leave /\ l.n \in Nat /\ e[i].n \in Nat
      <3>1. e[i] \in leave
        BY <1>4, SMTT(30) DEF Items
      <3>2. l \in Key /\ e[i] \in Key
        BY <1>1, <3>1 DEF KeysInv, QueueType
      <3> QED BY <3>1, <3>2 DEF Key
    <2>2. l \in leave
      BY <1>3, <1>7, <2>1
    <2>3. \A h \in 1..Len(e) : \A x \in leave : x.n < e[h].n => \E j \in 1..(h - 1) : e[j] = x
      BY <1>1, <1>4, RunAscends
    <2> QED BY <1>7, <2>2, <2>3
  <1>8. aged = {} => Len(e) = 0
    <2>1. Cardinality({}) = 0
      BY FS_EmptySet
    <2> QED BY <1>1, <1>4, <2>1
  <1>9. Ordered
    <2>1. ASSUME NEW i \in 1..Len(e) PROVE (\A j \in 1..(i - 1) : Departures[j] = e[j]) /\ aged # {}
      BY <1>4, <1>6, <1>8
    <2> QED BY <1>6, <1>7, <2>1 DEF Ordered
  <1> QED BY <1>5, <1>9

-----------------------------------------------------------------------------
(* The input path *)

\* A step that leaves the queue alone.
LEMMA QueueSame ==
    ASSUME KeysInv, Current, UNCHANGED qvars
    PROVE  Current' /\ Ordered
  <1>1. Ordered
    BY NothingDeparts DEF KeysInv, QueueType, qvars
  <1> QED BY <1>1, CurrentFrame DEF qvars

\* Every step of the queue keeps the order.
LEMMA StepOrder ==
    ASSUME KeysInv, Current, Next
    PROVE  Current' /\ Ordered
  <1>1. ASSUME NEW k \in wire, JobInput(k) PROVE Current' /\ Ordered
    <2>1. k \in Key /\ k \notin buffer
      BY DEF KeysInv, Sent, Once, Held
    <2>2. CASE QueueNext(k)
      <3>1. taken' = taken \union {k}
        BY <1>1, <2>2 DEF JobInput, QueueNext
      <3> QED BY <2>1, <2>2, <3>1, QueueNextOrder
    <2>3. CASE QueueFull
      BY <2>3, QueueSame DEF QueueFull
    <2> QED BY <1>1, <2>1, <2>2, <2>3, NewSessionOrder, QueueLateOrder, QueueEarlyOrder
            DEF JobInput, QueueItem
  <1>2. CASE QueueTime
    <2>1. CASE Ages
      <3>1. Ordered
        BY <2>1, NothingDeparts DEF KeysInv, QueueType, Ages
      <3>2. Current'
        BY <2>1 DEF Ages, Current, IsCurrent
      <3> QED BY <3>1, <3>2
    <2> QED BY <1>2, <2>1, OnTimeoutOrder DEF QueueTime, TimerFires, StrayFires
  <1>3. CASE HandleInput
    <2>1. outCh \in Seq(Key) /\ outCh # <<>> /\ outCh' = Tail(outCh)
      BY <1>3 DEF HandleInput, Receive, KeysInv, QueueType
    <2>2. outCh' \in Seq(Key) /\ Len(outCh') <= Len(outCh)
      BY <2>1
    <2> QED BY <1>3, <2>1, <2>2, NothingDeparts, CurrentFrame DEF HandleInput, Receive
  <1>4. CASE SendInput \/ OutputStep
    <2>1. UNCHANGED qvars
      BY <1>4, OutputFrame DEF SendInput
    <2> QED BY <2>1, QueueSame
  <1> QED BY <1>1, <1>2, <1>3, <1>4 DEF Next, Delivers, OutputStep

\* A key does not overtake one of its session that the queue holds; and it
\* leaves before one that has not come only when a key has waited too long.
THEOREM KeysInOrder == Spec => InOrder
  <1>1. Init => Current
    BY DEF Init, QueueInit, Current
  <1>2. KeysInv /\ Current /\ [Next]_vars => Current'
    BY StepOrder, CurrentFrame DEF vars, qvars
  <1>3. KeysInv /\ Current /\ [Next]_vars => [Ordered]_vars
    BY StepOrder
  <1> QED BY <1>1, <1>2, <1>3, KeysAlways, PTL DEF Spec, InOrder, Ordered
-----------------------------------------------------------------------------
(* Types *)

\* What QueueTypeOK says beyond KeysInv and Current.
NextTyped  == nextSeq \in 1..(MaxSeq + 1) /\ stray \in BOOLEAN
TimerTyped == timer = {} \/ \E k \in Key : timer = {k}

\* A number that follows that of a key.
LEMMA NumberAfter ==
    ASSUME NEW k \in Key
    PROVE  k.n \in Nat /\ k.n + 1 \in 1..(MaxSeq + 1) /\ 1 \in 1..(MaxSeq + 1) /\ 2 \in 1..(MaxSeq + 1)
  <1>1. k.n \in 1..MaxSeq /\ MaxSeq \in Nat \ {0}
    BY QueueAssumption DEF Key
  <1> QED BY <1>1

\* QueueItem keeps the next number, and the timer is set for a key.
LEMMA QueueItemTyped ==
    ASSUME KeysInv, Current, NextTyped, TimerTyped, NEW k \in Key, k \notin buffer, QueueItem(k)
    PROVE  NextTyped' /\ TimerTyped'
  <1>1. CASE QueueFull
    BY <1>1 DEF QueueFull, qvars, NextTyped, TimerTyped
  <1>2. CASE NewSession(k)
    <2>1. nextSeq' \in {1, 2} /\ stray' \in {stray, TRUE} /\ timer' \in {{}, {k}, timer}
      BY <1>2 DEF NewSession
    <2> QED BY <2>1, NumberAfter DEF NextTyped, TimerTyped
  <1>3. CASE QueueLate(k)
    BY <1>3 DEF QueueLate, NextTyped, TimerTyped
  <1>4. CASE QueueEarly(k)
    BY <1>4 DEF QueueEarly, NextTyped, TimerTyped
  <1>5. CASE QueueNext(k)
    <2> DEFINE run == Following(k.s, k.n)
    <2>1. /\ IsCurrent(k.s) /\ k.n = nextSeq /\ nextSeq' = nextSeq + 1 + Cardinality(run)
          /\ timer' = timer /\ stray' = stray
      BY <1>5 DEF QueueNext
    <2>2. PICK e \in Sorted(run) : outCh' = Append(outCh, k) \o e
      BY <1>5 DEF QueueNext
    <2>3. run \in SUBSET buffer
      BY DEF Following
    <2>4. nextSeq' \in 1..(MaxSeq + 1)
      <3>1. CASE run = {}
        <4>1. Cardinality(run) = 0
          BY <3>1, FS_EmptySet
        <4> QED BY <2>1, <4>1, NumberAfter
      <3>2. CASE run # {}
        <4> HIDE DEF run
        <4>1. e \in Seq(Key) /\ Items(e) = run /\ Len(e) \in Nat /\ QueueType
          BY <2>2, <2>3, SortedRun DEF KeysInv
        <4>2. PICK m \in run : \A l \in run : l.n <= m.n
          BY <2>2, <2>3, <3>2, <4>1, RunLast
        <4>3. Cardinality(run) = m.n - k.n
          BY <2>1, <4>2, FollowingRun DEF run
        <4>4. m \in Key
          BY <2>3, <4>1, <4>2 DEF QueueType
        <4>5. m.n \in Nat /\ k.n \in Nat /\ m.n + 1 \in 1..(MaxSeq + 1)
          BY <4>4, NumberAfter
        <4> QED BY <2>1, <4>3, <4>5
      <3> QED BY <3>1, <3>2
    <2> QED BY <2>1, <2>4 DEF NextTyped, TimerTyped
  <1> QED BY <1>1, <1>2, <1>3, <1>4, <1>5 DEF QueueItem

\* So does a timeout.
LEMMA OnTimeoutTyped ==
    ASSUME KeysInv, Current, nextSeq \in 1..(MaxSeq + 1), OnTimeout
    PROVE  nextSeq' \in 1..(MaxSeq + 1) /\ TimerTyped'
  <1> DEFINE leave == {k \in buffer : \E l \in aged : k = l \/ Before(k, l)}
  <1>1. leave \in SUBSET buffer /\ buffer \subseteq Key
    BY DEF KeysInv, QueueType
  <1>2. PICK e \in Sorted(leave) : outCh' = outCh \o e
    BY DEF OnTimeout
  <1>3. /\ nextSeq' = Max({nextSeq} \union {k.n + 1 : k \in {l \in leave : IsCurrent(l.s)}})
        /\ timer' \in (IF buffer = leave THEN {{}} ELSE {{k} : k \in buffer \ leave})
    BY DEF OnTimeout
  <1> HIDE DEF leave
  <1>4. TimerTyped'
    BY <1>1, <1>3 DEF TimerTyped
  <1>5. CASE leave = {}
    <2>1. nextSeq' = Max({nextSeq, nextSeq})
      BY <1>3, <1>5
    <2> QED BY <1>4, <2>1, MaxOfTwo DEF Current
  <1>6. CASE leave # {}
    <2>1. e \in Seq(Key) /\ Items(e) = leave /\ QueueType
      BY <1>1, <1>2, SortedRun DEF KeysInv
    <2>2. PICK m \in leave : \A l \in leave : l.n <= m.n
      BY <1>1, <1>2, <1>6, <2>1, RunLast
    <2>3. nextSeq' = m.n + 1
      BY <1>1, <1>3, <2>1, <2>2, GivenUp
    <2> QED BY <1>1, <1>4, <2>2, <2>3, NumberAfter
  <1> QED BY <1>5, <1>6

\* Every step of the terminal does.
LEMMA QueueStepTyped ==
    ASSUME KeysInv, Current, NextTyped, TimerTyped, [Next]_vars
    PROVE  NextTyped' /\ TimerTyped'
  <1>1. ASSUME NEW k \in wire, JobInput(k) PROVE NextTyped' /\ TimerTyped'
    <2>1. k \in Key /\ k \notin buffer
      BY DEF KeysInv, Sent, Once, Held
    <2> QED BY <1>1, <2>1, QueueItemTyped DEF JobInput
  <1>2. CASE QueueTime
    <2>1. CASE Ages
      BY <2>1 DEF Ages, NextTyped, TimerTyped
    <2> QED BY <1>2, <2>1, OnTimeoutTyped DEF QueueTime, TimerFires, StrayFires, NextTyped
  <1>3. UNCHANGED <<nextSeq, stray, timer>> => NextTyped' /\ TimerTyped'
    BY DEF NextTyped, TimerTyped
  <1>4. CASE HandleInput
    BY <1>3, <1>4 DEF HandleInput, Receive
  <1>5. CASE SendInput \/ OutputStep \/ UNCHANGED vars
    <2>1. UNCHANGED qvars
      BY <1>5, OutputFrame DEF SendInput, vars
    <2> QED BY <1>3, <2>1 DEF qvars
  <1> QED BY <1>1, <1>2, <1>4, <1>5 DEF Next, Delivers, OutputStep

\* The types of the queue follow.
LEMMA QueueTyped ==
    ASSUME KeysInv, Current, NextTyped, TimerTyped
    PROVE  QueueTypeOK
  <1>1. ASSUME timer = {} PROVE timer \subseteq Key /\ Cardinality(timer) <= 1
    <2>1. Cardinality({}) = 0
      BY FS_EmptySet
    <2> QED BY <1>1, <2>1
  <1>2. ASSUME NEW k \in Key, timer = {k} PROVE timer \subseteq Key /\ Cardinality(timer) <= 1
    <2>1. Cardinality({k}) = 1
      BY FS_Singleton
    <2> QED BY <1>2, <2>1
  <1>3. timer \subseteq Key /\ Cardinality(timer) <= 1
    BY <1>1, <1>2 DEF TimerTyped
  <1> QED BY <1>3 DEF QueueTypeOK, KeysInv, QueueType, Current, NextTyped

\* The queue keeps its types in every behaviour.
LEMMA QueueTypedAlways == Spec => [](KeysInv /\ Current /\ NextTyped /\ TimerTyped)
  <1>1. Init => Current /\ NextTyped /\ TimerTyped
    <2>1. 1 \in 1..(MaxSeq + 1)
      BY QueueAssumption
    <2>2. Init => Current
      BY DEF Init, QueueInit, Current
    <2>3. Init => NextTyped /\ TimerTyped
      BY <2>1 DEF Init, QueueInit, NextTyped, TimerTyped
    <2> QED BY <2>2, <2>3
  <1>2. KeysInv /\ Current /\ NextTyped /\ TimerTyped /\ [Next]_vars => (Current /\ NextTyped /\ TimerTyped)'
    <2>1. KeysInv /\ Current /\ [Next]_vars => Current'
      BY StepOrder, CurrentFrame DEF vars, qvars
    <2> QED BY <2>1, QueueStepTyped
  <1> QED BY <1>1, <1>2, KeysAlways, PTL DEF Spec

-----------------------------------------------------------------------------
(* The files *)

\* The number of parts of a file.
Count(f) == MaxSize[f] \div PartSize

\* An entry of the cache, or a file in the database.
IsEntry(e) ==
    e.size \in Nat /\ e.meta \in Nat /\ e = [size |-> e.size, meta |-> e.meta, parts |-> e.parts]

-----------------------------------------------------------------------------
(* Numbers *)

\* A product grows with its first factor.
LEMMA MulMono ==
    ASSUME NEW a \in Int, NEW b \in Int, NEW c \in Nat, a <= b
    PROVE  a * c <= b * c
  BY SMT

\* What a quotient and a remainder are.
LEMMA DivMod ==
    ASSUME NEW i \in Nat, NEW c \in Nat \ {0}
    PROVE  /\ i \div c \in Nat /\ i % c \in Nat /\ i % c < c
           /\ i = ((i \div c) * c) + (i % c)
  BY SMT

\* There is only one pair of them.
LEMMA DivModOf ==
    ASSUME NEW q \in Nat, NEW c \in Nat \ {0}, NEW r \in Nat, r < c
    PROVE  (q * c + r) \div c = q /\ (q * c + r) % c = r
  BY SMT

\* Numbers with one remainder are at least the modulus apart.
LEMMA ModDistance ==
    ASSUME NEW c \in Nat \ {0}, NEW a \in Nat, NEW b \in Nat, a < b, a % c = b % c
    PROVE  a + c <= b
  <1> DEFINE x == a \div c
             y == b \div c
  <1>1. a = (x * c) + (a % c) /\ x \in Nat /\ a % c \in Nat
    BY DivMod
  <1>2. b = (y * c) + (b % c) /\ y \in Nat /\ b % c \in Nat
    BY DivMod
  <1> HIDE DEF x, y
  <1>3. x * c \in Nat /\ y * c \in Nat
    BY <1>1, <1>2
  <1>4. x < y
    <2>1. ASSUME y <= x PROVE FALSE
      <3>1. y * c <= x * c
        BY <1>1, <1>2, <2>1, MulMono
      <3> QED BY <1>1, <1>2, <1>3, <3>1
    <2> QED BY <1>1, <1>2, <2>1
  <1>5. (x + 1) * c <= y * c /\ (x + 1) * c = x * c + c
    BY <1>1, <1>2, <1>4, MulMono
  <1> QED BY <1>1, <1>2, <1>3, <1>5

\* The larger and the lesser of two numbers.
LEMMA MaxIs ==
    ASSUME NEW a \in Int, NEW b \in Int
    PROVE  Max({a, b}) = IF a >= b THEN a ELSE b
  <1> DEFINE m == IF a >= b THEN a ELSE b
  <1>1. m \in {a, b} /\ \A y \in {a, b} : m >= y
    OBVIOUS
  <1>2. \A x \in {a, b} : (\A y \in {a, b} : x >= y) => x = m
    OBVIOUS
  <1> QED BY <1>1, <1>2 DEF Max

\* The smaller of two numbers.
LEMMA MinIs ==
    ASSUME NEW a \in Int, NEW b \in Int
    PROVE  Min({a, b}) = IF a <= b THEN a ELSE b
  <1> DEFINE m == IF a <= b THEN a ELSE b
  <1>1. m \in {a, b} /\ \A y \in {a, b} : m <= y
    OBVIOUS
  <1>2. \A x \in {a, b} : (\A y \in {a, b} : x <= y) => x = m
    OBVIOUS
  <1> QED BY <1>1, <1>2 DEF Min

\* Numbers with a bound have a largest.
LEMMA MaxExists ==
    ASSUME NEW S \in SUBSET Nat, NEW b \in Nat, \A x \in S : x <= b, S # {}
    PROVE  Max(S) \in S /\ \A x \in S : x <= Max(S)
  <1> DEFINE T == {b - x : x \in S}
  <1>1. T \subseteq Nat /\ T # {}
    <2>1. ASSUME NEW x \in S PROVE b - x \in Nat
      <3>1. x \in Nat /\ x <= b
        OBVIOUS
      <3> QED BY <3>1
    <2> QED BY <2>1
  <1>2. PICK y \in T : \A z \in T : ~(<<z, y>> \in OpToRel(<, Nat))
    BY <1>1, NatLessThanWellFounded, WFMin
  <1>3. \A z \in T : y <= z
    <2> HIDE DEF T
    <2> TAKE z \in T
    <2>1. y \in Nat /\ z \in Nat
      BY <1>1, <1>2
    <2>2. ~(z < y)
      BY <1>2, <2>1 DEF OpToRel
    <2> QED BY <2>1, <2>2
  <1>4. PICK x \in S : y = b - x
    BY <1>2
  <1>5. \A z \in S : x >= z
    <2> TAKE z \in S
    <2>1. y <= b - z
      BY <1>3
    <2> QED BY <1>4, <2>1
  <1>6. Max(S) \in S /\ \A z \in S : Max(S) >= z
    BY <1>5 DEF Max
  <1> QED BY <1>6

\* What the proofs need of the constants.
LEMMA Sizes ==
    ASSUME NEW f \in File
    PROVE  /\ PartSize \in Nat \ {0} /\ MaxSize[f] \in Nat \ {0} /\ Count(f) \in Nat \ {0}
           /\ MaxSize[f] = Count(f) * PartSize
  <1>1. PartSize \in Nat \ {0} /\ MaxSize[f] \in Nat \ {0} /\ MaxSize[f] % PartSize = 0
    BY FileAssumption
  <1>2. Count(f) \in Nat /\ MaxSize[f] = (Count(f) * PartSize) + 0
    BY <1>1, DivMod DEF Count
  <1>3. Count(f) # 0
    BY <1>1, <1>2
  <1> QED BY <1>1, <1>2, <1>3

-----------------------------------------------------------------------------
(* Places in a circular file *)

\* Two places that are kept in one byte of one part are MaxSize apart.
LEMMA OnePlace ==
    ASSUME NEW f \in File, NEW i \in Nat, NEW j \in Nat, i < j,
           PartAt(f, i) = PartAt(f, j), i % PartSize = j % PartSize
    PROVE  i + MaxSize[f] <= j
  <1> DEFINE P == PartSize
             N == Count(f)
             x == i \div P
             y == j \div P
  <1>1. P \in Nat \ {0} /\ N \in Nat \ {0} /\ MaxSize[f] = N * P
    BY Sizes
  <1>2. x % N = y % N
    BY DEF PartAt, Count
  <1>3. i = (x * P) + (i % P) /\ x \in Nat /\ i % P \in Nat
    BY <1>1, DivMod
  <1>4. j = (y * P) + (i % P) /\ y \in Nat
    BY <1>1, DivMod
  <1> HIDE DEF x, y, N, P
  <1>5. x * P \in Nat /\ y * P \in Nat /\ N * P \in Nat
    BY <1>1, <1>3, <1>4
  <1>6. x < y
    <2>1. ASSUME y <= x PROVE FALSE
      <3>1. y * P <= x * P
        BY <1>1, <1>3, <1>4, <2>1, MulMono
      <3> QED BY <1>3, <1>4, <1>5, <3>1
    <2> QED BY <1>3, <1>4, <2>1
  <1>7. x + N <= y
    BY <1>1, <1>2, <1>3, <1>4, <1>6, ModDistance
  <1>8. (x + N) * P <= y * P /\ (x + N) * P = (x * P) + (N * P)
    BY <1>1, <1>3, <1>4, <1>7, MulMono
  <1> QED BY <1>1, <1>3, <1>4, <1>5, <1>8

\* The part and the byte of a place.
LEMMA PlaceOf ==
    ASSUME NEW f \in File, NEW q \in Nat, NEW k \in 0..(PartSize - 1)
    PROVE  /\ q * PartSize + k \in Nat
           /\ PartAt(f, q * PartSize + k) = q % Count(f) /\ (q * PartSize + k) % PartSize = k
  <1>1. PartSize \in Nat \ {0} /\ k \in Nat /\ k < PartSize
    BY Sizes
  <1>2. (q * PartSize + k) \div PartSize = q /\ (q * PartSize + k) % PartSize = k
    BY <1>1, DivModOf
  <1>3. q * PartSize + k \in Nat
    BY <1>1
  <1> QED BY <1>2, <1>3 DEF PartAt, Count
\* The places of a write of n bytes: those after the last MaxSize are left out.
Places(f, offset, n) ==
    {i \in Nat : offset <= i /\ i < offset + n /\ offset + n <= i + MaxSize[f]}

\* The places that writeAt goes through are the last ones of the data that fit.
LEMMA PlacesOf ==
    ASSUME NEW f \in File, NEW offset \in Nat, NEW n \in Nat
    PROVE  Max({offset, (offset + n) - Min({n, MaxSize[f]})})..((offset + n) - 1)
           = Places(f, offset, n)
  <1>1. MaxSize[f] \in Nat \ {0}
    BY Sizes
  <1>2. Min({n, MaxSize[f]}) = IF n <= MaxSize[f] THEN n ELSE MaxSize[f]
    BY <1>1, MinIs
  <1> DEFINE m == IF n <= MaxSize[f] THEN n ELSE MaxSize[f]
  <1>3. m \in Nat /\ (offset + n) - m \in Int
    BY <1>1
  <1>4. Max({offset, (offset + n) - m}) = IF offset >= (offset + n) - m THEN offset ELSE (offset + n) - m
    BY <1>3, MaxIs
  <1> DEFINE lo == IF offset >= (offset + n) - m THEN offset ELSE (offset + n) - m
  <1>5. lo \in Nat /\ \A i \in Int : lo <= i <=> offset <= i /\ offset + n <= i + MaxSize[f]
    BY <1>1
  <1>6. lo..((offset + n) - 1) = Places(f, offset, n)
    <2> HIDE DEF lo, m
    <2>1. ASSUME NEW i \in lo..((offset + n) - 1) PROVE i \in Places(f, offset, n)
      BY <1>5 DEF Places
    <2>2. ASSUME NEW i \in Places(f, offset, n) PROVE i \in lo..((offset + n) - 1)
      BY <1>5 DEF Places
    <2> QED BY <2>1, <2>2
  <1> QED BY <1>2, <1>4, <1>6

\* In the places of one write there is one for each byte of a part.
LEMMA OneSpot ==
    ASSUME NEW f \in File, NEW offset \in Nat, NEW n \in Nat,
           NEW i \in Places(f, offset, n), NEW j \in Places(f, offset, n),
           PartAt(f, i) = PartAt(f, j), i % PartSize = j % PartSize
    PROVE  i = j
  <1>1. i \in Nat /\ j \in Nat /\ MaxSize[f] \in Nat \ {0}
    BY Sizes DEF Places
  <1>2. ~(i + MaxSize[f] <= j) /\ ~(j + MaxSize[f] <= i)
    BY <1>1 DEF Places
  <1>3. ~(i < j)
    BY <1>1, <1>2, OnePlace
  <1>4. ~(j < i)
    BY <1>1, <1>2, OnePlace
  <1> QED BY <1>1, <1>3, <1>4

\* What a write of data at an offset makes of the parts in the cache.
WrittenOver(f, base, meta, offset, data, new) ==
    LET places == Places(f, offset, Len(data)) IN
    /\ IsEntry(new) /\ new.size = offset + Len(data) /\ new.meta = meta
    /\ DOMAIN new.parts = DOMAIN base \union {PartAt(f, i) : i \in places}
    /\ \A i \in places : new.parts[PartAt(f, i)][i % PartSize] = data[i - offset + 1]
    /\ \A p \in DOMAIN new.parts, k \in 0..(PartSize - 1) :
         (\A i \in places : ~(PartAt(f, i) = p /\ i % PartSize = k)) =>
             new.parts[p][k] = IF p \in DOMAIN base THEN base[p][k] ELSE NoByte

\* What writeAt makes of an entry, byte by byte.
LEMMA WriteResult ==
    ASSUME NEW f \in File, NEW e, e.meta \in Nat, NEW offset \in Nat, NEW data, Len(data) \in Nat,
           NEW replace \in BOOLEAN,
           NEW new, new = WriteAt(f, e, offset, data, replace),
           NEW base, base = IF replace THEN <<>> ELSE e.parts
    PROVE  WrittenOver(f, base, e.meta, offset, data, new)
  <1> DEFINE n == Len(data)
             places == Max({offset, (offset + n) - Min({n, MaxSize[f]})})..((offset + n) - 1)
             spot(p, k) == {i \in places : PartAt(f, i) = p /\ i % PartSize = k}
             old(p, k)  == IF p \in DOMAIN base THEN base[p][k] ELSE NoByte
             dom == DOMAIN base \union {PartAt(f, i) : i \in places}
             parts == [p \in dom |-> [k \in 0..(PartSize - 1) |->
                           IF spot(p, k) = {} THEN old(p, k)
                           ELSE data[(CHOOSE i \in spot(p, k) : TRUE) - offset + 1]]]
  <1>0. places = Places(f, offset, n)
    BY PlacesOf
  <1>1. new = [size |-> offset + n, meta |-> e.meta, parts |-> parts]
    BY DEF WriteAt
  <1> HIDE DEF places
  <1>2. new.size = offset + n /\ new.meta = e.meta /\ new.parts = parts /\ offset + n \in Nat
    <2> HIDE DEF parts
    <2> QED BY <1>1
  <1>3. IsEntry(new)
    BY <1>1, <1>2 DEF IsEntry
  <1>4. ASSUME NEW i \in places
        PROVE  new.parts[PartAt(f, i)][i % PartSize] = data[i - offset + 1]
    <2> DEFINE p == PartAt(f, i)
               k == i % PartSize
    <2>1. k \in 0..(PartSize - 1)
      <3>1. i \in Nat /\ PartSize \in Nat \ {0}
        BY <1>0, Sizes DEF Places
      <3>2. k \in Nat /\ k < PartSize
        BY <3>1, DivMod
      <3> QED BY <3>1, <3>2
    <2>2. i \in spot(p, k) /\ \A j \in spot(p, k) : j = i
      BY <1>0, OneSpot
    <2>3. (CHOOSE j \in spot(p, k) : TRUE) = i
      BY <2>2
    <2>4. p \in dom
      OBVIOUS
    <2>5. parts[p][k] = data[i - offset + 1]
      BY <2>1, <2>2, <2>3, <2>4
    <2> QED BY <1>2, <2>5
  <1>5. ASSUME NEW p \in dom, NEW k \in 0..(PartSize - 1),
               \A i \in places : ~(PartAt(f, i) = p /\ i % PartSize = k)
        PROVE  parts[p][k] = old(p, k)
    <2>1. spot(p, k) = {}
      BY <1>5
    <2> QED BY <2>1
  <1>6. DOMAIN new.parts = dom
    BY <1>2
  <1> HIDE DEF parts
  <1> QED BY <1>0, <1>2, <1>3, <1>4, <1>5, <1>6 DEF WrittenOver

\* A write that ends at or after the end of a part's last visit fills the part.
LEMMA LastVisit ==
    ASSUME NEW f \in File, NEW offset \in Nat, NEW n \in Nat \ {0},
           NEW i \in Places(f, offset, n)
    PROVE  LET starts == {k * PartSize : k \in (offset \div PartSize)..((offset + n - 1) \div PartSize)}
               visits == {t \in starts : PartAt(f, t) = PartAt(f, i)}
           IN  /\ PartAt(f, i) \in {PartAt(f, t) : t \in starts}
               /\ \E q \in Nat : /\ Max(visits) = q * PartSize
                                 /\ PartAt(f, i) = q % Count(f)
                                 /\ offset + n <= q * PartSize + MaxSize[f]
  <1> DEFINE P == PartSize
             N == Count(f)
             last == offset + n - 1
             a == offset \div P
             b == last \div P
             x == i \div P
             starts == {k * P : k \in a..b}
             visits == {t \in starts : PartAt(f, t) = PartAt(f, i)}
  <1>1. P \in Nat \ {0} /\ N \in Nat \ {0} /\ MaxSize[f] = N * P
    BY Sizes
  <1>2. last \in Nat /\ i \in Nat /\ offset <= i /\ i <= last
    BY DEF Places
  <1>3. a \in Nat /\ offset % P \in Nat /\ offset % P < P /\ offset = (a * P) + (offset % P)
    BY <1>1, DivMod
  <1>4. b \in Nat /\ last % P \in Nat /\ last % P < P /\ last = (b * P) + (last % P)
    <2> HIDE DEF last
    <2> QED BY <1>1, <1>2, DivMod
  <1>5. x \in Nat /\ i % P \in Nat /\ i % P < P /\ i = (x * P) + (i % P)
    BY <1>1, <1>2, DivMod
  <1>6. PartAt(f, i) = x % N
    BY DEF PartAt, Count
  <1>7. \A q \in Nat : q * P \in Nat /\ PartAt(f, q * P) = q % N
    <2> TAKE q \in Nat
    <2>1. 0 \in 0..(P - 1) /\ q * P \in Nat /\ q * P + 0 = q * P
      BY <1>1
    <2> QED BY <2>1, PlaceOf
  <1> HIDE DEF a, b, x, last, N, P
  <1>8. a <= x /\ x <= b
    <2>1. ASSUME NEW u \in Nat, NEW v \in Nat, NEW r \in Nat, NEW s \in Nat, r < P, s < P,
                 (u * P) + r <= (v * P) + s
          PROVE  u <= v
      <3>1. ASSUME v + 1 <= u PROVE FALSE
        <4>1. (v + 1) * P <= u * P /\ (v + 1) * P = (v * P) + P
          BY <1>1, <3>1, MulMono
        <4>2. u * P \in Nat /\ v * P \in Nat
          BY <1>1
        <4> QED BY <1>1, <2>1, <4>1, <4>2
      <3> QED BY <3>1
    <2> QED BY <1>2, <1>3, <1>4, <1>5, <2>1
  <1>9. x * P \in visits
    BY <1>3, <1>4, <1>5, <1>6, <1>7, <1>8
  <1>10. visits \subseteq Nat /\ \A t \in visits : t <= b * P
    <2>1. ASSUME NEW k \in a..b PROVE k * P \in Nat /\ k * P <= b * P
      BY <1>1, <1>3, <1>4, MulMono
    <2> QED BY <2>1
  <1>11. b * P \in Nat
    BY <1>1, <1>4
  <1>12. Max(visits) \in visits /\ \A t \in visits : t <= Max(visits)
    <2> HIDE DEF visits
    <2> QED BY <1>9, <1>10, <1>11, MaxExists
  <1>13. PICK q \in a..b : Max(visits) = q * P
    BY <1>12
  <1>14. q \in Nat /\ q % N = PartAt(f, i)
    <2>1. q \in Nat
      BY <1>3, <1>4
    <2> QED BY <1>7, <1>12, <1>13, <2>1
  <1>15. (q + N) % N = q % N
    <2> DEFINE d == q \div N
               r == q % N
    <2>1. q = (d * N) + r /\ d \in Nat /\ r \in Nat /\ r < N
      BY <1>1, <1>14, DivMod
    <2>2. q + N = (d + 1) * N + r
      <3> HIDE DEF d, r
      <3> QED BY <1>1, <2>1
    <2>3. d + 1 \in Nat /\ r \in Nat /\ r < N
      BY <2>1
    <2> HIDE DEF d
    <2>4. ((d + 1) * N + r) % N = r
      <3> HIDE DEF r
      <3> QED BY <1>1, <2>3, DivModOf
    <2> QED BY <2>2, <2>4
  <1>16. b < q + N
    <2>1. ASSUME q + N <= b PROVE FALSE
      <3>1. q + N \in a..b /\ q + N \in Nat
        BY <1>1, <1>3, <1>4, <1>14, <2>1
      <3>2. (q + N) * P \in visits
        BY <1>7, <1>14, <1>15, <3>1
      <3>3. (q + N) * P <= q * P
        BY <1>12, <1>13, <3>2
      <3>4. (q + N) * P = (q * P) + (N * P) /\ q * P \in Nat /\ N * P \in Nat \ {0}
        BY <1>1, <1>14, Sizes
      <3> QED BY <3>3, <3>4
    <2> QED BY <1>1, <1>4, <1>14, <2>1
  <1>17. offset + n <= (q * P) + MaxSize[f]
    <2>1. (b + 1) * P <= (q + N) * P /\ (b + 1) * P = (b * P) + P
          /\ (q + N) * P = (q * P) + (N * P)
      BY <1>1, <1>4, <1>14, <1>16, MulMono
    <2>2. last < (b * P) + P /\ q * P \in Nat /\ N * P \in Nat
      BY <1>1, <1>4, <1>11, <1>14
    <2>3. offset + n = last + 1
      BY DEF last
    <2> QED BY <1>1, <1>2, <1>11, <2>1, <2>2, <2>3
  <1>18. PartAt(f, i) \in {PartAt(f, t) : t \in starts}
    BY <1>9
  <1>19. \E c \in Nat : /\ Max(visits) = c * P
                        /\ PartAt(f, i) = c % N /\ offset + n <= c * P + MaxSize[f]
    BY <1>13, <1>14, <1>17
  <1> QED BY <1>18, <1>19, Zenon DEF a, b, P, N, last

\* A part that is touched and not counted as incomplete is written in full.
LEMMA WholeParts ==
    ASSUME NEW f \in File, NEW offset \in Nat, NEW n \in Nat \ {0},
           NEW i \in Places(f, offset, n), PartAt(f, i) \notin Incomplete(f, offset, n),
           NEW k \in 0..(PartSize - 1)
    PROVE  \E j \in Places(f, offset, n) : PartAt(f, j) = PartAt(f, i) /\ j % PartSize = k
  <1> DEFINE starts == {c * PartSize : c \in (offset \div PartSize)..((offset + n - 1) \div PartSize)}
             visits == {t \in starts : PartAt(f, t) = PartAt(f, i)}
             m == Max(visits)
             end == offset + n
  <1>1. PICK q \in Nat : /\ m = q * PartSize
                         /\ PartAt(f, i) = q % Count(f) /\ end <= q * PartSize + MaxSize[f]
    BY LastVisit
  <1>2. PartSize \in Nat \ {0} /\ MaxSize[f] \in Nat /\ m \in Nat
    BY <1>1, Sizes
  <1>3. Min({end, m + PartSize}) - Max({offset, m}) = PartSize
    BY LastVisit DEF Incomplete
  <1> HIDE DEF m
  <1>4. /\ Min({end, m + PartSize}) = IF end <= m + PartSize THEN end ELSE m + PartSize
        /\ Max({offset, m}) = IF offset >= m THEN offset ELSE m
    BY <1>2, MinIs, MaxIs
  <1>5. offset <= m /\ m + PartSize <= end
    BY <1>2, <1>3, <1>4
  <1>6. /\ m + k \in Nat /\ PartAt(f, m + k) = PartAt(f, i) /\ (m + k) % PartSize = k
    BY <1>1, PlaceOf
  <1>7. m + k \in Places(f, offset, n)
    BY <1>1, <1>2, <1>5, <1>6 DEF Places
  <1> QED BY <1>6, <1>7

-----------------------------------------------------------------------------
(* Reading a file *)

\* A file without parts.
LEMMA EmptyDomain == DOMAIN <<>> = {}
  OBVIOUS

\* A byte, and the contents, of a file with d in the database and e in the cache.
ByteIn(f, d, e, offset) ==
    LET p == PartAt(f, offset) IN
    IF p \in DOMAIN e.parts THEN e.parts[p][offset % PartSize]
    ELSE IF p \in DOMAIN d.parts THEN d.parts[p][offset % PartSize]
    ELSE NoByte

ContentsIn(f, d, e) ==
    LET start == Max({e.size, MaxSize[f]}) - MaxSize[f] IN
    [size |-> e.size, meta |-> e.meta,
     data |-> SubSeq([i \in 1..(e.size - start) |-> ByteIn(f, d, e, start + i - 1)], 1, e.size - start)]

\* What a row of the database is without its parts.
LEMMA RowOf ==
    ASSUME NEW d, IsEntry(d)
    PROVE  IsEntry(Row(d)) /\ Row(d).size = d.size /\ Row(d).meta = d.meta /\ Row(d).parts = <<>>
  <1>1. Row(d) = [size |-> d.size, meta |-> d.meta, parts |-> <<>>]
    BY DEF Row, IsEntry
  <1>2. Row(d).size = d.size /\ Row(d).meta = d.meta /\ Row(d).parts = <<>>
    BY <1>1
  <1> QED BY <1>1, <1>2 DEF IsEntry

\* What a file reads as and what the disk holds, now and after a step, in the same terms.
LEMMA Reads ==
    ASSUME NEW f \in File
    PROVE  /\ ReadFile(f) = ContentsIn(f, disk[f], IF f \in cached THEN entry[f] ELSE Row(disk[f]))
           /\ OnDisk(f) = ContentsIn(f, disk[f], Row(disk[f]))
           /\ ReadFile(f)' = ContentsIn(f, disk'[f], IF f \in cached' THEN entry'[f] ELSE Row(disk'[f]))
           /\ OnDisk(f)' = ContentsIn(f, disk'[f], Row(disk'[f]))
  BY Zenon DEF ReadFile, OnDisk, Contents, ContentsIn, ByteAt, ByteIn, Loaded, Row

\* The contents, byte by byte.
LEMMA ContentsOf ==
    ASSUME NEW f \in File, NEW d, NEW e, e.size \in Nat, NEW c, c = ContentsIn(f, d, e)
    PROVE  LET n == IF e.size < MaxSize[f] THEN e.size ELSE MaxSize[f] IN
           /\ c.size = e.size /\ c.meta = e.meta
           /\ c = [size |-> c.size, meta |-> c.meta, data |-> c.data]
           /\ Len(c.data) = n /\ c.data = [i \in 1..n |-> c.data[i]]
           /\ \A i \in 1..n : c.data[i] = ByteIn(f, d, e, ((e.size - n) + i) - 1)
  <1> DEFINE M == MaxSize[f]
             n == IF e.size < M THEN e.size ELSE M
             start == Max({e.size, M}) - M
             all == [i \in 1..(e.size - start) |-> ByteIn(f, d, e, start + i - 1)]
             data == SubSeq(all, 1, e.size - start)
  <1>1. M \in Nat \ {0}
    BY Sizes
  <1>2. start = e.size - n /\ n \in Nat /\ start \in Nat
    <2>1. Max({e.size, M}) = IF e.size >= M THEN e.size ELSE M
      BY <1>1, MaxIs
    <2> QED BY <1>1, <2>1
  <1>3. e.size - start = n
    BY <1>2
  <1>4. /\ c.size = e.size /\ c.meta = e.meta /\ c.data = data
        /\ c = [size |-> c.size, meta |-> c.meta, data |-> c.data]
    <2>1. c = [size |-> e.size, meta |-> e.meta, data |-> data]
      BY DEF ContentsIn
    <2> HIDE DEF data
    <2> QED BY <2>1
  <1> HIDE DEF start
  <1>5. \A i \in 1..n : all[i] = ByteIn(f, d, e, ((e.size - n) + i) - 1)
    <2> TAKE i \in 1..n
    <2>1. start + i - 1 = ((e.size - n) + i) - 1
      BY <1>1, <1>2
    <2> QED BY <1>3, <2>1
  <1> DEFINE V == {all[i] : i \in 1..n}
  <1>6. all \in Seq(V) /\ Len(all) = n
    <2>1. all = [i \in 1..n |-> all[i]]
      BY <1>3
    <2> HIDE DEF all
    <2> QED BY <1>2, <2>1
  <1> HIDE DEF all, V
  <1>7. data = all
    BY <1>2, <1>3, <1>6
  <1>8. all = [i \in 1..n |-> all[i]]
    BY <1>6
  <1> QED BY <1>4, <1>5, <1>6, <1>7, <1>8

\* Two files with the same bytes have the same contents, but for the metadata.
LEMMA SameContents ==
    ASSUME NEW f \in File, NEW d1, NEW e1, NEW d2, NEW e2, e1.size = e2.size, e1.size \in Nat,
           \A i \in Nat : ByteIn(f, d1, e1, i) = ByteIn(f, d2, e2, i)
    PROVE  /\ ContentsIn(f, d1, e1) = [ContentsIn(f, d2, e2) EXCEPT !.meta = e1.meta]
           /\ e1.meta = e2.meta => ContentsIn(f, d1, e1) = ContentsIn(f, d2, e2)
  <1> DEFINE c1 == ContentsIn(f, d1, e1)
             c2 == ContentsIn(f, d2, e2)
             n == IF e1.size < MaxSize[f] THEN e1.size ELSE MaxSize[f]
  <1>1. /\ c1.size = e1.size /\ c1.meta = e1.meta
        /\ c1 = [size |-> c1.size, meta |-> c1.meta, data |-> c1.data]
        /\ c1.data = [i \in 1..n |-> c1.data[i]]
        /\ \A i \in 1..n : c1.data[i] = ByteIn(f, d1, e1, ((e1.size - n) + i) - 1)
    BY ContentsOf
  <1>2. /\ c2.size = e1.size /\ c2.meta = e2.meta
        /\ c2 = [size |-> c2.size, meta |-> c2.meta, data |-> c2.data]
        /\ c2.data = [i \in 1..n |-> c2.data[i]]
        /\ \A i \in 1..n : c2.data[i] = ByteIn(f, d2, e2, ((e1.size - n) + i) - 1)
    BY ContentsOf
  <1> HIDE DEF c1, c2
  <1>3. \A i \in 1..n : c1.data[i] = c2.data[i]
    <2> TAKE i \in 1..n
    <2>1. ((e1.size - n) + i) - 1 \in Nat
      BY Sizes
    <2> DEFINE at == ((e1.size - n) + i) - 1
    <2>2. c1.data[i] = ByteIn(f, d1, e1, at) /\ c2.data[i] = ByteIn(f, d2, e2, at)
      BY <1>1, <1>2, Zenon
    <2>3. at \in Nat
      BY <2>1
    <2> HIDE DEF at
    <2> QED BY <2>2, <2>3
  <1>4. c1.data = c2.data
    BY <1>1, <1>2, <1>3
  <1>5. c1 = [c2 EXCEPT !.meta = e1.meta] /\ (e1.meta = e2.meta => c1 = c2)
    <2>1. c2 = [size |-> c2.size, meta |-> c2.meta, data |-> c2.data]
      BY <1>2
    <2>2. c1 = [size |-> c2.size, meta |-> e1.meta, data |-> c2.data] /\ c2.meta = e2.meta
      BY <1>1, <1>2, <1>4
    <2>3. ASSUME NEW s, NEW m, NEW x, c2 = [size |-> s, meta |-> m, data |-> x]
          PROVE  [c2 EXCEPT !.meta = e1.meta] = [size |-> s, meta |-> e1.meta, data |-> x]
      BY <2>3
    <2>4. [c2 EXCEPT !.meta = e1.meta] = [size |-> c2.size, meta |-> e1.meta, data |-> c2.data]
      BY <2>1, <2>3, Zenon
    <2>5. c1 = [c2 EXCEPT !.meta = e1.meta]
      BY <2>2, <2>4, Zenon
    <2>6. e1.meta = e2.meta => c1 = c2
      BY <2>1, <2>2, Zenon
    <2> QED BY <2>5, <2>6
  <1> QED BY <1>5 DEF c1, c2

\* A file without a byte.
LEMMA NoContents ==
    ASSUME NEW f \in File, NEW d, NEW e, e.size = 0
    PROVE  ContentsIn(f, d, e) = [Promise!Nothing EXCEPT !.meta = e.meta]
  <1> DEFINE c == ContentsIn(f, d, e)
             n == IF e.size < MaxSize[f] THEN e.size ELSE MaxSize[f]
  <1>1. MaxSize[f] \in Nat /\ 0 < MaxSize[f]
    BY Sizes
  <1>2. /\ c.size = e.size /\ c.meta = e.meta
        /\ c = [size |-> c.size, meta |-> c.meta, data |-> c.data]
        /\ c.data = [i \in 1..n |-> c.data[i]]
    BY ContentsOf
  <1> HIDE DEF c
  <1>3. c.data = <<>>
    <2>1. n = 0
      BY <1>1
    <2> HIDE DEF n
    <2> QED BY <1>2, <2>1
  <1>4. c = [size |-> 0, meta |-> e.meta, data |-> <<>>]
    BY <1>2, <1>3
  <1> QED BY <1>4 DEF c, Promise!Nothing

\* The two ways to say that a file is empty.
LEMMA NoMeta == [Promise!Nothing EXCEPT !.meta = 0] = Promise!Nothing
  BY DEF Promise!Nothing

-----------------------------------------------------------------------------
(* The operations on bytes *)

\* A place, in its part.
LEMMA InPart ==
    ASSUME NEW i \in Nat
    PROVE  i % PartSize \in 0..(PartSize - 1)
  <1>1. PartSize \in Nat \ {0}
    BY FileAssumption
  <1>2. i % PartSize \in Nat /\ i % PartSize < PartSize
    BY <1>1, DivMod
  <1> QED BY <1>1, <1>2

\* Loading parts shows no byte in another way.
LEMMA LoadedReads ==
    ASSUME NEW f \in File, NEW e, IsEntry(e), NEW wanted
    PROVE  LET w == WithParts(f, e, wanted) IN
           /\ IsEntry(w) /\ w.size = e.size /\ w.meta = e.meta
           /\ DOMAIN w.parts = DOMAIN e.parts \union (wanted \intersect DOMAIN disk[f].parts)
           /\ \A p \in DOMAIN w.parts :
                w.parts[p] = IF p \in DOMAIN e.parts THEN e.parts[p] ELSE disk[f].parts[p]
  <1> DEFINE fetched == (wanted \intersect DOMAIN disk[f].parts) \ DOMAIN e.parts
             parts == [p \in DOMAIN e.parts \union fetched |->
                          IF p \in fetched THEN disk[f].parts[p] ELSE e.parts[p]]
             w == WithParts(f, e, wanted)
  <1>1. w = [e EXCEPT !.parts = parts]
    BY Zenon DEF WithParts
  <1>2. w = [size |-> e.size, meta |-> e.meta, parts |-> parts]
    <2> HIDE DEF parts, w
    <2> QED BY <1>1 DEF IsEntry
  <1>3. IsEntry(w) /\ w.size = e.size /\ w.meta = e.meta /\ w.parts = parts
    <2> HIDE DEF parts, w
    <2> QED BY <1>2 DEF IsEntry
  <1>4. /\ DOMAIN parts = DOMAIN e.parts \union (wanted \intersect DOMAIN disk[f].parts)
        /\ \A p \in DOMAIN parts :
              parts[p] = IF p \in DOMAIN e.parts THEN e.parts[p] ELSE disk[f].parts[p]
    OBVIOUS
  <1> HIDE DEF w, parts
  <1> QED BY <1>3, <1>4 DEF w

\* What AppendData makes of the entry: the new bytes, and before them the old.
LEMMA AppendReads ==
    ASSUME NEW f \in File, NEW e, IsEntry(e), NEW data, Len(data) \in Nat \ {0},
           NEW replace \in BOOLEAN, ~replace,
           NEW w, w = WithParts(f, e, Incomplete(f, e.size, Len(data))),
           NEW new, new = WriteAt(f, w, e.size, data, replace)
    PROVE  /\ IsEntry(new) /\ new.size = e.size + Len(data) /\ new.meta = e.meta
           /\ \A i \in Nat : i < new.size /\ new.size <= i + MaxSize[f] =>
                ByteIn(f, disk[f], new, i)
                = IF i < e.size THEN ByteIn(f, disk[f], e, i) ELSE data[i - e.size + 1]
  <1> DEFINE n == Len(data)
             d == disk[f]
             places == Places(f, e.size, n)
             wanted == Incomplete(f, e.size, n)
  <1>1. e.size \in Nat /\ n \in Nat \ {0} /\ MaxSize[f] \in Nat \ {0}
    BY Sizes DEF IsEntry
  <1>2. /\ IsEntry(w) /\ w.size = e.size /\ w.meta = e.meta /\ w.meta \in Nat
        /\ DOMAIN w.parts = DOMAIN e.parts \union (wanted \intersect DOMAIN d.parts)
        /\ \A p \in DOMAIN w.parts :
              w.parts[p] = IF p \in DOMAIN e.parts THEN e.parts[p] ELSE d.parts[p]
    BY LoadedReads DEF IsEntry
  <1>3. /\ IsEntry(new) /\ new.size = e.size + n /\ new.meta = e.meta
        /\ DOMAIN new.parts = DOMAIN w.parts \union {PartAt(f, i) : i \in places}
        /\ \A i \in places : new.parts[PartAt(f, i)][i % PartSize] = data[i - e.size + 1]
        /\ \A p \in DOMAIN new.parts, k \in 0..(PartSize - 1) :
             (\A i \in places : ~(PartAt(f, i) = p /\ i % PartSize = k)) =>
                 new.parts[p][k] = IF p \in DOMAIN w.parts THEN w.parts[p][k] ELSE NoByte
    <2>1. w.parts = IF replace THEN <<>> ELSE w.parts
      OBVIOUS
    <2>2. WrittenOver(f, w.parts, w.meta, e.size, data, new)
      BY <1>1, <1>2, <2>1, WriteResult
    <2> QED BY <1>2, <2>2 DEF WrittenOver
  <1> HIDE DEF n
  <1>4. ASSUME NEW i \in Nat, i < new.size, new.size <= i + MaxSize[f], ~(i < e.size)
        PROVE  ByteIn(f, d, new, i) = data[i - e.size + 1]
    <2>1. e.size <= i /\ i < e.size + n /\ e.size + n <= i + MaxSize[f]
      BY <1>1, <1>3, <1>4
    <2>2. i \in places
      BY <2>1 DEF Places
    <2> QED BY <1>3, <2>2 DEF ByteIn
  <1>5. ASSUME NEW i \in Nat, i < e.size, new.size <= i + MaxSize[f]
        PROVE  ByteIn(f, d, new, i) = ByteIn(f, d, e, i)
    <2> DEFINE p == PartAt(f, i)
               k == i % PartSize
    <2>1. k \in 0..(PartSize - 1)
      BY InPart
    <2>2. \A j \in places : ~(PartAt(f, j) = p /\ j % PartSize = k)
      <3> SUFFICES ASSUME NEW j \in places, PartAt(f, j) = p, j % PartSize = k PROVE FALSE
        OBVIOUS
      <3>1. j \in Nat /\ e.size <= j /\ j < e.size + n
        BY DEF Places
      <3>2. i < j
        BY <1>1, <1>5, <3>1
      <3>3. i + MaxSize[f] <= j
        BY <3>1, <3>2, OnePlace
      <3>4. e.size + n <= i + MaxSize[f]
        BY <1>3, <1>5
      <3> QED BY <1>1, <3>1, <3>3, <3>4
    <2>3. p \in DOMAIN new.parts =>
            new.parts[p][k] = IF p \in DOMAIN w.parts THEN w.parts[p][k] ELSE NoByte
      BY <1>3, <2>1, <2>2
    <2>4. p \in DOMAIN new.parts /\ p \notin DOMAIN w.parts => p \in wanted
      <3> SUFFICES ASSUME NEW j \in places, p = PartAt(f, j), p \notin wanted PROVE FALSE
        BY <1>3
      <3>1. \E l \in places : PartAt(f, l) = PartAt(f, j) /\ l % PartSize = k
        BY <1>1, <2>1, WholeParts
      <3> QED BY <2>2, <3>1
    <2>5. ByteIn(f, d, new, i) = IF p \in DOMAIN new.parts THEN new.parts[p][k]
                                 ELSE IF p \in DOMAIN d.parts THEN d.parts[p][k] ELSE NoByte
      BY DEF ByteIn
    <2>6. ByteIn(f, d, e, i) = IF p \in DOMAIN e.parts THEN e.parts[p][k]
                               ELSE IF p \in DOMAIN d.parts THEN d.parts[p][k] ELSE NoByte
      BY DEF ByteIn
    <2>7. p \in DOMAIN w.parts => p \in DOMAIN new.parts
      BY <1>3
    <2> HIDE DEF p, k, d
    <2> QED BY <1>2, <2>3, <2>4, <2>5, <2>6, <2>7
  <1> QED BY <1>3, <1>4, <1>5 DEF n

\* What a transaction writes is what was read before.
LEMMA StoredReads ==
    ASSUME NEW f \in File, NEW e, IsEntry(e), NEW replace \in BOOLEAN, ~replace,
           NEW d, d = Stored(f, e, replace)
    PROVE  /\ IsEntry(d) /\ d.size = e.size /\ d.meta = e.meta
           /\ \A i \in Nat : /\ ByteIn(f, d, Row(d), i) = ByteIn(f, disk[f], e, i)
                             /\ ByteIn(f, d, e, i) = ByteIn(f, disk[f], e, i)
  <1> DEFINE parts == [p \in DOMAIN disk[f].parts \union DOMAIN e.parts |->
                          IF p \in DOMAIN e.parts THEN e.parts[p] ELSE disk[f].parts[p]]
  <1>1. d = [size |-> e.size, meta |-> e.meta, parts |-> parts]
    BY Zenon DEF Stored
  <1>2. IsEntry(d) /\ d.size = e.size /\ d.meta = e.meta /\ d.parts = parts
    <2> HIDE DEF parts
    <2>1. d.size = e.size /\ d.meta = e.meta /\ d.parts = parts
      BY <1>1
    <2> QED BY <1>1, <2>1 DEF IsEntry
  <1>3. Row(d).parts = <<>>
    BY <1>2, RowOf
  <1>4. ASSUME NEW i \in Nat
        PROVE  /\ ByteIn(f, d, Row(d), i) = ByteIn(f, disk[f], e, i)
               /\ ByteIn(f, d, e, i) = ByteIn(f, disk[f], e, i)
    <2>1. PartAt(f, i) \notin DOMAIN Row(d).parts
      BY <1>3, EmptyDomain
    <2> QED BY <1>2, <2>1 DEF ByteIn
  <1> QED BY <1>2, <1>4

-----------------------------------------------------------------------------
(* The operations on files *)

\* The files in the cache and in the database have entries; one that is not in
\* the cache has an empty one.
Entries ==
    /\ disk = [f \in File |-> disk[f]] /\ entry = [f \in File |-> entry[f]]
    /\ \A f \in File : /\ IsEntry(disk[f]) /\ IsEntry(entry[f])
                       /\ f \notin cached => entry[f] = Empty

\* A step that one file takes, and what becomes of it.
Grows(f)   == /\ OnDisk(f)' = OnDisk(f)
              /\ Promise!Grown(ReadFile(f), ReadFile(f)', MaxSize[f])
Clears(f)  == /\ ReadFile(f)' \in {Promise!Nothing, [Promise!Nothing EXCEPT !.meta = ReadFile(f).meta]}
              /\ OnDisk(f)' \in {OnDisk(f), ReadFile(f)'}
Notes(f)   == /\ OnDisk(f)' = OnDisk(f)
              /\ ReadFile(f)' = [ReadFile(f) EXCEPT !.meta = ReadFile(f)'.meta]
Saves(f)   == ReadFile(f)' = ReadFile(f) /\ OnDisk(f)' = ReadFile(f)
Returns(f) == ReadFile(f)' = OnDisk(f) /\ OnDisk(f)' = OnDisk(f)
Stays(f)   == ReadFile(f)' = ReadFile(f) /\ OnDisk(f)' = OnDisk(f)

\* The other files stay as they are.
LEMMA FileStays ==
    ASSUME NEW f \in File, disk'[f] = disk[f], entry'[f] = entry[f],
           f \in cached' <=> f \in cached
    PROVE  Stays(f)
  BY Reads DEF Stays

\* A step that gives file f another row, another entry, or both.
LEMMA FileChanges ==
    ASSUME Entries, NEW f \in File, NEW d, IsEntry(d), NEW e, IsEntry(e),
           disk' = [disk EXCEPT ![f] = d], entry' = [entry EXCEPT ![f] = e],
           f \notin cached' => e = Empty,
           \A g \in File \ {f} : g \in cached' <=> g \in cached
    PROVE  /\ Entries' /\ \A g \in File \ {f} : Stays(g)
           /\ OnDisk(f)' = ContentsIn(f, d, Row(d))
           /\ ReadFile(f)' = ContentsIn(f, d, IF f \in cached' THEN e ELSE Row(d))
  <1>1. /\ disk'[f] = d /\ entry'[f] = e
        /\ \A g \in File \ {f} : disk'[g] = disk[g] /\ entry'[g] = entry[g]
    BY DEF Entries
  <1>2. Entries'
    <2>1. disk' = [g \in File |-> disk'[g]] /\ entry' = [g \in File |-> entry'[g]]
      BY DEF Entries
    <2> QED BY <1>1, <2>1 DEF Entries
  <1>3. \A g \in File \ {f} : Stays(g)
    BY <1>1, FileStays
  <1> QED BY <1>1, <1>2, <1>3, Reads

\* A row or an entry that does not change.
LEMMA Unchanged ==
    ASSUME Entries, NEW f \in File
    PROVE  disk = [disk EXCEPT ![f] = disk[f]] /\ entry = [entry EXCEPT ![f] = entry[f]]
  BY DEF Entries

\* A file without anything is an entry.
LEMMA EmptyEntry ==
    IsEntry(Empty) /\ Empty.size = 0 /\ Empty.meta = 0
  <1>1. Empty = [size |-> 0, meta |-> 0, parts |-> <<>>]
    BY DEF Empty
  <1>2. Empty.size = 0 /\ Empty.meta = 0 /\ Empty.parts = <<>>
    BY <1>1
  <1> QED BY <1>1, <1>2 DEF IsEntry

\* The entry of file f is cleared.
LEMMA EntryCleared ==
    ASSUME Entries, NEW f \in File, NEW d, IsEntry(d), disk' = [disk EXCEPT ![f] = d], Cleared(f)
    PROVE  /\ Entries' /\ \A g \in File \ {f} : Stays(g)
           /\ OnDisk(f)' = ContentsIn(f, d, Row(d)) /\ ReadFile(f)' = OnDisk(f)'
  <1>1. cached' = cached \ {f} /\ entry' = [entry EXCEPT ![f] = Empty] /\ IsEntry(Empty)
    BY EmptyEntry DEF Cleared
  <1>2. f \notin cached'
    BY <1>1
  <1>3. \A g \in File \ {f} : g \in cached' <=> g \in cached
    BY <1>1
  <1>4. /\ Entries' /\ \A g \in File \ {f} : Stays(g)
        /\ OnDisk(f)' = ContentsIn(f, d, Row(d))
        /\ ReadFile(f)' = ContentsIn(f, d, IF f \in cached' THEN Empty ELSE Row(d))
    BY <1>1, <1>2, <1>3, FileChanges
  <1> QED BY <1>2, <1>4

\* The bytes of a file, numbered from the first that was ever written.
LEMMA BytesOf ==
    ASSUME NEW f \in File, NEW d, NEW e, e.size \in Nat, NEW c, c = ContentsIn(f, d, e)
    PROVE  /\ c.size = e.size /\ c.meta = e.meta
           /\ Len(c.data) = (IF c.size < MaxSize[f] THEN c.size ELSE MaxSize[f])
           /\ \A i \in (c.size - Len(c.data) + 1)..c.size : Promise!At(c, i) = ByteIn(f, d, e, i - 1)
  <1> DEFINE n == IF e.size < MaxSize[f] THEN e.size ELSE MaxSize[f]
  <1>1. /\ c.size = e.size /\ c.meta = e.meta /\ Len(c.data) = n
        /\ \A i \in 1..n : c.data[i] = ByteIn(f, d, e, ((e.size - n) + i) - 1)
    <2> DEFINE x == ContentsIn(f, d, e)
    <2>1. /\ x.size = e.size /\ x.meta = e.meta
          /\ x = [size |-> x.size, meta |-> x.meta, data |-> x.data]
          /\ Len(x.data) = n /\ x.data = [i \in 1..n |-> x.data[i]]
          /\ \A i \in 1..n : x.data[i] = ByteIn(f, d, e, ((e.size - n) + i) - 1)
      BY ContentsOf
    <2> HIDE DEF x
    <2> QED BY <2>1 DEF x
  <1>2. n \in Nat /\ n <= e.size
    BY Sizes
  <1>3. ASSUME NEW i \in (c.size - Len(c.data) + 1)..c.size
        PROVE  Promise!At(c, i) = ByteIn(f, d, e, i - 1)
    <2> HIDE DEF n
    <2>1. i - (c.size - Len(c.data)) \in 1..n
      BY <1>1, <1>2
    <2>2. ((e.size - n) + (i - (c.size - Len(c.data)))) - 1 = i - 1
      BY <1>1, <1>2
    <2>3. c.data[i - (c.size - Len(c.data))] = ByteIn(f, d, e, i - 1)
      BY <1>1, <2>1, <2>2
    <2> QED BY <2>3 DEF Promise!At
  <1> QED BY <1>1, <1>3

\* What AppendData makes of the contents.
Appended(f, old, data, new) ==
    /\ new.size = old.size + Len(data) /\ new.meta = old.meta
    /\ Len(new.data) = (IF new.size < MaxSize[f] THEN new.size ELSE MaxSize[f])
    /\ \A i \in (new.size - Len(new.data) + 1)..new.size :
         Promise!At(new, i) = IF i <= old.size THEN Promise!At(old, i) ELSE data[i - old.size]

\* What is loaded is an entry.
LEMMA LoadedEntry ==
    ASSUME Entries, NEW f \in File
    PROVE  IsEntry(Loaded(f)) /\ Loaded(f) = IF f \in cached THEN entry[f] ELSE Row(disk[f])
  BY RowOf DEF Loaded, Entries

\* A file that is appended to grows at its end, in the cache alone.
LEMMA AppendStep ==
    ASSUME Entries, NEW f \in File, NEW data, Len(data) \in Nat \ {0}, AppendData(f, data)
    PROVE  /\ Entries' /\ \A g \in File \ {f} : Stays(g)
           /\ OnDisk(f)' = OnDisk(f) /\ Appended(f, ReadFile(f), data, ReadFile(f)')
  <1> DEFINE e == Loaded(f)
             w == WithParts(f, e, Incomplete(f, e.size, Len(data)))
             new == WriteAt(f, w, e.size, data, FALSE)
             n == Len(data)
  <1>1. IsEntry(e) /\ e = IF f \in cached THEN entry[f] ELSE Row(disk[f])
    BY LoadedEntry
  <1>2. /\ IsEntry(new) /\ new.size = e.size + Len(data) /\ new.meta = e.meta
        /\ \A i \in Nat : i < new.size /\ new.size <= i + MaxSize[f] =>
             ByteIn(f, disk[f], new, i)
             = IF i < e.size THEN ByteIn(f, disk[f], e, i) ELSE data[i - e.size + 1]
    <2> HIDE DEF e
    <2>1. ASSUME NEW r \in BOOLEAN, ~r, NEW x, x = WriteAt(f, w, e.size, data, r)
          PROVE  /\ IsEntry(x) /\ x.size = e.size + Len(data) /\ x.meta = e.meta
                 /\ \A i \in Nat : i < x.size /\ x.size <= i + MaxSize[f] =>
                      ByteIn(f, disk[f], x, i)
                      = IF i < e.size THEN ByteIn(f, disk[f], e, i) ELSE data[i - e.size + 1]
      BY <1>1, <2>1, AppendReads
    <2> HIDE DEF w
    <2> QED BY <2>1, Zenon
  <1>3. entry' = [entry EXCEPT ![f] = new] /\ cached' = cached \union {f} /\ UNCHANGED disk
    BY Zenon DEF AppendData
  <1> HIDE DEF e, new
  <1>4. /\ Entries' /\ \A g \in File \ {f} : Stays(g)
        /\ OnDisk(f)' = OnDisk(f) /\ ReadFile(f)' = ContentsIn(f, disk[f], new)
    <2>1. IsEntry(disk[f]) /\ disk' = [disk EXCEPT ![f] = disk[f]]
      BY <1>3, Unchanged DEF Entries
    <2>2. f \in cached' /\ \A g \in File \ {f} : g \in cached' <=> g \in cached
      BY <1>3
    <2>3. /\ Entries' /\ \A g \in File \ {f} : Stays(g)
          /\ OnDisk(f)' = ContentsIn(f, disk[f], Row(disk[f]))
          /\ ReadFile(f)' = ContentsIn(f, disk[f], IF f \in cached' THEN new ELSE Row(disk[f]))
      BY <1>2, <1>3, <2>1, <2>2, FileChanges
    <2> QED BY <2>2, <2>3, Reads
  <1>5. ReadFile(f) = ContentsIn(f, disk[f], e)
    BY <1>1, Reads
  <1> DEFINE c == ReadFile(f)
             c2 == ContentsIn(f, disk[f], new)
             M == MaxSize[f]
  <1>6. /\ c.size = e.size /\ c.meta = e.meta /\ e.size \in Nat
        /\ Len(c.data) = (IF c.size < M THEN c.size ELSE M)
        /\ \A i \in (c.size - Len(c.data) + 1)..c.size :
             Promise!At(c, i) = ByteIn(f, disk[f], e, i - 1)
    <2>1. e.size \in Nat
      BY <1>1 DEF IsEntry
    <2> DEFINE x == ContentsIn(f, disk[f], e)
    <2>2. /\ x.size = e.size /\ x.meta = e.meta
          /\ Len(x.data) = (IF x.size < M THEN x.size ELSE M)
          /\ \A i \in (x.size - Len(x.data) + 1)..x.size :
               Promise!At(x, i) = ByteIn(f, disk[f], e, i - 1)
      BY <2>1, BytesOf
    <2> HIDE DEF x
    <2>3. c = x
      BY <1>5 DEF x
    <2> HIDE DEF c
    <2> QED BY <2>1, <2>2, <2>3
  <1>7. /\ c2.size = new.size /\ c2.meta = new.meta /\ new.size \in Nat
        /\ Len(c2.data) = (IF c2.size < M THEN c2.size ELSE M)
        /\ \A i \in (c2.size - Len(c2.data) + 1)..c2.size :
             Promise!At(c2, i) = ByteIn(f, disk[f], new, i - 1)
    BY <1>2, BytesOf DEF IsEntry
  <1> HIDE DEF c, c2, M, n
  <1>8. ASSUME NEW i \in (c2.size - Len(c2.data) + 1)..c2.size
        PROVE  Promise!At(c2, i) = IF i <= c.size THEN Promise!At(c, i) ELSE data[i - c.size]
    <2>1. M \in Nat \ {0} /\ n \in Nat \ {0} /\ new.size = e.size + n
      BY <1>2, Sizes DEF M, n
    <2>2. i - 1 \in Nat /\ i - 1 < new.size /\ new.size <= (i - 1) + M
      BY <1>7, <2>1
    <2>3. Promise!At(c2, i) = IF i - 1 < e.size THEN ByteIn(f, disk[f], e, i - 1)
                              ELSE data[i - 1 - e.size + 1]
      BY <1>2, <1>7, <2>2 DEF M
    <2>4. i <= e.size => i \in (c.size - Len(c.data) + 1)..c.size
      BY <1>6, <2>1, <2>2
    <2>5. ~(i <= e.size) => i - 1 - e.size + 1 = i - c.size
      BY <1>6, <2>1, <2>2
    <2> QED BY <1>6, <2>2, <2>3, <2>4, <2>5
  <1>9. Appended(f, c, data, c2)
    <2>1. c2.size = c.size + n /\ c2.meta = c.meta
      BY <1>2, <1>6, <1>7 DEF n
    <2> QED BY <1>7, <1>8, <2>1 DEF Appended, M, n
  <1> QED BY <1>4, <1>9 DEF c, c2

\* An append that fails changes no file, even when it reads one into the cache.
LEMMA AppendFailsStep ==
    ASSUME Entries, NEW f \in File, NEW data, AppendFails(f, data)
    PROVE  Entries' /\ \A g \in File : Stays(g)
  <1>1. CASE UNCHANGED fvars
    BY <1>1, FileStays DEF fvars, Entries
  <1>2. CASE cached' = cached \union {f} /\ entry' = [entry EXCEPT ![f] = Loaded(f)] /\ UNCHANGED disk
    <2> DEFINE e == Loaded(f)
    <2>1. IsEntry(e) /\ e = IF f \in cached THEN entry[f] ELSE Row(disk[f])
      BY LoadedEntry
    <2>2. IsEntry(disk[f]) /\ disk' = [disk EXCEPT ![f] = disk[f]]
      BY <1>2, Unchanged DEF Entries
    <2>3. f \in cached' /\ entry' = [entry EXCEPT ![f] = e] /\ \A g \in File \ {f} : g \in cached' <=> g \in cached
      BY <1>2
    <2> HIDE DEF e
    <2>4. /\ Entries' /\ \A g \in File \ {f} : Stays(g)
          /\ OnDisk(f)' = ContentsIn(f, disk[f], Row(disk[f]))
          /\ ReadFile(f)' = ContentsIn(f, disk[f], IF f \in cached' THEN e ELSE Row(disk[f]))
      BY <2>1, <2>2, <2>3, FileChanges
    <2>5. Stays(f)
      BY <2>1, <2>3, <2>4, Reads DEF Stays
    <2> QED BY <2>4, <2>5
  <1> QED BY <1>1, <1>2, Zenon DEF AppendFails

\* Metadata is written in the cache alone.
LEMMA WriteMetaStep ==
    ASSUME Entries, NEW f \in File, NEW meta \in Nat, WriteMeta(f, meta)
    PROVE  /\ Entries' /\ \A g \in File \ {f} : Stays(g)
           /\ Notes(f) /\ ReadFile(f)'.meta = meta /\ ReadFile(f)'.size = ReadFile(f).size
  <1> DEFINE e == Loaded(f)
             new == [e EXCEPT !.meta = meta]
  <1>1. IsEntry(e) /\ e = IF f \in cached THEN entry[f] ELSE Row(disk[f])
    BY LoadedEntry
  <1>2. cached' = cached \union {f} /\ entry' = [entry EXCEPT ![f] = new] /\ UNCHANGED disk
    BY Zenon DEF WriteMeta
  <1> HIDE DEF e
  <1>3. IsEntry(new) /\ new.size = e.size /\ new.meta = meta /\ new.parts = e.parts
    <2>1. new = [size |-> e.size, meta |-> meta, parts |-> e.parts]
      BY <1>1 DEF IsEntry
    <2>2. e.size \in Nat
      BY <1>1 DEF IsEntry
    <2> HIDE DEF new
    <2>3. new.size = e.size /\ new.meta = meta /\ new.parts = e.parts
      BY <2>1
    <2> QED BY <2>1, <2>2, <2>3 DEF IsEntry
  <1> HIDE DEF new
  <1>4. IsEntry(disk[f]) /\ disk' = [disk EXCEPT ![f] = disk[f]]
    BY <1>2, Unchanged DEF Entries
  <1>5. f \in cached' /\ \A g \in File \ {f} : g \in cached' <=> g \in cached
    BY <1>2
  <1>6. /\ Entries' /\ \A g \in File \ {f} : Stays(g)
        /\ OnDisk(f)' = ContentsIn(f, disk[f], Row(disk[f]))
        /\ ReadFile(f)' = ContentsIn(f, disk[f], IF f \in cached' THEN new ELSE Row(disk[f]))
    BY <1>2, <1>3, <1>4, <1>5, FileChanges
  <1> DEFINE c == ContentsIn(f, disk[f], e)
             c2 == ContentsIn(f, disk[f], new)
  <1>7. c2 = [c EXCEPT !.meta = meta]
    <2>1. \A i \in Nat : ByteIn(f, disk[f], new, i) = ByteIn(f, disk[f], e, i)
      BY <1>3, Zenon DEF ByteIn
    <2>2. new.size \in Nat /\ new.size = e.size /\ new.meta = meta
      BY <1>3 DEF IsEntry
    <2> QED BY <2>1, <2>2, SameContents
  <1>8. c2.size = c.size /\ c2.meta = meta
    <2>1. e.size \in Nat /\ new.size \in Nat
      BY <1>1, <1>3 DEF IsEntry
    <2>2. c.size = e.size /\ c2.size = new.size /\ c2.meta = new.meta
      BY <2>1, BytesOf
    <2> QED BY <1>3, <2>2
  <1>9. ReadFile(f) = c /\ OnDisk(f) = ContentsIn(f, disk[f], Row(disk[f]))
    BY <1>1, Reads
  <1> HIDE DEF c, c2
  <1>10. ReadFile(f)' = c2
    BY <1>5, <1>6 DEF c2
  <1> QED BY <1>6, <1>7, <1>8, <1>9, <1>10 DEF Notes

\* HandleTruncateBlockFile: the file is empty, in the database too or not yet.
LEMMA WriteFileStep ==
    ASSUME Entries, NEW f \in File, WriteFile(f, <<>>)
    PROVE  Entries' /\ (\A g \in File \ {f} : Stays(g)) /\ Clears(f)
  <1> DEFINE e == WriteAt(f, Loaded(f), 0, <<>>, TRUE)
             d == Stored(f, e, TRUE)
             m == Loaded(f).meta
             c == [Promise!Nothing EXCEPT !.meta = m]
  <1>0. m \in Nat /\ m = ReadFile(f).meta
    <2> DEFINE x == Loaded(f)
    <2>1. IsEntry(x) /\ x = IF f \in cached THEN entry[f] ELSE Row(disk[f])
      BY LoadedEntry
    <2> HIDE DEF x
    <2>2. ReadFile(f) = ContentsIn(f, disk[f], x) /\ x.size \in Nat /\ x.meta \in Nat
      BY <2>1, Reads DEF IsEntry
    <2>3. ReadFile(f).meta = x.meta
      BY <2>2, BytesOf
    <2> QED BY <2>2, <2>3 DEF x
  <1>1. IsEntry(e) /\ e.size = 0 /\ e.meta = m
    <2>1. ASSUME NEW r \in BOOLEAN, r, NEW x, x = WriteAt(f, Loaded(f), 0, <<>>, r)
          PROVE  IsEntry(x) /\ x.size = 0 /\ x.meta = m
      <3>1. Len(<<>>) = 0 /\ <<>> = IF r THEN <<>> ELSE Loaded(f).parts
        BY <2>1
      <3>2. WrittenOver(f, <<>>, m, 0, <<>>, x)
        BY <1>0, <2>1, <3>1, WriteResult
      <3> QED BY <3>1, <3>2 DEF WrittenOver
    <2> QED BY <2>1, Zenon
  <1>2. d = [size |-> e.size, meta |-> e.meta, parts |-> e.parts]
    BY Zenon DEF Stored
  <1>3. \/ Cleared(f) /\ disk' = [disk EXCEPT ![f] = d]
        \/ UNCHANGED disk /\ cached' = cached \union {f} /\ entry' = [entry EXCEPT ![f] = e]
        \/ disk' = [disk EXCEPT ![f] = d] /\ cached' = cached \union {f} /\ entry' = [entry EXCEPT ![f] = e]
    BY Zenon DEF WriteFile, CommitsLate
  <1> HIDE DEF e, d, m
  <1>4. IsEntry(d) /\ d.size = 0 /\ d.meta = m
    <2>1. d.size = e.size /\ d.meta = e.meta
      BY <1>2
    <2> QED BY <1>1, <1>2, <2>1 DEF IsEntry
  <1>5. \A x : /\ ContentsIn(f, x, Row(d)) = c
               /\ ContentsIn(f, x, e) = c
    <2>1. Row(d).size = 0 /\ Row(d).meta = m
      BY <1>4, RowOf
    <2> QED BY <1>1, <2>1, NoContents
  <1> HIDE DEF c
  <1>6. CASE Cleared(f) /\ disk' = [disk EXCEPT ![f] = d]
    <2>1. /\ Entries' /\ \A g \in File \ {f} : Stays(g)
          /\ OnDisk(f)' = ContentsIn(f, d, Row(d)) /\ ReadFile(f)' = OnDisk(f)'
      BY <1>4, <1>6, EntryCleared
    <2> QED BY <1>0, <1>5, <2>1 DEF Clears, c
  <1>7. ASSUME cached' = cached \union {f}, entry' = [entry EXCEPT ![f] = e],
               NEW x, IsEntry(x), disk' = [disk EXCEPT ![f] = x], x = disk[f] \/ x = d
        PROVE  Entries' /\ (\A g \in File \ {f} : Stays(g)) /\ Clears(f)
    <2>1. f \in cached' /\ \A g \in File \ {f} : g \in cached' <=> g \in cached
      BY <1>7
    <2>2. /\ Entries' /\ \A g \in File \ {f} : Stays(g)
          /\ OnDisk(f)' = ContentsIn(f, x, Row(x))
          /\ ReadFile(f)' = ContentsIn(f, x, IF f \in cached' THEN e ELSE Row(x))
      BY <1>1, <1>7, <2>1, FileChanges
    <2>3. ReadFile(f)' = c
      BY <1>5, <2>1, <2>2
    <2>4. OnDisk(f)' = OnDisk(f) \/ OnDisk(f)' = c
      BY <1>5, <1>7, <2>2, Reads
    <2> QED BY <1>0, <2>2, <2>3, <2>4 DEF Clears, c
  <1>8. UNCHANGED disk => disk' = [disk EXCEPT ![f] = disk[f]] /\ IsEntry(disk[f])
    BY Unchanged DEF Entries
  <1> QED BY <1>3, <1>4, <1>6, <1>7, <1>8

\* A file without anything reads as nothing.
LEMMA EmptyReads ==
    ASSUME NEW f \in File, NEW d
    PROVE  ContentsIn(f, d, Row(Empty)) = Promise!Nothing
  <1>1. Row(Empty).size = 0 /\ Row(Empty).meta = 0
    BY EmptyEntry, RowOf
  <1>2. ContentsIn(f, d, Row(Empty)) = [Promise!Nothing EXCEPT !.meta = Row(Empty).meta]
    BY <1>1, NoContents
  <1> QED BY <1>1, <1>2, NoMeta

\* DeleteZone.
LEMMA DeleteFileStep ==
    ASSUME Entries, NEW f \in File, DeleteFile(f)
    PROVE  Entries' /\ (\A g \in File \ {f} : Stays(g)) /\ Clears(f)
  <1>1. disk' = [disk EXCEPT ![f] = Empty] /\ Cleared(f)
    BY DEF DeleteFile
  <1>2. /\ Entries' /\ \A g \in File \ {f} : Stays(g)
        /\ OnDisk(f)' = ContentsIn(f, Empty, Row(Empty)) /\ ReadFile(f)' = OnDisk(f)'
    BY <1>1, EmptyEntry, EntryCleared
  <1>3. ContentsIn(f, Empty, Row(Empty)) = Promise!Nothing
    BY EmptyReads
  <1> QED BY <1>2, <1>3 DEF Clears

\* An entry that is given up.
LEMMA GivesUpStep ==
    ASSUME Entries, NEW f \in File, GivesUp(f), UNCHANGED disk
    PROVE  Entries' /\ (\A g \in File \ {f} : Stays(g)) /\ Returns(f)
  <1>1. disk' = [disk EXCEPT ![f] = disk[f]] /\ Cleared(f) /\ IsEntry(disk[f])
    BY Unchanged DEF GivesUp, Entries
  <1>2. /\ Entries' /\ \A g \in File \ {f} : Stays(g)
        /\ OnDisk(f)' = ContentsIn(f, disk[f], Row(disk[f])) /\ ReadFile(f)' = OnDisk(f)'
    BY <1>1, EntryCleared
  <1> QED BY <1>2, Reads DEF Returns

\* The flusher: a dirty entry is saved, a clean one is left as it is.
LEMMA FlushEntryStep ==
    ASSUME Entries, NEW f \in File, FlushEntry(f)
    PROVE  Entries' /\ (\A g \in File \ {f} : Stays(g)) /\ (Saves(f) \/ Stays(f))
  <1>1. Cleared(f)
    BY DEF FlushEntry
  <1>2. CASE f \in cached
    <2> DEFINE e == entry[f]
               d == Stored(f, e, FALSE)
    <2>1. disk' = [disk EXCEPT ![f] = d]
      BY <1>2, Zenon DEF FlushEntry
    <2>2. e.size \in Nat /\ IsEntry(e)
      BY DEF Entries, IsEntry
    <2>3. /\ IsEntry(d) /\ d.size = e.size /\ d.meta = e.meta
          /\ \A i \in Nat : ByteIn(f, d, Row(d), i) = ByteIn(f, disk[f], e, i)
      <3>1. ASSUME NEW r \in BOOLEAN, ~r, NEW x, x = Stored(f, e, r)
            PROVE  /\ IsEntry(x) /\ x.size = e.size /\ x.meta = e.meta
                   /\ \A i \in Nat : ByteIn(f, x, Row(x), i) = ByteIn(f, disk[f], e, i)
        BY <2>2, <3>1, StoredReads
      <3> QED BY <3>1, Zenon
    <2> HIDE DEF d
    <2>4. ContentsIn(f, d, Row(d)) = ContentsIn(f, disk[f], e)
      <3>1. Row(d).size = e.size /\ Row(d).meta = e.meta
        BY <2>3, RowOf
      <3> QED BY <2>2, <2>3, <3>1, SameContents
    <2>5. /\ Entries' /\ \A g \in File \ {f} : Stays(g)
          /\ OnDisk(f)' = ContentsIn(f, d, Row(d)) /\ ReadFile(f)' = OnDisk(f)'
      BY <1>1, <2>1, <2>3, EntryCleared
    <2>6. ReadFile(f) = ContentsIn(f, disk[f], e)
      BY <1>2, Reads
    <2> QED BY <2>4, <2>5, <2>6 DEF Saves
  <1>3. CASE f \notin cached
    <2>1. disk' = [disk EXCEPT ![f] = disk[f]] /\ IsEntry(disk[f])
      BY <1>3, Unchanged DEF FlushEntry, Entries
    <2>2. /\ Entries' /\ \A g \in File \ {f} : Stays(g)
          /\ OnDisk(f)' = ContentsIn(f, disk[f], Row(disk[f])) /\ ReadFile(f)' = OnDisk(f)'
      BY <1>1, <2>1, EntryCleared
    <2> QED BY <1>3, <2>2, Reads DEF Stays
  <1> QED BY <1>2, <1>3

\* A flush that fails, before its commit or after it.
LEMMA FlushStopsStep ==
    ASSUME Entries, NEW f \in File, FlushStops(f)
    PROVE  Entries' /\ (\A g \in File \ {f} : Stays(g)) /\ (Saves(f) \/ Stays(f))
  <1>1. f \in cached /\ UNCHANGED <<cached, entry>>
    BY DEF FlushStops
  <1>2. CASE UNCHANGED disk
    <2>1. Entries' /\ \A g \in File : Stays(g)
      BY <1>1, <1>2, FileStays DEF Entries
    <2> QED BY <2>1
  <1>3. CASE CommitsLate(f, entry[f], FALSE)
    <2> DEFINE e == entry[f]
               d == Stored(f, e, FALSE)
    <2>1. disk' = [disk EXCEPT ![f] = d]
      BY <1>3, Zenon DEF CommitsLate
    <2>2. e.size \in Nat /\ IsEntry(e)
      BY DEF Entries, IsEntry
    <2>3. /\ IsEntry(d) /\ d.size = e.size /\ d.meta = e.meta
          /\ \A i \in Nat : /\ ByteIn(f, d, Row(d), i) = ByteIn(f, disk[f], e, i)
                            /\ ByteIn(f, d, e, i) = ByteIn(f, disk[f], e, i)
      <3>1. ASSUME NEW r \in BOOLEAN, ~r, NEW x, x = Stored(f, e, r)
            PROVE  /\ IsEntry(x) /\ x.size = e.size /\ x.meta = e.meta
                   /\ \A i \in Nat : /\ ByteIn(f, x, Row(x), i) = ByteIn(f, disk[f], e, i)
                                     /\ ByteIn(f, x, e, i) = ByteIn(f, disk[f], e, i)
        BY <2>2, <3>1, StoredReads
      <3> QED BY <3>1, Zenon
    <2> HIDE DEF d
    <2>4. /\ ContentsIn(f, d, Row(d)) = ContentsIn(f, disk[f], e)
          /\ ContentsIn(f, d, e) = ContentsIn(f, disk[f], e)
      <3>1. Row(d).size = e.size /\ Row(d).meta = e.meta
        BY <2>3, RowOf
      <3> QED BY <2>2, <2>3, <3>1, SameContents
    <2>5. entry' = [entry EXCEPT ![f] = e] /\ f \in cached'
          /\ \A g \in File \ {f} : g \in cached' <=> g \in cached
      BY <1>1, Unchanged
    <2>6. /\ Entries' /\ \A g \in File \ {f} : Stays(g)
          /\ OnDisk(f)' = ContentsIn(f, d, Row(d))
          /\ ReadFile(f)' = ContentsIn(f, d, IF f \in cached' THEN e ELSE Row(d))
      BY <2>1, <2>2, <2>3, <2>5, FileChanges
    <2>7. ReadFile(f) = ContentsIn(f, disk[f], e)
      BY <1>1, Reads
    <2> QED BY <2>4, <2>5, <2>6, <2>7 DEF Saves
  <1> QED BY <1>2, <1>3, Zenon DEF FlushStops

\* The server stops, and starts again.
LEMMA RestartStep ==
    ASSUME Entries, Restart
    PROVE  Entries' /\ \A f \in File : Returns(f)
  <1>1. /\ cached' = {} /\ entry' = [f \in File |-> Empty] /\ UNCHANGED disk /\ IsEntry(Empty)
    BY EmptyEntry DEF Restart
  <1>2. Entries'
    BY <1>1 DEF Entries
  <1>3. \A f \in File : Returns(f)
    BY <1>1, Reads DEF Returns
  <1> QED BY <1>2, <1>3

-----------------------------------------------------------------------------
(* The files of a durable terminal *)

\* What one step makes of the files.
FilesStep ==
    \/ \A f \in File : Stays(f)
    \/ \A f \in File : Returns(f)
    \/ \E f \in File : /\ \A g \in File \ {f} : Stays(g)
                       /\ Grows(f) \/ Clears(f) \/ Notes(f) \/ Saves(f) \/ Returns(f)

\* Such a step is one of StoredFile, or none.
LEMMA StepIsPromised ==
    ASSUME FilesStep
    PROVE  [Promise!Next]_(<<[f \in File |-> ReadFile(f)], [f \in File |-> OnDisk(f)]>>)
  <1> DEFINE now   == [f \in File |-> ReadFile(f)]
             saved == [f \in File |-> OnDisk(f)]
  <1>1. \A f \in File : now[f] = ReadFile(f) /\ saved[f] = OnDisk(f)
    OBVIOUS
  <1>2. \A f \in File : now'[f] = ReadFile(f)' /\ saved'[f] = OnDisk(f)'
    OBVIOUS
  <1>3. CASE \A f \in File : Stays(f)
    BY <1>3 DEF Stays
  <1>4. CASE \A f \in File : Returns(f)
    <2>1. now' = saved /\ saved' = saved
      BY <1>4 DEF Returns
    <2> QED BY <2>1 DEF Promise!Next, Promise!Restart
  <1>5. ASSUME NEW f \in File, \A g \in File \ {f} : Stays(g),
               Grows(f) \/ Clears(f) \/ Notes(f) \/ Saves(f) \/ Returns(f)
        PROVE  Promise!Next
    <2>1. Promise!Others(f)
      BY <1>1, <1>2, <1>5 DEF Promise!Others, Stays
    <2>2. Promise!Grow(f) \/ Promise!Clear(f) \/ Promise!Note(f) \/ Promise!Save(f) \/ Promise!GiveUp(f)
      BY <1>1, <1>2, <1>5 DEF Grows, Clears, Notes, Saves, Returns,
         Promise!Grow, Promise!Clear, Promise!Note, Promise!Save, Promise!GiveUp
    <2> QED BY <2>1, <2>2 DEF Promise!Next
  <1> QED BY <1>3, <1>4, <1>5 DEF FilesStep

\* What is read from the stream, and is not yet in the block's file, is a chunk.
Chunked == pos \in Nat /\ (pend = <<>> \/ Len(pend) \in Nat \ {0})

\* What the output loop reads.
LEMMA ChunkRead ==
    ASSUME KeysInv, Chunked, ReadStream, NEW chunk, chunk = Output(pos, pos')
    PROVE  /\ pos' \in Nat /\ Len(chunk) \in Nat \ {0} /\ pos' = pos + Len(chunk)
           /\ pos < pos' /\ pos' <= OutputLen
  <1>1. Len(shell) \in Nat /\ EchoLen \in Nat \ {0} /\ MaxRead \in Nat \ {0}
    BY TerminalAssumption DEF KeysInv, Once
  <1>2. OutputLen \in Nat
    BY <1>1 DEF OutputLen
  <1>3. pos \in Nat /\ pos < OutputLen /\ pos' = Min({OutputLen, pos + MaxRead})
    BY DEF ReadStream, Chunked
  <1>4. Min({OutputLen, pos + MaxRead}) = IF OutputLen <= pos + MaxRead THEN OutputLen ELSE pos + MaxRead
    BY <1>1, <1>2, <1>3, MinIs
  <1>5. pos' \in Nat /\ pos < pos' /\ pos' <= OutputLen
    BY <1>1, <1>2, <1>3, <1>4
  <1> DEFINE n == pos' - pos
  <1>6. n \in Nat \ {0}
    BY <1>3, <1>5
  <1>7. chunk = [i \in 1..n |-> chunk[i]]
    BY DEF Output
  <1>8. Len(chunk) = n
    <2> HIDE DEF n
    <2>1. chunk \in Seq({chunk[i] : i \in 1..n}) /\ DOMAIN chunk = 1..n
      BY <1>6, <1>7
    <2> QED BY <1>6, <2>1
  <1> QED BY <1>3, <1>5, <1>6, <1>8

\* The size of a file and what it lacks are numbers.
LEMMA AskedNat ==
    ASSUME Entries, NEW f \in File
    PROVE  /\ ReadFile(f).size \in Nat /\ ReadFile(f).meta \in Nat
           /\ OnDisk(f).size \in Nat /\ OnDisk(f).meta \in Nat
  <1> DEFINE e == IF f \in cached THEN entry[f] ELSE Row(disk[f])
  <1>1. IsEntry(e) /\ IsEntry(Row(disk[f]))
    BY RowOf DEF Entries
  <1> HIDE DEF e
  <1>2. ReadFile(f) = ContentsIn(f, disk[f], e) /\ OnDisk(f) = ContentsIn(f, disk[f], Row(disk[f]))
    BY Reads DEF e
  <1>3. e.size \in Nat /\ e.meta \in Nat /\ Row(disk[f]).size \in Nat /\ Row(disk[f]).meta \in Nat
    BY <1>1 DEF IsEntry
  <1> QED BY <1>2, <1>3, BytesOf

\* What a restart of the stream makes of the files: it writes the totalgap of the
\* job's file, or nothing.
LEMMA RestartStreamingStep ==
    ASSUME Entries, Chunked, RestartStreaming
    PROVE  /\ Entries' /\ Chunked' /\ pend = <<>> /\ pend' = <<>> /\ shell' = shell
           /\ Asked \in Nat /\ pos' \in Nat /\ Asked <= pos' /\ pos' <= OutputLen
           /\ mark' = [f \in File |->
                  IF f \in (IF pos' = Asked /\ InStep(ReadFile(Job)) THEN {} ELSE File)
                  THEN [at |-> End(f)', size |-> ReadFile(f).size'] ELSE mark[f]]
           /\ \/ UNCHANGED fvars
              \/ /\ pos' # Asked /\ Notes(Job) /\ \A g \in File \ {Job} : Stays(g)
                 /\ ReadFile(Job)'.meta = pos' - ReadFile(Job).size
                 /\ ReadFile(Job)'.size = ReadFile(Job).size
  <1>0. Job \in File
    BY TerminalAssumption
  <1>1. PICK p \in Asked..OutputLen :
          /\ pos' = p
          /\ UNCHANGED fvars \/ (p > Asked /\ WriteMeta(Job, p - ReadFile(Job).size))
          /\ Loses(IF p = Asked /\ InStep(ReadFile(Job)) THEN {} ELSE File)
    BY Zenon DEF RestartStreaming
  <1>2. /\ Asked \in Nat /\ ReadFile(Job).size \in Nat /\ ReadFile(Job).size <= Asked
        /\ p \in Int /\ Asked <= p /\ p <= OutputLen
    <2>1. ReadFile(Job).size \in Nat /\ ReadFile(Job).meta \in Nat
      BY <1>0, AskedNat
    <2> QED BY <1>1, <2>1 DEF Asked
  <1>3. p \in Nat /\ p - ReadFile(Job).size \in Nat
    BY <1>2
  <1>4. pend = <<>> /\ pend' = <<>> /\ shell' = shell
    BY DEF RestartStreaming, inputVars
  <1>5. mark' = [f \in File |->
            IF f \in (IF pos' = Asked /\ InStep(ReadFile(Job)) THEN {} ELSE File)
            THEN [at |-> End(f)', size |-> ReadFile(f).size'] ELSE mark[f]]
    BY <1>1, Zenon DEF Loses
  <1>6. Chunked'
    BY <1>1, <1>3, <1>4 DEF Chunked
  <1>7. CASE UNCHANGED fvars
    <2>1. Entries'
      BY <1>7 DEF fvars, Entries
    <2> QED BY <1>1, <1>2, <1>3, <1>4, <1>5, <1>6, <1>7, <2>1
  <1>8. CASE p > Asked /\ WriteMeta(Job, p - ReadFile(Job).size)
    <2>1. /\ Entries' /\ \A g \in File \ {Job} : Stays(g)
          /\ Notes(Job) /\ ReadFile(Job)'.meta = p - ReadFile(Job).size
          /\ ReadFile(Job)'.size = ReadFile(Job).size
      BY <1>0, <1>3, <1>8, WriteMetaStep
    <2>2. pos' # Asked
      BY <1>1, <1>2, <1>8
    <2> QED BY <1>1, <1>2, <1>3, <1>4, <1>5, <1>6, <2>1, <2>2
  <1> QED BY <1>1, <1>7, <1>8

\* What every step of the terminal makes of the files.
LEMMA StepKeepsPromise ==
    ASSUME KeysInv, Entries, Chunked, [Next]_vars
    PROVE  Entries' /\ Chunked' /\ FilesStep
  <1>0. Job \in File /\ Block \in File
    BY TerminalAssumption
  <1>1. ASSUME NEW f \in File, NEW data, Len(data) \in Nat \ {0}, AppendData(f, data)
        PROVE  Entries' /\ FilesStep
    <2>1. /\ Entries' /\ \A g \in File \ {f} : Stays(g)
          /\ OnDisk(f)' = OnDisk(f) /\ Appended(f, ReadFile(f), data, ReadFile(f)')
      BY <1>1, AppendStep
    <2>2. ReadFile(f).size \in Nat
      BY AskedNat
    <2>3. Promise!Grown(ReadFile(f), ReadFile(f)', MaxSize[f])
      BY <1>1, <2>1, <2>2 DEF Appended, Promise!Grown
    <2> QED BY <2>1, <2>3 DEF FilesStep, Grows
  <1>2. ASSUME UNCHANGED fvars PROVE Entries' /\ FilesStep
    BY <1>2, FileStays DEF fvars, Entries, FilesStep
  <1>3. CASE AppendJobFile
    <2>1. Chunked' /\ Len(pend') \in Nat \ {0}
      BY <1>3, ChunkRead DEF AppendJobFile, Chunked
    <2>2. AppendData(Job, pend')
      BY <1>3 DEF AppendJobFile
    <2> QED BY <1>0, <1>1, <2>1, <2>2
  <1>4. CASE AppendBlockFile
    <2>1. Chunked' /\ Len(pend) \in Nat \ {0}
      BY <1>4 DEF AppendBlockFile, Chunked
    <2>2. CASE AppendData(Block, pend)
      BY <1>0, <1>1, <2>1, <2>2
    <2> QED BY <1>2, <1>4, <2>1, <2>2 DEF AppendBlockFile
  <1>5. CASE ClearBlock
    <2>1. CASE WriteFile(Block, <<>>)
      BY <1>0, <1>5, <2>1, WriteFileStep DEF ClearBlock, Chunked, FilesStep
    <2>2. CASE WriteGivesUp(Block)
      BY <1>0, <1>5, <2>2, GivesUpStep DEF WriteGivesUp, ClearBlock, Chunked, FilesStep
    <2> QED BY <1>5, <2>1, <2>2 DEF ClearBlock
  <1>6. CASE CloseBlock
    BY <1>0, <1>6, DeleteFileStep DEF CloseBlock, streamVars, Chunked, FilesStep
  <1>7. CASE Flushes
    <2>1. CASE FlushBegins
      <3>1. Entries' /\ FilesStep
        BY <2>1, FileStays DEF FlushBegins, Entries, FilesStep
      <3> QED BY <1>7, <3>1 DEF Flushes, tvars, streamVars, Chunked
    <2>2. ASSUME NEW f \in File, FlushEntry(f) PROVE Entries' /\ FilesStep
      BY <2>2, FlushEntryStep DEF FilesStep
    <2> QED BY <1>7, <2>1, <2>2 DEF Flushes, tvars, streamVars, Chunked
  <1>8. CASE FlushGoesWrong
    <2>1. ASSUME NEW f \in File, FlushStops(f) PROVE Entries' /\ FilesStep
      BY <2>1, FlushStopsStep DEF FilesStep
    <2>2. ASSUME NEW f \in File, FlushGivesUp(f) PROVE Entries' /\ FilesStep
      BY <2>2, GivesUpStep DEF FlushGivesUp, FilesStep
    <2> QED BY <1>8, <2>1, <2>2 DEF FlushGoesWrong, Chunked
  <1>9. CASE ServerRestarts
    <2>1. OnDisk(Job).size \in Nat /\ OnDisk(Job).meta \in Nat
      BY <1>0, AskedNat
    <2>2. Restart /\ pos' = OnDisk(Job).size + OnDisk(Job).meta /\ pend' = <<>>
      BY <1>9 DEF ServerRestarts
    <2>3. Entries' /\ FilesStep
      BY <2>2, RestartStep DEF FilesStep
    <2> QED BY <2>1, <2>2, <2>3 DEF Chunked
  <1>10. CASE SendInput \/ Delivers \/ QueueTime \/ HandleInput
    <2>1. UNCHANGED <<fvars, pos, pend>>
      BY <1>10 DEF SendInput, Delivers, JobInput, QueueTime, HandleInput, tvars, streamVars
    <2> QED BY <1>2, <2>1 DEF Chunked
  <1>11. CASE UNCHANGED vars
    BY <1>2, <1>11 DEF vars, tvars, streamVars, Chunked
  <1>12. CASE AppendJobFileFails
    <2>1. AppendFails(Job, Output(pos, pos')) /\ pend' = <<>>
      BY <1>12, Zenon DEF AppendJobFileFails
    <2>2. Entries' /\ FilesStep
      BY <1>0, <2>1, AppendFailsStep DEF FilesStep
    <2>3. pos' \in Nat
      BY <1>12, ChunkRead DEF AppendJobFileFails
    <2> QED BY <2>1, <2>2, <2>3 DEF Chunked
  <1>13. CASE AppendBlockFileFails
    <2>1. (UNCHANGED fvars \/ AppendFails(Block, pend)) /\ pend' = <<>> /\ pos' = pos
      BY <1>13, Zenon DEF AppendBlockFileFails
    <2>2. Entries' /\ FilesStep
      BY <1>0, <1>2, <2>1, AppendFailsStep DEF FilesStep
    <2> QED BY <2>1, <2>2 DEF Chunked
  <1>14. CASE StreamReturns \/ StreamIsLost
    <2>1. RestartStreaming
      BY <1>14 DEF StreamReturns, StreamIsLost
    <2> QED BY <1>0, <1>2, <2>1, RestartStreamingStep DEF FilesStep
  <1> QED BY <1>3, <1>4, <1>5, <1>6, <1>7, <1>8, <1>9, <1>10, <1>11, <1>12, <1>13, <1>14
          DEF Next, Appends, Losses

\* The cache and the database together are the file that pkg/filestore
\* promises, whatever appends, truncations, deletions, flushes and a restart
\* follow one another, for every size of a part, a file and a chunk.
THEOREM FilesKeepPromise == Spec => KeepsPromise
  <1>1. Init => Entries /\ Chunked
    <2> SUFFICES ASSUME Init PROVE Entries /\ Chunked
      OBVIOUS
    <2> QED BY EmptyEntry DEF Init, FileInit, Entries, Chunked
  <1>2. Init => Promise!Init
    <2> SUFFICES ASSUME Init PROVE Promise!Init
      OBVIOUS
    <2>1. \A f \in File : disk[f] = Empty /\ f \notin cached
      BY DEF Init, FileInit
    <2>2. \A f \in File : ReadFile(f) = Promise!Nothing /\ OnDisk(f) = Promise!Nothing
      BY <2>1, Reads, EmptyReads
    <2> QED BY <2>2 DEF Promise!Init
  <1>3. KeysInv /\ Entries /\ Chunked /\ [Next]_vars => Entries' /\ Chunked' /\ FilesStep
    BY StepKeepsPromise
  <1>4. FilesStep => [Promise!Next]_(<<[f \in File |-> ReadFile(f)], [f \in File |-> OnDisk(f)]>>)
    BY StepIsPromised
  <1> QED BY <1>1, <1>2, <1>3, <1>4, KeysAlways, PTL DEF Spec, KeepsPromise, Promise!Spec
-----------------------------------------------------------------------------
(* Types *)

\* The parts of an entry.
PartsTyped(f, e) == DOMAIN e.parts \subseteq Parts(f) /\ \A p \in DOMAIN e.parts : e.parts[p] \in Part

\* What FileTypeOK says beyond Entries.
FilesTyped ==
    /\ rows \subseteq File /\ cached \subseteq File /\ todo \subseteq File
    /\ errors = [f \in File |-> errors[f]]
    /\ \A f \in File : /\ PartsTyped(f, disk[f]) /\ PartsTyped(f, entry[f])
                       /\ errors[f] \in 0..MaxFlushErrors /\ (f \notin cached => errors[f] = 0)

\* A place is in one of the parts of its file.
LEMMA PartOf ==
    ASSUME NEW f \in File, NEW i \in Nat
    PROVE  PartAt(f, i) \in Parts(f)
  <1>1. PartSize \in Nat \ {0} /\ Count(f) \in Nat \ {0}
    BY Sizes
  <1>2. i \div PartSize \in Nat
    BY <1>1, DivMod
  <1>3. (i \div PartSize) % Count(f) \in Nat /\ (i \div PartSize) % Count(f) < Count(f)
    BY <1>1, <1>2, DivMod
  <1>4. (i \div PartSize) % Count(f) \in 0..(Count(f) - 1)
    BY <1>1, <1>3
  <1> QED BY <1>4 DEF PartAt, Parts, Count

\* A write makes parts of bytes.
LEMMA WriteTyped ==
    ASSUME NEW f \in File, NEW e, PartsTyped(f, e), NEW offset \in Nat, NEW data \in Seq(Byte),
           NEW replace \in BOOLEAN
    PROVE  PartsTyped(f, WriteAt(f, e, offset, data, replace))
  <1> DEFINE n == Len(data)
             base == IF replace THEN <<>> ELSE e.parts
             places == Max({offset, (offset + n) - Min({n, MaxSize[f]})})..((offset + n) - 1)
             spot(p, k) == {i \in places : PartAt(f, i) = p /\ i % PartSize = k}
             old(p, k)  == IF p \in DOMAIN base THEN base[p][k] ELSE NoByte
             byte(p, k) == IF spot(p, k) = {} THEN old(p, k)
                           ELSE data[(CHOOSE i \in spot(p, k) : TRUE) - offset + 1]
             dom == DOMAIN base \union {PartAt(f, i) : i \in places}
             parts == [p \in dom |-> [k \in 0..(PartSize - 1) |-> byte(p, k)]]
             new == WriteAt(f, e, offset, data, replace)
  <1>1. n \in Nat
    OBVIOUS
  <1>2. places = Places(f, offset, n)
    BY <1>1, PlacesOf
  <1>3. new.parts = parts
    <2>1. new = [size |-> offset + n, meta |-> e.meta, parts |-> parts]
      BY DEF WriteAt
    <2> HIDE DEF parts, new
    <2> QED BY <2>1
  <1>4. DOMAIN base \subseteq Parts(f) /\ \A p \in DOMAIN base : base[p] \in Part
    BY EmptyDomain DEF PartsTyped
  <1> HIDE DEF places, base
  <1>5. dom \subseteq Parts(f)
    BY <1>2, <1>4, PartOf DEF Places
  <1>6. ASSUME NEW p \in dom, NEW k \in 0..(PartSize - 1)
        PROVE  byte(p, k) \in Byte \union {NoByte}
    <2>1. old(p, k) \in Byte \union {NoByte}
      BY <1>4 DEF Part
    <2>2. CASE spot(p, k) # {}
      <3>1. PICK i \in places : i = CHOOSE j \in spot(p, k) : TRUE
        BY <2>2
      <3>2. i - offset + 1 \in 1..n
        BY <1>1, <1>2 DEF Places
      <3>3. data[i - offset + 1] \in Byte
        BY <3>2
      <3> QED BY <2>2, <3>1, <3>3
    <2> QED BY <2>1, <2>2
  <1> HIDE DEF byte, dom
  <1>7. \A p \in dom : parts[p] \in Part
    BY <1>6 DEF Part
  <1>8. DOMAIN parts = dom
    OBVIOUS
  <1> HIDE DEF parts, new
  <1> QED BY <1>3, <1>5, <1>7, <1>8 DEF PartsTyped, new

\* So do loading, and a transaction.
LEMMA LoadTyped ==
    ASSUME NEW f \in File, Entries, FilesTyped
    PROVE  /\ IsEntry(Loaded(f)) /\ PartsTyped(f, Loaded(f))
           /\ \A wanted : PartsTyped(f, WithParts(f, Loaded(f), wanted))
  <1> DEFINE e == Loaded(f)
  <1>1. IsEntry(e) /\ PartsTyped(f, e)
    <2>1. IsEntry(e) /\ e = IF f \in cached THEN entry[f] ELSE Row(disk[f])
      BY LoadedEntry
    <2>2. Row(disk[f]).parts = <<>>
      BY RowOf DEF Entries
    <2> HIDE DEF e
    <2> QED BY <2>1, <2>2, EmptyDomain DEF FilesTyped, PartsTyped
  <1> HIDE DEF e
  <1>2. PartsTyped(f, disk[f])
    BY DEF FilesTyped
  <1>3. ASSUME NEW wanted PROVE PartsTyped(f, WithParts(f, e, wanted))
    <2> DEFINE w == WithParts(f, e, wanted)
    <2>1. /\ DOMAIN w.parts = DOMAIN e.parts \union (wanted \intersect DOMAIN disk[f].parts)
          /\ \A p \in DOMAIN w.parts :
               w.parts[p] = IF p \in DOMAIN e.parts THEN e.parts[p] ELSE disk[f].parts[p]
      BY <1>1, LoadedReads
    <2> HIDE DEF w
    <2> QED BY <1>1, <1>2, <2>1 DEF PartsTyped, w
  <1> QED BY <1>1, <1>3 DEF e

\* What a flush writes to the database is a typed file.
LEMMA StoreTyped ==
    ASSUME NEW f \in File, FilesTyped, NEW e, PartsTyped(f, e), NEW replace \in BOOLEAN
    PROVE  PartsTyped(f, Stored(f, e, replace))
  <1> DEFINE both == [p \in DOMAIN disk[f].parts \union DOMAIN e.parts |->
                         IF p \in DOMAIN e.parts THEN e.parts[p] ELSE disk[f].parts[p]]
             d == Stored(f, e, replace)
  <1>1. d.parts = IF replace THEN e.parts ELSE both
    BY DEF Stored
  <1>2. PartsTyped(f, disk[f])
    BY DEF FilesTyped
  <1> HIDE DEF d
  <1> QED BY <1>1, <1>2 DEF PartsTyped, d

\* A step that gives file f another row, another entry, or another count of
\* errors.
LEMMA TypedChange ==
    ASSUME Entries, FilesTyped, NEW f \in File,
           NEW d, PartsTyped(f, d), NEW e, PartsTyped(f, e), NEW x \in 0..MaxFlushErrors,
           disk' = [disk EXCEPT ![f] = d], entry' = [entry EXCEPT ![f] = e],
           errors' = [errors EXCEPT ![f] = x],
           rows' \subseteq File, cached' \subseteq File, todo' \subseteq File,
           f \notin cached' => x = 0, \A g \in File \ {f} : g \in cached => g \in cached'
    PROVE  FilesTyped'
  <1>1. /\ disk'[f] = d /\ entry'[f] = e /\ errors'[f] = x
        /\ \A g \in File \ {f} : disk'[g] = disk[g] /\ entry'[g] = entry[g] /\ errors'[g] = errors[g]
    BY DEF Entries, FilesTyped
  <1>2. errors' = [g \in File |-> errors'[g]]
    BY DEF FilesTyped
  <1>3. ASSUME NEW g \in File
        PROVE  /\ PartsTyped(g, disk'[g]) /\ PartsTyped(g, entry'[g])
               /\ errors'[g] \in 0..MaxFlushErrors /\ (g \notin cached' => errors'[g] = 0)
    BY <1>1 DEF FilesTyped
  <1> QED BY <1>2, <1>3, Zenon DEF FilesTyped, PartsTyped

\* What does not change, and an entry without parts.
LEMMA TypedSame ==
    ASSUME Entries, FilesTyped, NEW f \in File
    PROVE  /\ disk = [disk EXCEPT ![f] = disk[f]] /\ PartsTyped(f, disk[f])
           /\ entry = [entry EXCEPT ![f] = entry[f]] /\ PartsTyped(f, entry[f])
           /\ errors = [errors EXCEPT ![f] = errors[f]] /\ errors[f] \in 0..MaxFlushErrors
           /\ PartsTyped(f, Empty) /\ 0 \in 0..MaxFlushErrors
  <1>1. MaxFlushErrors \in Nat
    BY FileAssumption
  <1>2. PartsTyped(f, Empty)
    <2>1. Empty.parts = <<>>
      BY DEF Empty
    <2> QED BY <2>1, EmptyDomain DEF PartsTyped
  <1> QED BY <1>1, <1>2, Unchanged DEF FilesTyped

\* An append.
LEMMA AppendTyped ==
    ASSUME Entries, FilesTyped, NEW f \in File, NEW data \in Seq(Byte), AppendData(f, data)
    PROVE  FilesTyped'
  <1> DEFINE e == Loaded(f)
             w == WithParts(f, e, Incomplete(f, e.size, Len(data)))
             new == WriteAt(f, w, e.size, data, FALSE)
  <1>1. e.size \in Nat /\ PartsTyped(f, w)
    BY LoadTyped DEF IsEntry
  <1>2. PartsTyped(f, new)
    <2> HIDE DEF e, w
    <2>1. \A r \in BOOLEAN : PartsTyped(f, WriteAt(f, w, e.size, data, r))
      BY <1>1, WriteTyped
    <2> QED BY <2>1, Zenon
  <1>3. entry' = [entry EXCEPT ![f] = new] /\ cached' = cached \union {f} /\ UNCHANGED <<rows, disk, errors, todo>>
    BY Zenon DEF AppendData
  <1> HIDE DEF e, w, new
  <1>4. rows' \subseteq File /\ cached' \subseteq File /\ todo' \subseteq File
    BY <1>3 DEF FilesTyped
  <1> QED BY <1>2, <1>3, <1>4, TypedSame, TypedChange

\* An append that fails, and metadata that is written.
LEMMA ReadTyped ==
    ASSUME Entries, FilesTyped, NEW f \in File, cached' = cached \union {f},
           entry' = [entry EXCEPT ![f] = Loaded(f)] \/ \E m : entry' = [entry EXCEPT ![f] = [Loaded(f) EXCEPT !.meta = m]],
           UNCHANGED <<rows, disk, errors, todo>>
    PROVE  FilesTyped'
  <1>1. PICK e : PartsTyped(f, e) /\ entry' = [entry EXCEPT ![f] = e]
    <2> DEFINE l == Loaded(f)
    <2>1. IsEntry(l) /\ PartsTyped(f, l)
      BY LoadTyped
    <2> HIDE DEF l
    <2>2. \A m : [l EXCEPT !.meta = m].parts = l.parts
      BY <2>1 DEF IsEntry
    <2>3. \A m : PartsTyped(f, [l EXCEPT !.meta = m])
      <3> TAKE m
      <3> DEFINE x == [l EXCEPT !.meta = m]
      <3>1. x.parts = l.parts
        BY <2>2
      <3> HIDE DEF x
      <3>2. PartsTyped(f, x)
        BY <2>1, <3>1 DEF PartsTyped
      <3> QED BY <3>2 DEF x
    <2> QED BY <2>1, <2>3, Zenon DEF l
  <1>2. rows' \subseteq File /\ cached' \subseteq File /\ todo' \subseteq File
    BY DEF FilesTyped
  <1> QED BY <1>1, <1>2, TypedSame, TypedChange

\* An entry is cleared.
LEMMA ClearedTyped ==
    ASSUME Entries, FilesTyped, NEW f \in File, NEW d, PartsTyped(f, d),
           disk' = [disk EXCEPT ![f] = d], Cleared(f), rows' \subseteq File, todo' \subseteq File
    PROVE  FilesTyped'
  <1>1. /\ cached' = cached \ {f} /\ entry' = [entry EXCEPT ![f] = Empty]
        /\ errors' = [errors EXCEPT ![f] = 0] /\ cached' \subseteq File
    BY DEF Cleared, FilesTyped
  <1> QED BY <1>1, TypedSame, TypedChange

\* A flush that fails, before its commit or after it.
LEMMA FailsTyped ==
    ASSUME Entries, FilesTyped, NEW f \in File, NEW e, PartsTyped(f, e), NEW replace \in BOOLEAN,
           (FlushFails(f) /\ UNCHANGED disk) \/ CommitsLate(f, e, replace),
           entry' = [entry EXCEPT ![f] = e], cached' = cached \union {f},
           UNCHANGED rows, todo' \subseteq File
    PROVE  FilesTyped'
  <1>1. PICK d : PartsTyped(f, d) /\ disk' = [disk EXCEPT ![f] = d]
    BY TypedSame, StoreTyped DEF CommitsLate
  <1>2. PICK x \in 0..MaxFlushErrors : errors' = [errors EXCEPT ![f] = x]
    <2>1. MaxFlushErrors \in Nat
      BY FileAssumption
    <2>2. UNCHANGED errors \/ (errors[f] + 1 \in 0..MaxFlushErrors
                               /\ errors' = [errors EXCEPT ![f] = errors[f] + 1])
      BY <2>1, TypedSame DEF FlushFails, CommitsLate
    <2> QED BY <2>2, TypedSame
  <1>3. rows' \subseteq File /\ cached' \subseteq File
    BY DEF FilesTyped
  <1> QED BY <1>1, <1>2, <1>3, TypedChange

\* The file is replaced.
LEMMA WriteFileTyped ==
    ASSUME Entries, FilesTyped, NEW f \in File, NEW data \in Seq(Byte), WriteFile(f, data)
    PROVE  FilesTyped'
  <1> DEFINE e == WriteAt(f, Loaded(f), 0, data, TRUE)
  <1>1. PartsTyped(f, e)
    <2>1. \A r \in BOOLEAN : PartsTyped(f, WriteAt(f, Loaded(f), 0, data, r))
      BY LoadTyped, WriteTyped
    <2> QED BY <2>1, Zenon
  <1>2. /\ \/ Cleared(f) /\ disk' = [disk EXCEPT ![f] = Stored(f, e, TRUE)]
           \/ /\ (FlushFails(f) /\ UNCHANGED disk) \/ CommitsLate(f, e, TRUE)
              /\ cached' = cached \union {f} /\ entry' = [entry EXCEPT ![f] = e]
        /\ UNCHANGED <<rows, todo>>
    BY Zenon DEF WriteFile
  <1> HIDE DEF e
  <1>3. rows' \subseteq File /\ todo' \subseteq File
    BY <1>2 DEF FilesTyped
  <1>4. PartsTyped(f, Stored(f, e, TRUE))
    <2>1. \A r \in BOOLEAN : PartsTyped(f, Stored(f, e, r))
      BY <1>1, StoreTyped
    <2> QED BY <2>1, Zenon
  <1>5. ASSUME Cleared(f), disk' = [disk EXCEPT ![f] = Stored(f, e, TRUE)] PROVE FilesTyped'
    <2> DEFINE d == Stored(f, e, TRUE)
    <2>1. PartsTyped(f, d) /\ disk' = [disk EXCEPT ![f] = d]
      BY <1>4, <1>5, Zenon
    <2> HIDE DEF d
    <2> QED BY <1>3, <1>5, <2>1, ClearedTyped
  <1>6. ASSUME (FlushFails(f) /\ UNCHANGED disk) \/ CommitsLate(f, e, TRUE),
               cached' = cached \union {f}, entry' = [entry EXCEPT ![f] = e]
        PROVE  FilesTyped'
    <2>1. \A r \in BOOLEAN : (FlushFails(f) /\ UNCHANGED disk) \/ CommitsLate(f, e, r) => FilesTyped'
      BY <1>1, <1>2, <1>3, <1>6, FailsTyped
    <2> QED BY <1>6, <2>1, Zenon
  <1> QED BY <1>2, <1>5, <1>6, Zenon

\* The flusher: an entry is written, or the flush stops.
LEMMA FlushTyped ==
    ASSUME Entries, FilesTyped, NEW f \in File, FlushEntry(f) \/ FlushStops(f) \/ FlushGivesUp(f)
    PROVE  FilesTyped'
  <1>1. rows' \subseteq File /\ todo' \subseteq File
    BY DEF FlushEntry, FlushStops, FlushGivesUp, FilesTyped
  <1>2. ASSUME FlushEntry(f) PROVE FilesTyped'
    <2> DEFINE d == Stored(f, entry[f], FALSE)
    <2>1. PartsTyped(f, d)
      <3>1. \A r \in BOOLEAN : PartsTyped(f, Stored(f, entry[f], r))
        BY TypedSame, StoreTyped
      <3> QED BY <3>1, Zenon
    <2>2. Cleared(f) /\ (disk' = [disk EXCEPT ![f] = d] \/ UNCHANGED disk)
      BY <1>2, Zenon DEF FlushEntry
    <2> HIDE DEF d
    <2> QED BY <1>1, <2>1, <2>2, TypedSame, ClearedTyped
  <1>3. ASSUME FlushStops(f) PROVE FilesTyped'
    <2>1. /\ (FlushFails(f) /\ UNCHANGED disk) \/ CommitsLate(f, entry[f], FALSE)
          /\ f \in cached /\ UNCHANGED <<rows, cached, entry>>
      BY <1>3, Zenon DEF FlushStops
    <2>2. entry' = [entry EXCEPT ![f] = entry[f]] /\ cached' = cached \union {f} /\ UNCHANGED rows
      <3>1. f \in cached /\ cached' = cached /\ entry' = entry /\ rows' = rows
        BY <2>1, Zenon
      <3> QED BY <3>1, TypedSame
    <2>3. PartsTyped(f, entry[f])
      BY TypedSame
    <2>4. \A r \in BOOLEAN : (FlushFails(f) /\ UNCHANGED disk) \/ CommitsLate(f, entry[f], r) => FilesTyped'
      BY <1>1, <2>2, <2>3, FailsTyped
    <2> QED BY <2>1, <2>4, Zenon
  <1>4. ASSUME FlushGivesUp(f) PROVE FilesTyped'
    <2>1. Cleared(f) /\ UNCHANGED disk
      BY <1>4 DEF FlushGivesUp, GivesUp
    <2> QED BY <1>1, <2>1, TypedSame, ClearedTyped
  <1> QED BY <1>2, <1>3, <1>4

\* Every step keeps the types of the files.
LEMMA FileStepTyped ==
    ASSUME Entries, FilesTyped, pend \in Seq(Byte), pend' \in Seq(Byte), [Next]_vars
    PROVE  FilesTyped'
  <1>0. Job \in File /\ Block \in File
    BY TerminalAssumption
  <1>1. ASSUME UNCHANGED fvars PROVE FilesTyped'
    BY <1>1 DEF fvars, FilesTyped, PartsTyped
  <1>2. CASE AppendJobFile
    BY <1>0, <1>2, AppendTyped DEF AppendJobFile
  <1>3. CASE AppendBlockFile
    BY <1>0, <1>1, <1>3, AppendTyped DEF AppendBlockFile
  <1>4. CASE ClearBlock
    <2>1. CASE WriteFile(Block, <<>>)
      <3>1. <<>> \in Seq(Byte)
        OBVIOUS
      <3> QED BY <1>0, <2>1, <3>1, WriteFileTyped
    <2>2. CASE WriteGivesUp(Block)
      <3>1. Cleared(Block) /\ UNCHANGED <<rows, disk, todo>>
        BY <2>2 DEF WriteGivesUp, GivesUp
      <3>2. rows' \subseteq File /\ todo' \subseteq File
        BY <3>1 DEF FilesTyped
      <3> QED BY <1>0, <3>1, <3>2, TypedSame, ClearedTyped
    <2> QED BY <1>4, <2>1, <2>2 DEF ClearBlock
  <1>5. CASE CloseBlock
    <2>1. /\ Cleared(Block) /\ disk' = [disk EXCEPT ![Block] = Empty]
          /\ rows' \subseteq File /\ todo' \subseteq File
      BY <1>5 DEF CloseBlock, DeleteFile, FilesTyped
    <2> QED BY <1>0, <2>1, TypedSame, ClearedTyped
  <1>6. CASE Flushes
    <2>1. CASE FlushBegins
      BY <2>1 DEF FlushBegins, FilesTyped, PartsTyped
    <2> QED BY <1>6, <2>1, FlushTyped DEF Flushes
  <1>7. CASE FlushGoesWrong
    BY <1>7, FlushTyped DEF FlushGoesWrong
  <1>8. CASE ServerRestarts
    <2>1. /\ cached' = {} /\ entry' = [f \in File |-> Empty] /\ errors' = [f \in File |-> 0]
          /\ todo' = {} /\ rows' = rows /\ disk' = disk
      BY <1>8 DEF ServerRestarts, Restart
    <2>2. /\ errors' = [f \in File |-> errors'[f]]
          /\ \A f \in File : /\ PartsTyped(f, disk'[f]) /\ PartsTyped(f, entry'[f])
                             /\ errors'[f] \in 0..MaxFlushErrors /\ errors'[f] = 0
      <3>1. /\ errors' = [f \in File |-> errors'[f]]
            /\ \A f \in File : disk'[f] = disk[f] /\ entry'[f] = Empty /\ errors'[f] = 0
        BY <2>1
      <3> QED BY <3>1, TypedSame
    <2>3. rows' \subseteq File /\ cached' \subseteq File /\ todo' \subseteq File
      BY <2>1 DEF FilesTyped
    <2> QED BY <2>2, <2>3, Zenon DEF FilesTyped, PartsTyped
  <1>9. CASE SendInput \/ Delivers \/ QueueTime \/ HandleInput \/ UNCHANGED vars
    <2>1. UNCHANGED fvars
      BY <1>9 DEF SendInput, Delivers, JobInput, QueueTime, HandleInput, vars
    <2> QED BY <1>1, <2>1
  <1>10. ASSUME NEW f \in File, NEW data, AppendFails(f, data) PROVE FilesTyped'
    <2>1. CASE UNCHANGED fvars
      BY <1>1, <2>1
    <2>2. CASE /\ cached' = cached \union {f} /\ entry' = [entry EXCEPT ![f] = Loaded(f)]
               /\ UNCHANGED <<rows, disk, errors, todo>>
      BY <2>2, ReadTyped
    <2> QED BY <1>10, <2>1, <2>2, Zenon DEF AppendFails
  <1>11. CASE AppendJobFileFails \/ AppendBlockFileFails
    <2>1. \E f \in File : UNCHANGED fvars \/ \E data : AppendFails(f, data)
      BY <1>0, <1>11, Zenon DEF AppendJobFileFails, AppendBlockFileFails
    <2> QED BY <1>1, <1>10, <2>1
  <1>12. CASE StreamReturns \/ StreamIsLost
    <2>1. UNCHANGED fvars \/ \E m : WriteMeta(Job, m)
      BY <1>12, Zenon DEF StreamReturns, StreamIsLost, RestartStreaming
    <2>2. ASSUME NEW m, WriteMeta(Job, m) PROVE FilesTyped'
      BY <1>0, <2>2, ReadTyped DEF WriteMeta
    <2> QED BY <1>1, <2>1, <2>2
  <1> QED BY <1>2, <1>3, <1>4, <1>5, <1>6, <1>7, <1>8, <1>9, <1>11, <1>12 DEF Next, Appends, Losses

\* The types of the files follow.
LEMMA FilesTypeOK ==
    ASSUME Entries, FilesTyped
    PROVE  FileTypeOK
  BY DEF Entries, IsEntry, FilesTyped, PartsTyped, FileTypeOK

-----------------------------------------------------------------------------
(* What the files of a durable terminal show. *)

\* A byte of the output after some keys.
OutByte(keys, at) == <<keys[at \div EchoLen + 1], (at % EchoLen) + 1>>
Echo(keys, from, to) == [i \in 1..(to - from) |-> OutByte(keys, from + i - 1)]

\* Contents are the last of the bytes that there ever were.
Shaped(f, c) ==
    /\ c.size \in Nat /\ c.meta \in Nat /\ c.data = [i \in 1..Len(c.data) |-> c.data[i]]
    /\ Len(c.data) = (IF c.size < MaxSize[f] THEN c.size ELSE MaxSize[f])

\* Contents have followed the output, from mark m to a place.
Shows(c, keys, m, to) ==
    /\ m.at <= to /\ c.size - m.size = to - m.at
    /\ \A i \in (c.size - Len(c.data) + 1)..c.size :
         i > m.size => Promise!At(c, i) = OutByte(keys, m.at + (i - m.size) - 1)

\* The place of the loop, and what it has in hand.
PosInv ==
    /\ pos \in Nat /\ pos <= OutputLen
    /\ Len(pend) \in Nat /\ Len(pend) <= pos /\ pend = Echo(shell, pos - Len(pend), pos)
    /\ pend # <<>> => Len(pend) # 0

\* The marks.
MarkInv ==
    /\ mark = [f \in File |-> mark[f]]
    /\ \A f \in File : /\ mark[f] = [at |-> mark[f].at, size |-> mark[f].size]
                       /\ mark[f].at \in Nat /\ mark[f].at <= OutputLen /\ mark[f].size \in Nat

\* The job's file follows the output; so does what is saved of it, if it was saved
\* after the mark.  Neither says that it has come further than the loop.
JobInv ==
    /\ OnDisk(Job).size <= ReadFile(Job).size
    /\ OnDisk(Job).size + OnDisk(Job).meta <= Asked /\ Asked <= pos
    /\ Shows(ReadFile(Job), shell, mark[Job], pos)
    /\ mark[Job].size <= OnDisk(Job).size =>
           Shows(OnDisk(Job), shell, mark[Job], mark[Job].at + (OnDisk(Job).size - mark[Job].size))

\* The block's file follows it up to what the loop has in hand.
BlockInv == Block \in rows => Shows(ReadFile(Block), shell, mark[Block], pos - Len(pend))

OutInv == PosInv /\ MarkInv /\ JobInv /\ BlockInv

-----------------------------------------------------------------------------
(* Output and contents *)

\* The sizes that the output is counted in.
LEMMA Echoes ==
    ASSUME KeysInv
    PROVE  /\ Len(shell) \in Nat /\ EchoLen \in Nat \ {0} /\ OutputLen \in Nat
           /\ Job \in File /\ Block \in File /\ Job # Block
  BY TerminalAssumption DEF KeysInv, Once, OutputLen

\* The output between two places, byte by byte.
LEMMA EchoOf ==
    ASSUME NEW keys, NEW from \in Nat, NEW to \in Nat, from <= to
    PROVE  /\ Len(Echo(keys, from, to)) = to - from
           /\ Echo(keys, from, to) = [i \in 1..(to - from) |-> Echo(keys, from, to)[i]]
           /\ \A i \in 1..(to - from) : Echo(keys, from, to)[i] = OutByte(keys, from + i - 1)
  <1> DEFINE n == to - from
             s == Echo(keys, from, to)
  <1>1. n \in Nat
    OBVIOUS
  <1>2. s = [i \in 1..n |-> OutByte(keys, from + i - 1)]
    BY Zenon DEF Echo
  <1> HIDE DEF s, n
  <1>3. s = [i \in 1..n |-> s[i]] /\ \A i \in 1..n : s[i] = OutByte(keys, from + i - 1)
    BY <1>2
  <1>4. s \in Seq({s[i] : i \in 1..n}) /\ DOMAIN s = 1..n
    BY <1>1, <1>3
  <1>5. Len(s) = n
    BY <1>1, <1>4
  <1> QED BY <1>3, <1>5 DEF s, n

\* The output is the echo of the keys that reached the shell.
LEMMA OutputIs ==
    \A from, to : Output(from, to) = Echo(shell, from, to)
  BY Zenon DEF Output, Echo, OutByte

\* The contents of a file, whatever its row and its entry, have a shape ...
LEMMA AnyShape ==
    ASSUME NEW f \in File, NEW d, NEW e, IsEntry(e), NEW c, c = ContentsIn(f, d, e)
    PROVE  Shaped(f, c)
  <1> DEFINE n == IF e.size < MaxSize[f] THEN e.size ELSE MaxSize[f]
  <1>1. e.size \in Nat /\ e.meta \in Nat
    BY DEF IsEntry
  <1>2. /\ c.size = e.size /\ c.meta = e.meta
        /\ Len(c.data) = n /\ c.data = [i \in 1..n |-> c.data[i]]
    BY <1>1, ContentsOf
  <1> HIDE DEF n
  <1>3. c.data = [i \in 1..Len(c.data) |-> c.data[i]]
    BY <1>2
  <1> QED BY <1>1, <1>2, <1>3 DEF Shaped, n

\* ... now ...
LEMMA Shapes ==
    ASSUME Entries, NEW f \in File
    PROVE  Shaped(f, ReadFile(f)) /\ Shaped(f, OnDisk(f))
  <1> DEFINE e == IF f \in cached THEN entry[f] ELSE Row(disk[f])
  <1>1. IsEntry(e) /\ IsEntry(Row(disk[f]))
    BY RowOf DEF Entries
  <1> HIDE DEF e
  <1>2. ReadFile(f) = ContentsIn(f, disk[f], e) /\ OnDisk(f) = ContentsIn(f, disk[f], Row(disk[f]))
    BY Reads DEF e
  <1> QED BY <1>1, <1>2, AnyShape

\* ... and after a step.
LEMMA ShapesNext ==
    ASSUME Entries', NEW f \in File
    PROVE  Shaped(f, ReadFile(f)') /\ Shaped(f, OnDisk(f)')
  <1> DEFINE e == IF f \in cached' THEN entry'[f] ELSE Row(disk'[f])
  <1>1. IsEntry(e) /\ IsEntry(Row(disk'[f]))
    <2>1. IsEntry(disk'[f]) /\ IsEntry(entry'[f])
      BY DEF Entries
    <2> QED BY <2>1, RowOf
  <1> HIDE DEF e
  <1>2. ReadFile(f)' = ContentsIn(f, disk'[f], e) /\ OnDisk(f)' = ContentsIn(f, disk'[f], Row(disk'[f]))
    BY Reads DEF e
  <1> QED BY <1>1, <1>2, AnyShape

\* The end of a sequence.
LEMMA TailOf ==
    ASSUME NEW V, NEW s \in Seq(V), NEW t \in Seq(V), Len(t) <= Len(s),
           \A i \in 1..Len(t) : s[(Len(s) - Len(t)) + i] = t[i]
    PROVE  SubSeq(s, Len(s) - Len(t) + 1, Len(s)) = t
  <1> DEFINE k == Len(s) - Len(t)
             u == SubSeq(s, k + 1, Len(s))
  <1>1. k \in Nat /\ Len(t) \in Nat /\ Len(s) \in Nat /\ k + Len(t) = Len(s)
    OBVIOUS
  <1>2. u \in Seq(V) /\ Len(u) = Len(t) /\ \A i \in 1..Len(t) : u[i] = s[k + i]
    <2> HIDE DEF k
    <2>1. u = [i \in 1..((Len(s) - (k + 1)) + 1) |-> s[(i + (k + 1)) - 1]]
      BY <1>1
    <2>2. (Len(s) - (k + 1)) + 1 = Len(t)
      BY <1>1
    <2>3. \A i \in 1..Len(t) : (i + (k + 1)) - 1 = k + i /\ s[k + i] \in V
      BY <1>1
    <2>4. u = [i \in 1..Len(t) |-> s[k + i]]
      BY <2>1, <2>2, <2>3
    <2> HIDE DEF u
    <2> QED BY <1>1, <2>3, <2>4
  <1> HIDE DEF u
  <1>3. \A i \in 1..Len(t) : u[i] = t[i]
    BY <1>2
  <1>4. u = t
    BY <1>2, <1>3
  <1> QED BY <1>4 DEF u

\* Contents that show the output end with it.
LEMMA ShownIsLast ==
    ASSUME NEW f \in File, NEW c, Shaped(f, c), NEW m, m.at \in Nat, m.size \in Nat,
           NEW to \in Nat, Shows(c, shell, m, to)
    PROVE  LET tail == Last(MaxSize[f], m.at, to) IN
           SubSeq(c.data, Len(c.data) - Len(tail) + 1, Len(c.data)) = tail
  <1> DEFINE M == MaxSize[f]
             at == m.at
             size == m.size
             total == c.size
             len == Len(c.data)
             tail == Last(MaxSize[f], m.at, to)
             start == IF to < at + M THEN at ELSE to - M
             k == total - len
             n == to - start
  <1>1. M \in Nat \ {0} /\ at \in Nat /\ size \in Nat
    BY Sizes
  <1>2. total \in Nat /\ len = (IF total < M THEN total ELSE M) /\ at <= to /\ total - size = to - at
    BY Zenon DEF Shaped, Shows
  <1>7. \A i \in (k + 1)..total : i > size => c.data[i - k] = OutByte(shell, at + (i - size) - 1)
    BY Zenon DEF Shows, Promise!At
  <1>4. tail = Echo(shell, start, to)
    BY OutputIs, Zenon DEF Last
  <1> HIDE DEF M, at, size, total, len, tail
  <1>3. start \in Nat /\ start <= to /\ n \in Nat /\ n <= to - at
    BY <1>1, <1>2
  <1>6. n <= len /\ k \in Nat /\ k + len = total /\ len \in Nat
    BY <1>1, <1>2
  <1>8. start = to - n
    BY <1>1, <1>2
  <1> HIDE DEF start
  <1>5. /\ Len(tail) = n /\ tail = [i \in 1..n |-> tail[i]]
        /\ \A i \in 1..n : tail[i] = OutByte(shell, start + i - 1)
    <2>1. start \in Nat /\ start <= to
      BY <1>3
    <2>2. /\ Len(Echo(shell, start, to)) = to - start
          /\ Echo(shell, start, to) = [i \in 1..(to - start) |-> Echo(shell, start, to)[i]]
          /\ \A i \in 1..(to - start) : Echo(shell, start, to)[i] = OutByte(shell, start + i - 1)
      BY <2>1, EchoOf
    <2> QED BY <1>4, <2>2, Zenon
  <1> HIDE DEF k, n
  <1>9. ASSUME NEW i \in 1..n PROVE c.data[(len - n) + i] = tail[i]
    <2> DEFINE j == (total - n) + i
    <2>1. j \in (k + 1)..total /\ j > size
      BY <1>1, <1>2, <1>3, <1>6
    <2>2. j - k = (len - n) + i /\ at + (j - size) - 1 = start + i - 1
      BY <1>1, <1>2, <1>3, <1>6, <1>8
    <2> HIDE DEF j
    <2>3. c.data[j - k] = OutByte(shell, at + (j - size) - 1)
      BY <1>7, <2>1
    <2> QED BY <1>5, <2>2, <2>3
  <1> DEFINE V == {c.data[i] : i \in 1..Len(c.data)} \union {tail[i] : i \in 1..n}
  <1>10. c.data \in Seq(V)
    <2> DEFINE s == c.data
               l == Len(c.data)
    <2>1. s = [i \in 1..l |-> s[i]] /\ l \in Nat /\ \A i \in 1..l : s[i] \in V
      BY <1>6 DEF Shaped, len
    <2> HIDE DEF V, s, l
    <2>2. s \in Seq(V)
      BY <2>1
    <2> QED BY <2>2 DEF s
  <1>11. tail \in Seq(V)
    <2>1. \A i \in 1..n : tail[i] \in V
      OBVIOUS
    <2> HIDE DEF V
    <2> QED BY <1>3, <1>5, <2>1
  <1> HIDE DEF V
  <1>12. SubSeq(c.data, Len(c.data) - Len(tail) + 1, Len(c.data)) = tail
    BY <1>5, <1>6, <1>9, <1>10, <1>11, TailOf DEF len
  <1> QED BY <1>12, Zenon DEF tail

\* Output that is appended continues what is shown.
LEMMA AppendShows ==
    ASSUME NEW f \in File, NEW c, Shaped(f, c), NEW new, Shaped(f, new),
           NEW m, m.at \in Nat, m.size \in Nat,
           NEW to \in Nat, NEW last \in Nat, to < last, Shows(c, shell, m, to),
           Appended(f, c, Echo(shell, to, last), new)
    PROVE  Shows(new, shell, m, last)
  <1> DEFINE data == Echo(shell, to, last)
             M == MaxSize[f]
             at == m.at
             size == m.size
             n == c.size
             kept == Len(c.data)
             n2 == new.size
             kept2 == Len(new.data)
  <1>1. /\ Len(data) = last - to
        /\ \A i \in 1..(last - to) : data[i] = OutByte(shell, to + i - 1)
    <2>1. to <= last
      OBVIOUS
    <2> QED BY <2>1, EchoOf
  <1>2. /\ n \in Nat /\ at <= to /\ n - size = to - at
        /\ kept = (IF n < M THEN n ELSE M)
        /\ \A i \in (n - kept + 1)..n :
             i > size => Promise!At(c, i) = OutByte(shell, at + (i - size) - 1)
    BY Zenon DEF Shows, Shaped
  <1>3. /\ n2 = n + Len(data)
        /\ kept2 = (IF n2 < M THEN n2 ELSE M)
        /\ \A i \in (n2 - kept2 + 1)..n2 :
             Promise!At(new, i) = IF i <= n THEN Promise!At(c, i) ELSE data[i - n]
    BY Zenon DEF Appended
  <1>4. M \in Nat \ {0} /\ at \in Nat /\ size \in Nat
    BY Sizes
  <1> HIDE DEF data, M, at, size, n, kept, n2, kept2
  <1>6. n2 - size = last - at /\ at <= last
    BY <1>1, <1>2, <1>3, <1>4
  <1>5. ASSUME NEW i \in (n2 - kept2 + 1)..n2, i > size
        PROVE  Promise!At(new, i) = OutByte(shell, at + (i - size) - 1)
    <2>1. i \in Int /\ i <= n2
      BY <1>1, <1>2, <1>3, <1>4
    <2>2. CASE i <= n
      <3>1. i \in (n - kept + 1)..n
        BY <1>1, <1>2, <1>3, <1>4, <2>1, <2>2
      <3> QED BY <1>2, <1>3, <1>5, <2>2, <3>1
    <2>3. CASE ~(i <= n)
      <3>1. i - n \in 1..(last - to) /\ to + (i - n) - 1 = at + (i - size) - 1
        BY <1>1, <1>2, <1>3, <1>4, <2>1, <2>3
      <3> QED BY <1>1, <1>3, <2>3, <3>1
    <2> QED BY <2>2, <2>3
  <1> QED BY <1>5, <1>6, Zenon DEF Shows, at, size, n2, kept2

\* Nothing is said of what was there at the mark.
LEMMA NothingShown ==
    ASSUME NEW f \in File, NEW c, Shaped(f, c), NEW at \in Nat
    PROVE  Shows(c, shell, [at |-> at, size |-> c.size], at)
  <1> DEFINE m == [at |-> at, size |-> c.size]
  <1>1. m.at = at /\ m.size = c.size
    OBVIOUS
  <1> HIDE DEF m
  <1>2. c.size \in Nat /\ Len(c.data) \in Nat
    BY Sizes DEF Shaped
  <1>3. Shows(c, shell, m, at)
    BY <1>1, <1>2 DEF Shows
  <1> QED BY <1>3 DEF m

\* A key that the program reads adds to its output, and changes none of it.
LEMMA EchoStays ==
    ASSUME KeysInv, NEW k, shell' = Append(shell, k), NEW at \in Nat, at < OutputLen
    PROVE  OutByte(shell', at) = OutByte(shell, at)
  <1> DEFINE i == at \div EchoLen
             n == Len(shell)
  <1>1. EchoLen \in Nat \ {0} /\ n \in Nat /\ at < n * EchoLen /\ shell \in Seq(Key)
    BY Echoes DEF OutputLen, KeysInv, Once
  <1>2. i \in Nat /\ at % EchoLen \in Nat /\ at = (i * EchoLen) + (at % EchoLen)
    BY <1>1, DivMod
  <1>3. i < n
    <2> HIDE DEF i, n
    <2>1. ASSUME n <= i PROVE FALSE
      <3>1. n * EchoLen <= i * EchoLen
        BY <1>1, <1>2, <2>1, MulMono
      <3>2. n * EchoLen \in Nat /\ i * EchoLen \in Nat
        BY <1>1, <1>2
      <3> QED BY <1>1, <1>2, <3>1, <3>2
    <2> QED BY <1>1, <1>2, <2>1
  <1> HIDE DEF i
  <1>4. i + 1 \in 1..n
    BY <1>1, <1>2, <1>3
  <1>5. shell'[i + 1] = shell[i + 1]
    BY <1>1, <1>4
  <1> QED BY <1>5 DEF OutByte, i

\* A key that reaches the shell adds to the output and changes nothing before it.
LEMMA OutputLonger ==
    ASSUME KeysInv, NEW k, shell' = Append(shell, k)
    PROVE  /\ OutputLen' \in Nat /\ OutputLen <= OutputLen'
           /\ \A f \in File : \A c, m : \A to \in Nat :
                Shaped(f, c) /\ m.at \in Nat /\ m.size \in Nat /\ to <= OutputLen /\ Shows(c, shell, m, to) =>
                    Shows(c, shell', m, to)
           /\ \A from, to \in Nat : to <= OutputLen => Echo(shell', from, to) = Echo(shell, from, to)
  <1>1. shell \in Seq(Key) /\ EchoLen \in Nat \ {0} /\ Len(shell) \in Nat /\ OutputLen \in Nat
    BY Echoes DEF KeysInv, Once
  <1>2. Len(shell') = Len(shell) + 1
    BY <1>1
  <1>3. OutputLen' = OutputLen + EchoLen
    BY <1>1, <1>2 DEF OutputLen
  <1>4. ASSUME NEW f \in File, NEW c, NEW m, NEW to \in Nat, Shaped(f, c), m.at \in Nat, m.size \in Nat,
               to <= OutputLen, Shows(c, shell, m, to)
        PROVE  Shows(c, shell', m, to)
    <2>1. ASSUME NEW i \in (c.size - Len(c.data) + 1)..c.size, i > m.size
          PROVE  OutByte(shell', m.at + (i - m.size) - 1) = OutByte(shell, m.at + (i - m.size) - 1)
      <3> DEFINE at == m.at
                 size == m.size
                 n == c.size
                 kept == Len(c.data)
                 place == at + (i - size) - 1
      <3>1. n \in Nat /\ kept \in Nat /\ n - size = to - at
        BY <1>4, Sizes DEF Shaped, Shows
      <3>2. at \in Nat /\ size \in Nat /\ to <= OutputLen /\ i \in (n - kept + 1)..n /\ i > size
        BY <1>4, <2>1
      <3> HIDE DEF at, size, n, kept
      <3>3. place \in Nat /\ place < OutputLen
        BY <1>1, <3>1, <3>2
      <3> HIDE DEF place
      <3>4. OutByte(shell', place) = OutByte(shell, place)
        BY <3>3, EchoStays
      <3> QED BY <3>4 DEF place, at, size
    <2> QED BY <1>4, <2>1 DEF Shows
  <1>5. ASSUME NEW from \in Nat, NEW to \in Nat, to <= OutputLen
        PROVE  Echo(shell', from, to) = Echo(shell, from, to)
    <2>1. ASSUME NEW i \in 1..(to - from)
          PROVE  OutByte(shell', from + i - 1) = OutByte(shell, from + i - 1)
      <3>1. from + i - 1 \in Nat /\ from + i - 1 < OutputLen
        BY <1>1, <1>5
      <3> QED BY <3>1, EchoStays
    <2> QED BY <2>1 DEF Echo
  <1> QED BY <1>1, <1>3, <1>4, <1>5

-----------------------------------------------------------------------------
(* Marks *)

\* What Loses makes of a mark.
LEMMA LosesAt ==
    ASSUME NEW lost, Loses(lost), NEW f \in File
    PROVE  /\ f \in lost => mark'[f] = [at |-> End(f)', size |-> ReadFile(f)'.size]
           /\ f \notin lost => mark'[f] = mark[f]
  BY DEF Loses

\* The place of a file.
LEMMA Ends ==
    /\ End(Job) = pos /\ End(Job)' = pos'
    /\ End(Block) = pos - Len(pend) /\ End(Block)' = pos' - Len(pend')
  BY TerminalAssumption DEF End

\* A mark is kept, or is set to where the file is.
LEMMA MarksKept ==
    ASSUME MarkInv, Entries', PosInv', OutputLen \in Nat, OutputLen' \in Nat, OutputLen <= OutputLen',
           UNCHANGED mark \/ \E lost : Loses(lost)
    PROVE  MarkInv'
  <1>1. \A f \in File : End(f)' \in Nat /\ End(f)' <= OutputLen'
    BY DEF End, PosInv
  <1>2. \A f \in File : ReadFile(f)'.size \in Nat
    BY ShapesNext DEF Shaped
  <1>3. mark' = [f \in File |-> mark'[f]]
    <2>1. CASE UNCHANGED mark
      BY <2>1 DEF MarkInv
    <2>2. ASSUME NEW lost, Loses(lost) PROVE mark' = [f \in File |-> mark'[f]]
      BY <2>2 DEF Loses
    <2> QED BY <2>1, <2>2
  <1>4. ASSUME NEW f \in File
        PROVE  /\ mark'[f] = [at |-> mark'[f].at, size |-> mark'[f].size]
               /\ mark'[f].at \in Nat /\ mark'[f].at <= OutputLen' /\ mark'[f].size \in Nat
    <2>1. CASE mark'[f] = mark[f]
      <3>1. /\ mark[f] = [at |-> mark[f].at, size |-> mark[f].size]
            /\ mark[f].at \in Nat /\ mark[f].at <= OutputLen /\ mark[f].size \in Nat
        BY DEF MarkInv
      <3> QED BY <2>1, <3>1
    <2>2. CASE mark'[f] = [at |-> End(f)', size |-> ReadFile(f)'.size]
      <3> DEFINE a == End(f)'
                 n == ReadFile(f)'.size
      <3>1. mark'[f] = [at |-> a, size |-> n] /\ a \in Nat /\ a <= OutputLen' /\ n \in Nat
        BY <1>1, <1>2, <2>2
      <3> HIDE DEF a, n
      <3> QED BY <3>1
    <2>3. mark'[f] = mark[f] \/ mark'[f] = [at |-> End(f)', size |-> ReadFile(f)'.size]
      BY LosesAt
    <2> QED BY <2>1, <2>2, <2>3
  <1> QED BY <1>3, <1>4 DEF MarkInv

\* The job's file stays as it is, or is saved.
LEMMA JobKept ==
    ASSUME Entries, MarkInv, JobInv, PosInv, UNCHANGED <<shell, pos>>, mark'[Job] = mark[Job],
           Stays(Job) \/ Saves(Job)
    PROVE  JobInv'
  <1> DEFINE m == mark[Job]
             c == ReadFile(Job)
             d == OnDisk(Job)
  <1>1. /\ c.size \in Nat /\ d.size \in Nat /\ c.meta \in Nat /\ d.meta \in Nat
        /\ m.at \in Nat /\ m.size \in Nat /\ pos \in Nat
    BY TerminalAssumption, Shapes DEF Shaped, MarkInv, PosInv
  <1>2. /\ d.size <= c.size /\ d.size + d.meta <= c.size + c.meta /\ c.size + c.meta <= pos
        /\ Shows(c, shell, m, pos)
        /\ m.size <= d.size => Shows(d, shell, m, m.at + (d.size - m.size))
    BY DEF JobInv, Asked
  <1>3. m.at + (c.size - m.size) = pos
    BY <1>1, <1>2 DEF Shows
  <1>4. ReadFile(Job)' = c /\ (OnDisk(Job)' = d \/ OnDisk(Job)' = c)
    BY DEF Stays, Saves
  <1>5. Asked' = c.size + c.meta
    BY <1>4 DEF Asked
  <1> HIDE DEF c, d, m
  <1>6. mark'[Job] = m
    BY DEF m
  <1>7. CASE OnDisk(Job)' = d
    BY <1>2, <1>4, <1>5, <1>6, <1>7 DEF JobInv
  <1>8. CASE OnDisk(Job)' = c
    BY <1>1, <1>2, <1>3, <1>4, <1>5, <1>6, <1>8 DEF JobInv
  <1> QED BY <1>4, <1>7, <1>8

\* The job's file is out of step from here on.
LEMMA JobLost ==
    ASSUME Entries', PosInv', mark'[Job] = [at |-> pos', size |-> ReadFile(Job)'.size],
           OnDisk(Job)'.size <= ReadFile(Job)'.size,
           OnDisk(Job)'.size + OnDisk(Job)'.meta <= Asked', Asked' <= pos'
    PROVE  JobInv'
  <1>1. Job \in File
    BY TerminalAssumption
  <1> DEFINE m == [at |-> pos', size |-> ReadFile(Job)'.size]
             c == ReadFile(Job)'
             d == OnDisk(Job)'
  <1>2. Shaped(Job, c) /\ Shaped(Job, d) /\ pos' \in Nat
    BY <1>1, ShapesNext DEF PosInv
  <1>3. \A keys : Shows(c, keys, m, pos')
    BY <1>1, <1>2 DEF Shows, Shaped
  <1>4. m.at = pos' /\ m.size = c.size /\ c.size \in Nat /\ d.size \in Nat
    BY <1>2 DEF Shaped
  <1>5. ASSUME m.size <= d.size
        PROVE  \A keys : Shows(d, keys, m, m.at + (d.size - m.size))
    <2>1. d.size = m.size /\ m.at + (d.size - m.size) = m.at
      BY <1>2, <1>4, <1>5
    <2>2. Len(d.data) \in Nat
      BY <1>1, <1>2, Sizes DEF Shaped
    <2> HIDE DEF d, m
    <2> QED BY <1>2, <1>4, <2>1, <2>2 DEF Shows
  <1> HIDE DEF m
  <1>6. mark'[Job] = m
    BY DEF m
  <1> QED BY <1>3, <1>5, <1>6 DEF JobInv

\* The block's file stays as it is, and nothing comes to it or is lost to it; or
\* it is out of step from here on.
LEMMA BlockKept ==
    ASSUME BlockInv, shell' = shell, mark'[Block] = mark[Block], pos' - Len(pend') = pos - Len(pend),
           Block \in rows' => Block \in rows /\ ReadFile(Block)' = ReadFile(Block)
    PROVE  BlockInv'
  BY DEF BlockInv

LEMMA BlockLost ==
    ASSUME Entries', PosInv', mark'[Block] = [at |-> End(Block)', size |-> ReadFile(Block)'.size]
    PROVE  BlockInv'
  <1>1. Block \in File /\ End(Block)' = pos' - Len(pend') /\ End(Block)' \in Nat
    BY TerminalAssumption, Ends DEF PosInv
  <1> DEFINE c == ReadFile(Block)'
             a == End(Block)'
  <1>2. c.size \in Nat /\ Len(c.data) \in Nat
    BY <1>1, ShapesNext, Sizes DEF Shaped
  <1>3. \A keys : Shows(c, keys, [at |-> a, size |-> c.size], a)
    <2> DEFINE m == [at |-> a, size |-> c.size]
    <2>1. m.at = a /\ m.size = c.size /\ a \in Nat
      BY <1>1
    <2> HIDE DEF m, c, a
    <2>2. \A keys : Shows(c, keys, m, a)
      BY <1>2, <2>1 DEF Shows
    <2> QED BY <2>2 DEF m
  <1> QED BY <1>1, <1>3 DEF BlockInv

\* Nothing is between a place and itself.
LEMMA NoEcho ==
    ASSUME NEW keys, NEW at \in Nat
    PROVE  Len(<<>>) = 0 /\ Echo(keys, at - Len(<<>>), at) = <<>>
  <1>1. Len(<<>>) = 0 /\ at - 0 = at /\ at - at = 0 /\ 1..0 = {}
    OBVIOUS
  <1>2. Echo(keys, at - 0, at) = [i \in 1..0 |-> OutByte(keys, at + i - 1)]
    BY <1>1 DEF Echo
  <1>3. [i \in 1..0 |-> OutByte(keys, at + i - 1)] = <<>>
    OBVIOUS
  <1> QED BY <1>1, <1>2, <1>3

\* PosInv of the state after a step.
LEMMA PosNext ==
    ASSUME pos' \in Nat, pos' <= OutputLen', Len(pend') \in Nat, Len(pend') <= pos',
           pend' = Echo(shell', pos' - Len(pend'), pos'), pend' # <<>> => Len(pend') # 0
    PROVE  PosInv'
  BY DEF PosInv

\* What the loop has in hand stays the same, or is put down.
LEMMA PosKept ==
    ASSUME PosInv, UNCHANGED <<shell, pos>>, pend' = pend \/ pend' = <<>>
    PROVE  PosInv' /\ OutputLen' = OutputLen
  <1>1. OutputLen' = OutputLen
    BY Zenon DEF OutputLen
  <1>2. CASE pend' = pend
    BY <1>1, <1>2 DEF PosInv
  <1>3. CASE pend' = <<>>
    <2>1. Len(pend') = 0 /\ pos' \in Nat /\ pos' - 0 = pos' /\ pos' <= OutputLen'
      BY <1>1, <1>3 DEF PosInv
    <2>2. Echo(shell', pos' - Len(pend'), pos') = <<>>
      BY <1>3, <2>1, NoEcho
    <2>3. Len(pend') \in Nat /\ Len(pend') <= pos'
      BY <2>1
    <2> QED BY <1>1, <1>3, <2>1, <2>2, <2>3, PosNext
  <1> QED BY <1>1, <1>2, <1>3

\* The loop comes to another place with nothing in hand.
LEMMA PosMoves ==
    ASSUME shell' = shell, pos' \in Nat, pos' <= OutputLen, pend' = <<>>
    PROVE  PosInv' /\ OutputLen' = OutputLen
  <1>1. OutputLen' = OutputLen
    BY Zenon DEF OutputLen
  <1>2. Len(pend') = 0 /\ Echo(shell', pos' - Len(pend'), pos') = <<>>
    BY NoEcho
  <1>3. pos' <= OutputLen' /\ 0 <= pos'
    BY <1>1
  <1> QED BY <1>1, <1>2, <1>3, PosNext

-----------------------------------------------------------------------------
(* The steps *)

\* What every step of the output keeps.
Known == KeysInv /\ Entries /\ Chunked /\ OutInv

\* Neither the place nor a mark moves; the job's file stays as it is, or is saved.
LEMMA QuietShows ==
    ASSUME Known, Entries', UNCHANGED <<shell, pos, pend, mark>>, Stays(Job) \/ Saves(Job),
           Block \in rows' => Block \in rows /\ ReadFile(Block)' = ReadFile(Block)
    PROVE  OutInv'
  <1>1. PosInv' /\ OutputLen' = OutputLen
    BY PosKept DEF Known, OutInv
  <1>2. OutputLen \in Nat
    BY Echoes DEF Known
  <1>3. MarkInv'
    BY <1>1, <1>2, MarksKept DEF Known, OutInv
  <1>4. JobInv'
    BY JobKept DEF Known, OutInv
  <1>5. BlockInv'
    BY BlockKept DEF Known, OutInv
  <1> QED BY <1>1, <1>3, <1>4, <1>5 DEF OutInv

\* The block's file is out of step; the job's stays as it is, and so does the loop.
LEMMA BlockLosesShows ==
    ASSUME Known, Entries', UNCHANGED <<shell, pos>>, pend' = pend \/ pend' = <<>>,
           Loses({Block}), Stays(Job)
    PROVE  OutInv'
  <1>1. PosInv' /\ OutputLen' = OutputLen
    BY PosKept DEF Known, OutInv
  <1>2. OutputLen \in Nat /\ Job \in File /\ Block \in File /\ Job # Block
    BY Echoes DEF Known
  <1>3. MarkInv'
    BY <1>1, <1>2, MarksKept DEF Known, OutInv
  <1>4. mark'[Job] = mark[Job] /\ mark'[Block] = [at |-> End(Block)', size |-> ReadFile(Block)'.size]
    <2>1. Block \in {Block} /\ Job \notin {Block}
      BY <1>2
    <2> QED BY <1>2, <2>1, LosesAt
  <1>5. JobInv'
    BY <1>4, JobKept DEF Known, OutInv
  <1>6. BlockInv'
    BY <1>1, <1>4, BlockLost
  <1> QED BY <1>1, <1>3, <1>5, <1>6 DEF OutInv

\* Both are out of step, wherever the loop is now.
LEMMA BothLoseShows ==
    ASSUME Known, Entries', PosInv', OutputLen' = OutputLen, Loses(File),
           OnDisk(Job)'.size <= ReadFile(Job)'.size,
           OnDisk(Job)'.size + OnDisk(Job)'.meta <= Asked', Asked' <= pos'
    PROVE  OutInv'
  <1>1. OutputLen \in Nat /\ Job \in File /\ Block \in File
    BY Echoes DEF Known
  <1>2. MarkInv'
    BY <1>1, MarksKept DEF Known, OutInv
  <1>3. /\ mark'[Job] = [at |-> pos', size |-> ReadFile(Job)'.size]
        /\ mark'[Block] = [at |-> End(Block)', size |-> ReadFile(Block)'.size]
    BY <1>1, LosesAt, Ends
  <1>4. JobInv'
    BY <1>3, JobLost
  <1>5. BlockInv'
    BY <1>3, BlockLost
  <1> QED BY <1>2, <1>4, <1>5 DEF OutInv

\* The sizes of the job's file, and what it lacks.
LEMMA JobSizes ==
    ASSUME Known
    PROVE  /\ ReadFile(Job).size \in Nat /\ ReadFile(Job).meta \in Nat
           /\ OnDisk(Job).size \in Nat /\ OnDisk(Job).meta \in Nat
           /\ OnDisk(Job).size <= ReadFile(Job).size
           /\ Asked = ReadFile(Job).size + ReadFile(Job).meta
           /\ OnDisk(Job).size + OnDisk(Job).meta <= Asked /\ Asked <= pos
           /\ pos \in Nat /\ OutputLen \in Nat /\ pos <= OutputLen
           /\ Job \in File /\ Block \in File /\ Job # Block
           /\ mark[Job].at \in Nat /\ mark[Job].size \in Nat
           /\ ReadFile(Job).size - mark[Job].size = pos - mark[Job].at /\ mark[Job].at <= pos
  <1>1. Job \in File /\ Block \in File /\ Job # Block /\ OutputLen \in Nat
    BY Echoes DEF Known
  <1>2. /\ ReadFile(Job).size \in Nat /\ ReadFile(Job).meta \in Nat
        /\ OnDisk(Job).size \in Nat /\ OnDisk(Job).meta \in Nat
    BY <1>1, AskedNat DEF Known
  <1> QED BY <1>1, <1>2 DEF Known, OutInv, PosInv, MarkInv, JobInv, Shows, Asked

\* The program reads a key.
LEMMA HandleInputShows ==
    ASSUME Known, HandleInput
    PROVE  OutInv'
  <1> DEFINE k == Head(outCh)
             end == pos - Len(pend)
             m == mark[Job]
             s == OnDisk(Job).size
  <1>1. shell' = Append(shell, k) /\ UNCHANGED <<fvars, pos, pend, mark>>
    BY DEF HandleInput, streamVars
  <1> HIDE DEF k
  <1>2. /\ OutputLen' \in Nat /\ OutputLen <= OutputLen'
        /\ \A f \in File : \A c, mk : \A to \in Nat :
             Shaped(f, c) /\ mk.at \in Nat /\ mk.size \in Nat /\ to <= OutputLen /\ Shows(c, shell, mk, to) =>
                 Shows(c, shell', mk, to)
        /\ \A from, to \in Nat : to <= OutputLen => Echo(shell', from, to) = Echo(shell, from, to)
    BY <1>1, OutputLonger DEF Known
  <1>3. /\ ReadFile(Job)' = ReadFile(Job) /\ OnDisk(Job)' = OnDisk(Job)
        /\ ReadFile(Block)' = ReadFile(Block) /\ rows' = rows
    BY <1>1, TerminalAssumption, FileStays DEF fvars, Stays
  <1>4. /\ pos \in Nat /\ pos <= OutputLen /\ end \in Nat /\ end <= OutputLen /\ OutputLen \in Nat
        /\ Len(pend) \in Nat /\ Len(pend) <= pos /\ pend = Echo(shell, end, pos)
        /\ (pend # <<>> => Len(pend) # 0)
    BY JobSizes DEF Known, OutInv, PosInv
  <1>5. PosInv'
    <2>1. pend' = Echo(shell', pos' - Len(pend'), pos')
      BY <1>1, <1>2, <1>4
    <2> QED BY <1>1, <1>2, <1>4, <2>1 DEF PosInv
  <1>6. MarkInv'
    <2>1. Entries'
      BY <1>1 DEF Known, Entries, fvars
    <2> QED BY <1>1, <1>2, <1>4, <1>5, <2>1, MarksKept DEF Known, OutInv
  <1>7. JobInv'
    <2>1. /\ Shaped(Job, ReadFile(Job)) /\ Shaped(Job, OnDisk(Job)) /\ Job \in File
          /\ m.at \in Nat /\ m.size \in Nat /\ s \in Nat /\ ReadFile(Job).size \in Nat
          /\ s <= ReadFile(Job).size /\ ReadFile(Job).size - m.size = pos - m.at
      BY JobSizes, Shapes DEF Known
    <2>2. Shows(ReadFile(Job), shell', m, pos)
      BY <1>2, <1>4, <2>1 DEF Known, OutInv, JobInv
    <2>3. m.size <= s => Shows(OnDisk(Job), shell', m, m.at + (s - m.size))
      <3> SUFFICES ASSUME m.size <= s PROVE Shows(OnDisk(Job), shell', m, m.at + (s - m.size))
        OBVIOUS
      <3>1. Shows(OnDisk(Job), shell, m, m.at + (s - m.size))
        BY DEF Known, OutInv, JobInv
      <3> DEFINE at == m.at
                 size == m.size
                 n == ReadFile(Job).size
                 to == m.at + (s - m.size)
      <3>0. /\ size <= s /\ at \in Nat /\ size \in Nat /\ s \in Nat /\ n \in Nat
            /\ s <= n /\ n - size = pos - at /\ to = at + (s - size)
        BY <2>1
      <3> HIDE DEF at, size, n, to, m, s
      <3>2. to \in Nat /\ to <= OutputLen
        BY <1>4, <3>0
      <3>3. Shows(OnDisk(Job), shell, m, to)
        BY <3>1 DEF to
      <3>4. Shows(OnDisk(Job), shell', m, to)
        BY <1>2, <2>1, <3>2, <3>3
      <3> QED BY <3>4 DEF to
    <2>4. mark'[Job] = m /\ Asked' = Asked
      BY <1>1, <1>3 DEF Asked
    <2>5. s + OnDisk(Job).meta <= Asked /\ Asked <= pos
      BY JobSizes
    <2> QED BY <1>1, <1>3, <2>1, <2>2, <2>3, <2>4, <2>5 DEF JobInv
  <1>8. BlockInv'
    <2> SUFFICES ASSUME Block \in rows PROVE Shows(ReadFile(Block), shell', mark[Block], end)
      BY <1>1, <1>3 DEF BlockInv
    <2>1. Shaped(Block, ReadFile(Block)) /\ Block \in File
      BY JobSizes, Shapes DEF Known
    <2>2. mark[Block].at \in Nat /\ mark[Block].size \in Nat
      BY <2>1 DEF Known, OutInv, MarkInv
    <2>3. Shows(ReadFile(Block), shell, mark[Block], end)
      BY DEF Known, OutInv, BlockInv
    <2> HIDE DEF end
    <2> QED BY <1>2, <1>4, <2>1, <2>2, <2>3
  <1> QED BY <1>5, <1>6, <1>7, <1>8 DEF OutInv

\* The output loop reads a chunk, and appends it to the job's file.
LEMMA AppendJobFileShows ==
    ASSUME Known, Entries', AppendJobFile
    PROVE  OutInv'
  <1>1. /\ ReadStream /\ pend = <<>> /\ Len(pend) = 0 /\ pend' = Output(pos, pos')
        /\ pend' = Echo(shell, pos, pos')
        /\ AppendData(Job, pend') /\ UNCHANGED <<shell, mark>>
    BY OutputIs DEF AppendJobFile, ReadStream, inputVars
  <1>2. /\ pos' \in Nat /\ Len(pend') \in Nat \ {0} /\ pos' = pos + Len(pend')
        /\ pos < pos' /\ pos' <= OutputLen
    BY <1>1, ChunkRead DEF Known
  <1>3. OutputLen' = OutputLen
    BY <1>1, Zenon DEF OutputLen
  <1>4. PosInv'
    <2>1. pos' - Len(pend') = pos /\ Len(pend') <= pos' /\ Len(pend') \in Nat /\ Len(pend') # 0
      BY <1>2, JobSizes
    <2>2. pend' = Echo(shell', pos' - Len(pend'), pos')
      BY <1>1, <2>1
    <2> QED BY <1>2, <1>3, <2>1, <2>2, PosNext
  <1>5. MarkInv'
    BY <1>1, <1>3, <1>4, JobSizes, MarksKept DEF Known, OutInv
  <1>6. /\ \A g \in File \ {Job} : Stays(g)
        /\ OnDisk(Job)' = OnDisk(Job) /\ Appended(Job, ReadFile(Job), pend', ReadFile(Job)')
    BY <1>1, <1>2, JobSizes, AppendStep DEF Known
  <1>7. ReadFile(Block)' = ReadFile(Block) /\ rows' = rows
    BY <1>1, <1>6, JobSizes DEF Stays, AppendData
  <1>8. BlockInv'
    <2>1. pos' - Len(pend') = pos - Len(pend)
      BY <1>1, <1>2, JobSizes
    <2> QED BY <1>1, <1>7, <2>1, BlockKept DEF Known, OutInv
  <1>9. JobInv'
    <2> DEFINE c == ReadFile(Job)
               c2 == ReadFile(Job)'
               m == mark[Job]
    <2>1. /\ Shaped(Job, c) /\ Shaped(Job, c2) /\ Job \in File
          /\ m.at \in Nat /\ m.size \in Nat /\ pos \in Nat /\ Shows(c, shell, m, pos)
      BY JobSizes, Shapes, ShapesNext DEF Known, OutInv, JobInv
    <2> HIDE DEF c, c2, m
    <2>2. Appended(Job, c, Echo(shell, pos, pos'), c2)
      BY <1>1, <1>6 DEF c, c2
    <2>3. Shows(c2, shell, m, pos')
      BY <1>2, <2>1, <2>2, AppendShows
    <2>4. c2.size = c.size + Len(pend') /\ c2.meta = c.meta
      BY <1>6 DEF Appended, c, c2
    <2>5. Asked' = Asked + Len(pend')
      BY <1>2, <2>4, JobSizes DEF Asked, c, c2
    <2>6. Asked' <= pos' /\ OnDisk(Job)'.size <= c2.size /\ OnDisk(Job)'.size + OnDisk(Job)'.meta <= Asked'
      <3>1. OnDisk(Job)' = OnDisk(Job) /\ c2.size = c.size + Len(pend')
        BY <1>6, <2>4
      <3>2. /\ c.size \in Nat /\ OnDisk(Job).size \in Nat /\ OnDisk(Job).meta \in Nat /\ Asked \in Nat
            /\ OnDisk(Job).size <= c.size /\ OnDisk(Job).size + OnDisk(Job).meta <= Asked /\ Asked <= pos
            /\ pos \in Nat
        BY JobSizes, AskedNat DEF c, Known
      <3> QED BY <1>2, <2>5, <3>1, <3>2
    <2>7. m.size <= OnDisk(Job).size =>
            Shows(OnDisk(Job), shell, m, m.at + (OnDisk(Job).size - m.size))
      BY DEF Known, OutInv, JobInv, m
    <2>8. mark'[Job] = m
      BY <1>1 DEF m
    <2> QED BY <1>1, <1>6, <2>3, <2>6, <2>7, <2>8 DEF JobInv, c2
  <1> QED BY <1>4, <1>5, <1>8, <1>9 DEF OutInv

\* It appends the chunk to the block's file.
LEMMA AppendBlockFileShows ==
    ASSUME Known, Entries', AppendBlockFile
    PROVE  OutInv'
  <1>1. pend # <<>> /\ pend' = <<>> /\ UNCHANGED <<shell, pos, mark>>
    BY DEF AppendBlockFile, inputVars
  <1>2. Len(pend) \in Nat \ {0} /\ Len(pend) <= pos /\ pend = Echo(shell, pos - Len(pend), pos)
    BY <1>1 DEF Known, OutInv, PosInv
  <1>3. PosInv' /\ OutputLen' = OutputLen
    BY <1>1, PosKept DEF Known, OutInv
  <1>4. MarkInv'
    BY <1>1, <1>3, JobSizes, MarksKept DEF Known, OutInv
  <1>5. CASE CanAppend(Block)
    <2>1. AppendData(Block, pend)
      BY <1>5 DEF AppendBlockFile
    <2>2. /\ \A g \in File \ {Block} : Stays(g)
          /\ Appended(Block, ReadFile(Block), pend, ReadFile(Block)')
      BY <1>2, <2>1, JobSizes, AppendStep DEF Known
    <2>3. JobInv'
      BY <1>1, <2>2, JobSizes, JobKept DEF Known, OutInv
    <2>4. BlockInv'
      <3> SUFFICES ASSUME Block \in rows' PROVE Shows(ReadFile(Block)', shell, mark[Block], pos)
        <4>1. Len(pend') = 0 /\ pos' - 0 = pos
          BY <1>1, JobSizes
        <4> QED BY <1>1, <4>1 DEF BlockInv
      <3> DEFINE c == ReadFile(Block)
                 c2 == ReadFile(Block)'
                 m == mark[Block]
                 end == pos - Len(pend)
      <3>1. /\ Shaped(Block, c) /\ Shaped(Block, c2) /\ Block \in File
            /\ m.at \in Nat /\ m.size \in Nat /\ end \in Nat /\ end < pos /\ pos \in Nat
        BY <1>2, JobSizes, Shapes, ShapesNext DEF Known, OutInv, MarkInv
      <3>2. Block \in rows
        BY <2>1 DEF AppendData
      <3>3. Shows(c, shell, m, end)
        BY <3>2 DEF Known, OutInv, BlockInv
      <3> HIDE DEF c, c2, m, end
      <3>4. Appended(Block, c, Echo(shell, end, pos), c2)
        BY <1>2, <2>2 DEF c, c2, end
      <3>5. Shows(c2, shell, m, pos)
        BY <3>1, <3>3, <3>4, AppendShows
      <3> QED BY <3>5 DEF c2, m
    <2> QED BY <1>3, <1>4, <2>3, <2>4 DEF OutInv
  <1>6. CASE ~CanAppend(Block)
    <2>1. UNCHANGED fvars
      BY <1>6 DEF AppendBlockFile
    <2>2. Block \notin rows' /\ Stays(Job)
      BY <1>6, <2>1, JobSizes, FileStays DEF CanAppend, fvars
    <2>3. JobInv'
      BY <1>1, <2>2, JobKept DEF Known, OutInv
    <2> QED BY <1>3, <1>4, <2>2, <2>3 DEF OutInv, BlockInv
  <1> QED BY <1>5, <1>6

\* An append to the job's file fails: what was read is in neither file.
LEMMA AppendJobFileFailsShows ==
    ASSUME Known, Entries', AppendJobFileFails
    PROVE  OutInv'
  <1>1. ReadStream /\ pend' = <<>> /\ AppendFails(Job, Output(pos, pos')) /\ shell' = shell /\ Loses(File)
    BY Zenon DEF AppendJobFileFails, inputVars
  <1>2. pos' \in Nat /\ pos < pos' /\ pos' <= OutputLen
    BY <1>1, ChunkRead DEF Known
  <1>3. PosInv' /\ OutputLen' = OutputLen
    BY <1>1, <1>2, PosMoves
  <1>4. ReadFile(Job)' = ReadFile(Job) /\ OnDisk(Job)' = OnDisk(Job)
    BY <1>1, JobSizes, AppendFailsStep DEF Known, Stays
  <1>5. Asked' = Asked
    BY <1>4 DEF Asked
  <1>6. /\ OnDisk(Job)'.size <= ReadFile(Job)'.size
        /\ OnDisk(Job)'.size + OnDisk(Job)'.meta <= Asked' /\ Asked' <= pos'
    BY <1>2, <1>4, <1>5, JobSizes
  <1> QED BY <1>1, <1>3, <1>6, BothLoseShows

\* An append to the block's file fails, or is not tried.
LEMMA AppendBlockFileFailsShows ==
    ASSUME Known, Entries', AppendBlockFileFails
    PROVE  OutInv'
  <1>1. /\ pend' = <<>> /\ UNCHANGED <<shell, pos>> /\ Loses({Block})
        /\ UNCHANGED fvars \/ AppendFails(Block, pend)
    BY Zenon DEF AppendBlockFileFails, inputVars
  <1>2. Stays(Job)
    <2>1. CASE UNCHANGED fvars
      BY <2>1, JobSizes, FileStays DEF fvars
    <2>2. CASE AppendFails(Block, pend)
      BY <2>2, JobSizes, AppendFailsStep DEF Known
    <2> QED BY <1>1, <2>1, <2>2
  <1> QED BY <1>1, <1>2, BlockLosesShows

\* The user clears the block.
LEMMA ClearBlockShows ==
    ASSUME Known, Entries', ClearBlock
    PROVE  OutInv'
  <1>1. /\ UNCHANGED <<shell, pos, pend>> /\ Loses({Block})
        /\ WriteFile(Block, <<>>) \/ WriteGivesUp(Block)
    BY Zenon DEF ClearBlock, inputVars
  <1>2. Stays(Job)
    <2>1. CASE WriteFile(Block, <<>>)
      BY <2>1, JobSizes, WriteFileStep DEF Known
    <2>2. CASE WriteGivesUp(Block)
      BY <2>2, JobSizes, GivesUpStep DEF Known, WriteGivesUp
    <2> QED BY <1>1, <2>1, <2>2
  <1> QED BY <1>1, <1>2, BlockLosesShows

\* An entry that cannot be saved is given up: its file is what was saved.
LEMMA FlushGivesUpShows ==
    ASSUME Known, Entries', UNCHANGED <<shell, pos, pend>>, NEW f \in File, FlushGivesUp(f), Loses({f})
    PROVE  OutInv'
  <1>1. (\A g \in File \ {f} : Stays(g)) /\ Returns(f) /\ rows' = rows
    BY GivesUpStep DEF Known, FlushGivesUp
  <1>2. CASE f = Block
    BY <1>1, <1>2, JobSizes, BlockLosesShows
  <1>3. CASE f = Job
    <2>1. PosInv' /\ OutputLen' = OutputLen
      BY PosKept DEF Known, OutInv
    <2>2. MarkInv'
      BY <2>1, JobSizes, MarksKept DEF Known, OutInv
    <2>3. /\ mark'[Job] = [at |-> pos', size |-> ReadFile(Job)'.size] /\ mark'[Block] = mark[Block]
      <3>1. Job \in {f} /\ Block \notin {f} /\ Job \in File /\ Block \in File
        BY <1>3, JobSizes
      <3> QED BY <3>1, LosesAt, Ends
    <2>4. ReadFile(Job)' = OnDisk(Job) /\ OnDisk(Job)' = OnDisk(Job)
      BY <1>1, <1>3 DEF Returns
    <2>5. Asked' = OnDisk(Job).size + OnDisk(Job).meta
      BY <2>4 DEF Asked
    <2>6. JobInv'
      BY <2>1, <2>3, <2>4, <2>5, JobSizes, JobLost
    <2>7. ReadFile(Block)' = ReadFile(Block)
      BY <1>1, <1>3, JobSizes DEF Stays
    <2>8. BlockInv'
      BY <1>1, <2>3, <2>7, BlockKept DEF Known, OutInv
    <2> QED BY <2>1, <2>2, <2>6, <2>8 DEF OutInv
  <1> QED BY <1>2, <1>3, TerminalAssumption

\* A stream that is restarted goes on from the place that was asked for, which is
\* where the loop was when the file is in step, or from one after it.
LEMMA RestartStreamingShows ==
    ASSUME Known, Entries', RestartStreaming
    PROVE  OutInv'
  <1>1. /\ Chunked' /\ pend = <<>> /\ pend' = <<>> /\ shell' = shell
        /\ Asked \in Nat /\ pos' \in Nat /\ Asked <= pos' /\ pos' <= OutputLen
        /\ mark' = [f \in File |->
               IF f \in (IF pos' = Asked /\ InStep(ReadFile(Job)) THEN {} ELSE File)
               THEN [at |-> End(f)', size |-> ReadFile(f).size'] ELSE mark[f]]
        /\ \/ UNCHANGED fvars
           \/ /\ pos' # Asked /\ Notes(Job) /\ \A g \in File \ {Job} : Stays(g)
              /\ ReadFile(Job)'.meta = pos' - ReadFile(Job).size
              /\ ReadFile(Job)'.size = ReadFile(Job).size
    BY RestartStreamingStep DEF Known
  <1>2. CASE pos' = Asked /\ InStep(ReadFile(Job))
    <2>1. UNCHANGED fvars
      BY <1>1, <1>2
    <2>2. pos' = pos
      BY <1>2, JobSizes DEF InStep
    <2>3. mark' = mark
      <3>1. mark' = [f \in File |-> mark[f]]
        BY <1>1, <1>2
      <3> QED BY <3>1 DEF Known, OutInv, MarkInv
    <2>4. Stays(Job) /\ ReadFile(Block)' = ReadFile(Block) /\ rows' = rows
      BY <2>1, JobSizes, FileStays DEF fvars, Stays
    <2> QED BY <1>1, <2>2, <2>3, <2>4, QuietShows
  <1>3. CASE ~(pos' = Asked /\ InStep(ReadFile(Job)))
    <2>1. Loses(File)
      BY <1>1, <1>3, Zenon DEF Loses
    <2>2. PosInv' /\ OutputLen' = OutputLen
      BY <1>1, PosMoves
    <2>3. CASE UNCHANGED fvars
      <3>1. ReadFile(Job)' = ReadFile(Job) /\ OnDisk(Job)' = OnDisk(Job)
        BY <2>3, JobSizes, FileStays DEF fvars, Stays
      <3>2. Asked' = Asked
        BY <3>1 DEF Asked
      <3>3. /\ OnDisk(Job)'.size <= ReadFile(Job)'.size
            /\ OnDisk(Job)'.size + OnDisk(Job)'.meta <= Asked' /\ Asked' <= pos'
        BY <1>1, <3>1, <3>2, JobSizes
      <3> QED BY <2>1, <2>2, <3>3, BothLoseShows
    <2>4. CASE /\ Notes(Job) /\ ReadFile(Job)'.meta = pos' - ReadFile(Job).size
               /\ ReadFile(Job)'.size = ReadFile(Job).size
      <3>1. OnDisk(Job)' = OnDisk(Job)
        BY <2>4 DEF Notes
      <3>2. Asked' = pos'
        <4>1. Asked' = ReadFile(Job)'.size + ReadFile(Job)'.meta
          BY DEF Asked
        <4> QED BY <1>1, <2>4, <4>1, JobSizes
      <3>3. /\ OnDisk(Job)'.size <= ReadFile(Job)'.size
            /\ OnDisk(Job)'.size + OnDisk(Job)'.meta <= Asked' /\ Asked' <= pos'
        BY <1>1, <2>4, <3>1, <3>2, JobSizes
      <3> QED BY <2>1, <2>2, <3>3, BothLoseShows
    <2> QED BY <1>1, <2>3, <2>4
  <1> QED BY <1>2, <1>3

\* After a restart the output goes on where the job's file, as it was saved, ends.
LEMMA RestartShows ==
    ASSUME Known, Entries', ServerRestarts
    PROVE  OutInv'
  <1>1. /\ shell' = shell /\ pos' = OnDisk(Job).size + OnDisk(Job).meta /\ pend' = <<>> /\ Restart
        /\ Loses(IF InStep(OnDisk(Job)) THEN {Block} ELSE File)
    BY Zenon DEF ServerRestarts
  <1>2. pos' \in Nat /\ pos' <= OutputLen
    BY <1>1, JobSizes
  <1>3. PosInv' /\ OutputLen' = OutputLen
    BY <1>1, <1>2, PosMoves
  <1>4. ReadFile(Job)' = OnDisk(Job) /\ OnDisk(Job)' = OnDisk(Job)
    BY <1>1, JobSizes, RestartStep DEF Known, Returns
  <1>5. Asked' = pos'
    BY <1>1, <1>4 DEF Asked
  <1>6. CASE ~InStep(OnDisk(Job))
    <2>1. Loses(File)
      BY <1>1, <1>6
    <2>2. /\ OnDisk(Job)'.size <= ReadFile(Job)'.size
          /\ OnDisk(Job)'.size + OnDisk(Job)'.meta <= Asked' /\ Asked' <= pos'
      BY <1>1, <1>2, <1>4, <1>5, JobSizes
    <2> QED BY <1>3, <2>1, <2>2, BothLoseShows
  <1>7. CASE InStep(OnDisk(Job))
    <2> DEFINE d == OnDisk(Job)
               m == mark[Job]
    <2>1. Loses({Block})
      BY <1>1, <1>7
    <2>2. mark'[Job] = m /\ mark'[Block] = [at |-> End(Block)', size |-> ReadFile(Block)'.size]
      <3>1. Block \in {Block} /\ Job \notin {Block} /\ Job \in File /\ Block \in File
        BY JobSizes
      <3> QED BY <2>1, <3>1, LosesAt
    <2>3. MarkInv'
      BY <1>3, <2>1, JobSizes, MarksKept DEF Known, OutInv
    <2>4. BlockInv'
      BY <1>3, <2>2, BlockLost
    <2>5. m.size <= d.size /\ m.at + (d.size - m.size) = pos'
      BY <1>1, <1>7, JobSizes DEF InStep
    <2>6. Shows(d, shell, m, pos')
      BY <2>5 DEF Known, OutInv, JobInv
    <2> HIDE DEF m
    <2>7. JobInv'
      BY <1>1, <1>2, <1>4, <1>5, <2>2, <2>5, <2>6, JobSizes DEF JobInv
    <2> QED BY <1>3, <2>3, <2>4, <2>7 DEF OutInv
  <1> QED BY <1>6, <1>7

\* Every step of the terminal keeps what the files show.
LEMMA StepShows ==
    ASSUME Known, Entries', [Next]_vars
    PROVE  OutInv'
  <1>1. Job \in File /\ Block \in File /\ Job # Block
    BY JobSizes
  <1>2. ASSUME UNCHANGED <<shell, pos, pend, mark, rows>>, \A f \in File : Stays(f) \/ Saves(f)
        PROVE  OutInv'
    <2>1. (Stays(Job) \/ Saves(Job)) /\ ReadFile(Block)' = ReadFile(Block)
      BY <1>1, <1>2 DEF Stays, Saves
    <2> QED BY <1>2, <2>1, QuietShows
  <1>3. CASE SendInput \/ Delivers \/ QueueTime \/ UNCHANGED vars
    <2>1. UNCHANGED <<shell, pos, pend, mark, fvars>>
      BY <1>3 DEF SendInput, Delivers, JobInput, QueueTime, vars, tvars, streamVars
    <2>2. (\A f \in File : Stays(f)) /\ UNCHANGED rows
      BY <2>1, FileStays DEF fvars
    <2> QED BY <1>2, <2>1, <2>2
  <1>4. CASE CloseBlock
    <2>1. UNCHANGED <<shell, pos, pend, mark>> /\ Block \notin rows' /\ DeleteFile(Block)
      BY <1>4 DEF CloseBlock, DeleteFile, inputVars, streamVars
    <2>2. Stays(Job)
      BY <1>1, <2>1, DeleteFileStep DEF Known
    <2> QED BY <2>1, <2>2, QuietShows
  <1>5. CASE Flushes
    <2>1. UNCHANGED <<shell, pos, pend, mark, rows>>
      BY <1>5 DEF Flushes, tvars, streamVars, FlushBegins, FlushEntry
    <2>2. CASE FlushBegins
      BY <1>2, <2>1, <2>2, FileStays DEF FlushBegins
    <2>3. ASSUME NEW f \in File, FlushEntry(f) PROVE OutInv'
      <3>1. \A g \in File : Stays(g) \/ Saves(g)
        BY <2>3, FlushEntryStep DEF Known
      <3> QED BY <1>2, <2>1, <3>1
    <2> QED BY <1>5, <2>2, <2>3 DEF Flushes
  <1>6. CASE FlushGoesWrong
    <2>1. UNCHANGED <<shell, pos, pend>>
      BY <1>6 DEF FlushGoesWrong, inputVars
    <2>2. ASSUME NEW f \in File, FlushStops(f), mark' = mark PROVE OutInv'
      <3>1. (\A g \in File : Stays(g) \/ Saves(g)) /\ rows' = rows
        BY <2>2, FlushStopsStep DEF Known, FlushStops
      <3> QED BY <1>2, <2>1, <2>2, <3>1
    <2> QED BY <1>6, <2>1, <2>2, FlushGivesUpShows DEF FlushGoesWrong
  <1>7. CASE StreamReturns \/ StreamIsLost
    BY <1>7, RestartStreamingShows DEF StreamReturns, StreamIsLost
  <1> QED BY <1>3, <1>4, <1>5, <1>6, <1>7, HandleInputShows, AppendJobFileShows, AppendBlockFileShows,
          AppendJobFileFailsShows, AppendBlockFileFailsShows, ClearBlockShows, RestartShows
          DEF Next, Appends, Losses

-----------------------------------------------------------------------------
(* What the files are *)

\* The files hold what OutInv says in every behaviour.
LEMMA OutputAlways == Spec => []Known
  <1>1. Init => Entries /\ Chunked /\ OutInv
    <2> SUFFICES ASSUME Init PROVE Entries /\ Chunked /\ OutInv
      OBVIOUS
    <2>1. Entries /\ Chunked
      BY EmptyEntry DEF Init, FileInit, Entries, Chunked
    <2>2. \A f \in File : disk[f] = Empty /\ f \notin cached
      BY DEF Init, FileInit
    <2>3. \A f \in File : ReadFile(f) = Promise!Nothing /\ OnDisk(f) = Promise!Nothing
      BY <2>2, Reads, EmptyReads
    <2>4. Job \in File /\ Block \in File /\ EchoLen \in Nat
      BY TerminalAssumption
    <2>5. Promise!Nothing.size = 0 /\ Promise!Nothing.meta = 0
      BY DEF Promise!Nothing
    <2> HIDE DEF Promise!Nothing
    <2>6. Shows(Promise!Nothing, shell, [at |-> 0, size |-> 0], 0)
      <3>1. Shaped(Job, Promise!Nothing)
        BY <2>1, <2>3, <2>4, Shapes
      <3>2. 0 \in Nat
        OBVIOUS
      <3>3. Shows(Promise!Nothing, shell, [at |-> 0, size |-> Promise!Nothing.size], 0)
        BY <2>4, <3>1, <3>2, NothingShown
      <3> QED BY <2>5, <3>3
    <2>7. shell = <<>> /\ pos = 0 /\ pend = <<>> /\ mark = [f \in File |-> [at |-> 0, size |-> 0]]
      BY DEF Init
    <2>8. OutputLen = 0 /\ Len(pend) = 0 /\ Echo(shell, 0, 0) = <<>>
      BY <2>4, <2>7 DEF OutputLen, Echo
    <2>9. PosInv /\ MarkInv
      BY <2>7, <2>8 DEF PosInv, MarkInv
    <2>10. JobInv
      <3>1. mark[Job] = [at |-> 0, size |-> 0] /\ mark[Job].at = 0 /\ mark[Job].size = 0
        BY <2>4, <2>7
      <3>2. ReadFile(Job).size = 0 /\ ReadFile(Job).meta = 0 /\ OnDisk(Job).size = 0 /\ OnDisk(Job).meta = 0
        BY <2>3, <2>4, <2>5
      <3>3. Asked = 0 /\ 0 + (0 - 0) = 0
        BY <3>2 DEF Asked
      <3>4. /\ Shows(ReadFile(Job), shell, mark[Job], pos)
            /\ Shows(OnDisk(Job), shell, mark[Job], mark[Job].at + (OnDisk(Job).size - mark[Job].size))
        BY <2>3, <2>4, <2>6, <2>7, <3>1, <3>2, <3>3
      <3> QED BY <2>7, <3>2, <3>3, <3>4 DEF JobInv
    <2>11. BlockInv
      <3>1. mark[Block] = [at |-> 0, size |-> 0]
        BY <2>4, <2>7
      <3>2. pos - Len(pend) = 0
        <4>1. pos = 0 /\ Len(pend) = 0
          BY <2>7, <2>8
        <4> QED BY <4>1
      <3> QED BY <2>3, <2>4, <2>6, <3>1, <3>2 DEF BlockInv
    <2> QED BY <2>1, <2>9, <2>10, <2>11 DEF OutInv
  <1>2. Known /\ [Next]_vars => Entries' /\ Chunked' /\ OutInv'
    BY StepKeepsPromise, StepShows DEF Known
  <1>3. KeysInv /\ Entries /\ Chunked /\ OutInv <=> Known
    BY DEF Known
  <1> QED BY <1>1, <1>2, <1>3, KeysAlways, PTL DEF Spec

\* A file that shows the output has followed it.
LEMMA ShownFollows ==
    ASSUME Known, NEW f \in File, Shows(ReadFile(f), shell, mark[f], End(f)), End(f) \in Nat
    PROVE  Follows(f)
  <1> DEFINE tail == Last(MaxSize[f], mark[f].at, End(f))
             data == ReadFile(f).data
  <1>1. Shaped(f, ReadFile(f)) /\ mark[f].at \in Nat /\ mark[f].size \in Nat
    BY Shapes DEF Known, OutInv, MarkInv
  <1>2. ReadFile(f).size - mark[f].size = End(f) - mark[f].at
    BY DEF Shows
  <1>3. SubSeq(data, Len(data) - Len(tail) + 1, Len(data)) = tail
    BY <1>1, ShownIsLast, Zenon
  <1> QED BY <1>2, <1>3, Zenon DEF Follows

\* The job's file is what was read from the stream, without a hole or an echo, from
\* one loss to the next and across restarts of the stream and of the server; and
\* no restart asks for output past the place that was read.
THEOREM JobFileIsOutput == Spec => []FileIsOutput
  <1>1. ASSUME Known PROVE FileIsOutput
    <2>1. End(Job) = pos /\ Shows(ReadFile(Job), shell, mark[Job], End(Job))
      BY <1>1, Ends DEF Known, OutInv, JobInv
    <2>2. Follows(Job) /\ Asked <= pos
      BY <1>1, <2>1, JobSizes, ShownFollows
    <2> QED BY <2>2 DEF FileIsOutput
  <1> QED BY <1>1, OutputAlways, PTL

\* The block's file, which is the one that is shown, gets every byte that the
\* job's file gets, in order, from one loss or truncation to the next.
THEOREM BlockFileMatches == Spec => []MirrorMatches
  <1>1. ASSUME Known, Block \in rows PROVE Follows(Block)
    <2>1. End(Block) = pos - Len(pend) /\ Shows(ReadFile(Block), shell, mark[Block], End(Block))
      BY <1>1, Ends DEF Known, OutInv, BlockInv
    <2>2. End(Block) \in Nat
      BY <1>1, <2>1 DEF Known, OutInv, PosInv
    <2> QED BY <1>1, <2>1, <2>2, JobSizes, ShownFollows
  <1>2. Known => MirrorMatches
    BY <1>1, Zenon DEF MirrorMatches
  <1> QED BY <1>2, OutputAlways, PTL
-----------------------------------------------------------------------------
(* Types *)

\* The output consists of bytes of the files.
LEMMA EchoTyped ==
    ASSUME KeysInv, NEW from \in Nat, NEW to \in Nat, from <= to, to <= OutputLen
    PROVE  Echo(shell, from, to) \in Seq(Byte)
  <1> DEFINE s == Echo(shell, from, to)
             n == to - from
  <1>1. n \in Nat /\ Len(s) = n /\ s = [i \in 1..n |-> s[i]] /\ \A i \in 1..n : s[i] = OutByte(shell, from + i - 1)
    <2>1. n \in Nat
      OBVIOUS
    <2>2. \A keys : /\ Len(Echo(keys, from, to)) = to - from
                    /\ Echo(keys, from, to) = [i \in 1..(to - from) |-> Echo(keys, from, to)[i]]
                    /\ \A i \in 1..(to - from) : Echo(keys, from, to)[i] = OutByte(keys, from + i - 1)
      BY EchoOf, Zenon
    <2> QED BY <2>1, <2>2, Zenon
  <1>2. Len(shell) \in Nat /\ EchoLen \in Nat \ {0} /\ OutputLen = Len(shell) * EchoLen
    BY Echoes DEF OutputLen
  <1> HIDE DEF s, n
  <1>3. ASSUME NEW i \in 1..n PROVE s[i] \in Byte
    <2> DEFINE at == from + i - 1
               q == at \div EchoLen
               r == at % EchoLen
    <2>1. at \in Nat /\ at < Len(shell) * EchoLen
      BY <1>1, <1>2 DEF n
    <2>2. q \in Nat /\ r \in Nat /\ r < EchoLen /\ at = (q * EchoLen) + r
      <3> HIDE DEF at
      <3> QED BY <1>2, <2>1, DivMod
    <2>3. s[i] = <<shell[q + 1], r + 1>>
      BY <1>1, Zenon DEF OutByte
    <2> HIDE DEF at, q, r
    <2>4. q < Len(shell)
      <3>1. ASSUME Len(shell) <= q PROVE FALSE
        <4>1. Len(shell) * EchoLen <= q * EchoLen
          BY <1>2, <2>2, <3>1, MulMono
        <4>2. Len(shell) * EchoLen \in Nat /\ q * EchoLen \in Nat
          BY <1>2, <2>2
        <4> QED BY <2>1, <2>2, <4>1, <4>2
      <3> QED BY <1>2, <2>2, <3>1
    <2>5. shell[q + 1] \in Key /\ r + 1 \in 1..EchoLen
      BY <1>2, <2>2, <2>4 DEF KeysInv, Once
    <2> QED BY <2>3, <2>5, TerminalAssumption DEF Bytes
  <1> QED BY <1>1, <1>3 DEF s

\* Bounds that are kept by every step.
Bounded == events \in 0..MaxEvents /\ reading \in BOOLEAN

\* No step passes a bound.
LEMMA StepBounded ==
    ASSUME Bounded, [Next]_vars
    PROVE  Bounded'
  <1>1. MaxEvents \in Nat
    BY TerminalAssumption
  <1>2. events' = events \/ (events < MaxEvents /\ events' = events + 1)
    BY DEF Next, Happens, SendInput, Delivers, JobInput, QueueTime, HandleInput, Appends,
       AppendJobFile, AppendBlockFile, ClearBlock, CloseBlock, Flushes, StreamReturns, Losses,
       AppendJobFileFails, AppendBlockFileFails, FlushGoesWrong, StreamIsLost, ServerRestarts,
       vars, tvars
  <1>3. reading' = reading \/ reading' = TRUE \/ reading' = FALSE
    BY Zenon DEF Next, SendInput, Delivers, JobInput, QueueTime, HandleInput, Appends, AppendJobFile,
       AppendBlockFile, ReadStream, ClearBlock, CloseBlock, Flushes, StreamReturns, Losses,
       AppendJobFileFails, AppendBlockFileFails, FlushGoesWrong, StreamIsLost, RestartStreaming,
       ServerRestarts, vars, tvars, streamVars
  <1>4. events' \in 0..MaxEvents
    BY <1>1, <1>2 DEF Bounded
  <1>5. reading' \in BOOLEAN
    BY <1>3 DEF Bounded
  <1> QED BY <1>4, <1>5 DEF Bounded

\* What was read and not yet copied consists of bytes.
LEMMA PendTyped ==
    ASSUME KeysInv, OutInv
    PROVE  pend \in Seq(Byte)
  <1>1. /\ pos \in Nat /\ Len(pend) \in Nat /\ Len(pend) <= pos /\ pos <= OutputLen
        /\ pend = Echo(shell, pos - Len(pend), pos)
    BY DEF OutInv, PosInv
  <1>2. Echo(shell, pos - Len(pend), pos) \in Seq(Byte)
    BY <1>1, EchoTyped
  <1> QED BY <1>1, <1>2

\* Every variable of the queue, of the file store and of the terminal keeps its
\* type and its bounds, for every value of the constants.
THEOREM TypeCorrect == Spec => []TypeOK
  <1>1. Init => FilesTyped /\ Bounded
    <2> SUFFICES ASSUME Init PROVE FilesTyped /\ Bounded
      OBVIOUS
    <2>1. MaxFlushErrors \in Nat /\ MaxEvents \in Nat
      BY FileAssumption, TerminalAssumption
    <2>2. \A f \in File : PartsTyped(f, Empty)
      <3>1. Empty.parts = <<>>
        BY DEF Empty
      <3> QED BY <3>1, EmptyDomain DEF PartsTyped
    <2>3. FilesTyped
      BY <2>1, <2>2 DEF Init, FileInit, FilesTyped
    <2>4. Bounded
      BY <2>1 DEF Init, Bounded
    <2> QED BY <2>3, <2>4
  <1>2. Known => pend \in Seq(Byte)
    BY PendTyped DEF Known
  <1>3. Known /\ FilesTyped /\ pend \in Seq(Byte) /\ (pend \in Seq(Byte))' /\ [Next]_vars => FilesTyped'
    BY FileStepTyped DEF Known
  <1>4. Bounded /\ [Next]_vars => Bounded'
    BY StepBounded
  <1>5. Known /\ Current /\ NextTyped /\ TimerTyped /\ FilesTyped /\ Bounded => TypeOK
    <2> SUFFICES ASSUME Known, Current, NextTyped, TimerTyped, FilesTyped, Bounded
                 PROVE  TypeOK
      OBVIOUS
    <2>1. QueueTypeOK /\ FileTypeOK /\ pend \in Seq(Byte)
      BY QueueTyped, FilesTypeOK, PendTyped DEF Known
    <2>2. OutputLen \in Nat /\ pos \in 0..OutputLen
      BY JobSizes
    <2>3. mark \in [File -> [at : 0..OutputLen, size : Nat]]
      <3>1. \A f \in File : mark[f] \in [at : 0..OutputLen, size : Nat]
        <4> TAKE f \in File
        <4> DEFINE a == mark[f].at
                   n == mark[f].size
        <4>1. mark[f] = [at |-> a, size |-> n] /\ a \in 0..OutputLen /\ n \in Nat
          BY <2>2 DEF Known, OutInv, MarkInv
        <4> HIDE DEF a, n
        <4> QED BY <4>1
      <3> QED BY <3>1 DEF Known, OutInv, MarkInv
    <2> QED BY <2>1, <2>2, <2>3 DEF TypeOK, Bounded, Known, KeysInv, Sent, Once
  <1> QED BY <1>1, <1>2, <1>3, <1>4, <1>5, OutputAlways, QueueTypedAlways, PTL DEF Spec
===============================================================================

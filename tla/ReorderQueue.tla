----------------------------- MODULE ReorderQueue -----------------------------
(***************************************************************************)
(* pkg/utilds/quickreorderqueue.go: the job manager's input queue.  Keys   *)
(* are numbered by their sender, a durable shell controller with an input  *)
(* session of its own, and arrive in any order.  One that is next leaves   *)
(* at once, one that is early is held back until the ones before it have   *)
(* come or until it has waited for the timeout.                            *)
(*                                                                         *)
(* An action is one critical section of the queue's lock.  Each ends with  *)
(* sends on outCh, which must not block while the lock is held.            *)
(*                                                                         *)
(* Two sessions are not first seen in the same millisecond (the comment at *)
(* the top of the file says so), and a sender never numbers two keys alike *)
(* nor 0.  Nothing in the repository calls Close or SetNextSeqNum.         *)
(***************************************************************************)
EXTENDS Naturals, Sequences, FiniteSets, FiniteSetsExt

CONSTANTS
    Session,    \* input sessions
    MaxSeq,     \* bound: keys of one session
    Capacity    \* cap(outCh), 1000 in the code

ASSUME QueueAssumption == MaxSeq \in Nat \ {0} /\ Capacity \in Nat \ {0}

VARIABLES
    order,      \* sessionOrder: the sessions in the order they were first seen
    nextSeq,    \* nextSeqNum of the last of them
    buffer,     \* the keys held back
    aged,       \* those that have waited for the timeout
    timer,      \* none, or the key the timer was set for
    stray,      \* a stopped timer's onTimeout waits for the lock all the same
    outCh

qvars == <<order, nextSeq, buffer, aged, timer, stray, outCh>>

Key  == [s : Session, n : 1..MaxSeq]
Seen == {order[i] : i \in DOMAIN order}
Items(seq) == {seq[i] : i \in DOMAIN seq}

QueueInit ==
    /\ order = <<>> /\ nextSeq = 1 /\ buffer = {} /\ aged = {}
    /\ timer = {} /\ stray = FALSE /\ outCh = <<>>

\* cmpSessionSeq: the session first seen earlier comes first.
Earlier(a, b)  == \E i, j \in DOMAIN order : i < j /\ order[i] = a /\ order[j] = b
Before(k, l)   == Earlier(k.s, l.s) \/ (k.s = l.s /\ k.n < l.n)

\* The orders in which sortBuffer may leave a set of keys: there is one.
Sorted(S) == {e \in [1..Cardinality(S) -> S] : \A i, j \in DOMAIN e : i < j => Before(e[i], e[j])}

IsCurrent(s) == order # <<>> /\ order[Len(order)] = s

\* Mutant: the keys held back are not counted.
MutHasRoom == Len(outCh) < Capacity

HasRoom == Cardinality(buffer) + Len(outCh) < Capacity

-----------------------------------------------------------------------------
\* QueueItem for a full queue returns an error.
QueueFull == ~HasRoom /\ UNCHANGED qvars

\* A key of a session not seen before: what is held back leaves first, and the
\* timer is stopped, unless its function has started.
NewSession(k) ==
    /\ HasRoom /\ k.s \notin Seen
    /\ order' = Append(order, k.s)
    /\ \E e \in Sorted(buffer) :
        outCh' = IF k.n = 1 THEN Append(outCh \o e, k) ELSE outCh \o e
    /\ nextSeq' = IF k.n = 1 THEN 2 ELSE 1
    /\ buffer' = IF k.n = 1 THEN {} ELSE {k}
    /\ aged' = {}
    /\ stray' \in (IF buffer # {} THEN {stray, TRUE} ELSE {stray})
    /\ LET rest == IF buffer # {} THEN {} ELSE timer IN
       timer' = IF rest = {} /\ k.n # 1 THEN {k} ELSE rest

\* A key of an earlier session, or one that was given up, leaves at once.
QueueLate(k) ==
    /\ HasRoom /\ k.s \in Seen /\ (~IsCurrent(k.s) \/ k.n < nextSeq)
    /\ outCh' = Append(outCh, k)
    /\ UNCHANGED <<order, nextSeq, buffer, aged, timer, stray>>

\* The keys of the buffer that follow number n without a gap, and come first.
Following(s, n) ==
    {k \in buffer : {l \in buffer : ~Before(k, l)} = {[s |-> s, n |-> m] : m \in (n + 1)..k.n}}

\* Mutant: the keys that leave stay in the buffer as well.
MutQueueNext(k) ==
    /\ HasRoom /\ IsCurrent(k.s) /\ k.n = nextSeq
    /\ LET run == Following(k.s, k.n) IN
       /\ \E e \in Sorted(run) : outCh' = Append(outCh, k) \o e
       /\ nextSeq' = nextSeq + 1 + Cardinality(run)
    /\ UNCHANGED <<order, buffer, aged, timer, stray>>

\* The key that is next, and processBuffer.
QueueNext(k) ==
    /\ HasRoom /\ IsCurrent(k.s) /\ k.n = nextSeq
    /\ LET run == Following(k.s, k.n) IN
       /\ \E e \in Sorted(run) : outCh' = Append(outCh, k) \o e
       /\ nextSeq' = nextSeq + 1 + Cardinality(run)
       /\ buffer' = buffer \ run /\ aged' = aged \ run
    /\ UNCHANGED <<order, timer, stray>>

\* An early key is held back, ensureTimer.
QueueEarly(k) ==
    /\ HasRoom /\ IsCurrent(k.s) /\ k.n > nextSeq
    /\ buffer' = buffer \union {k}
    /\ timer' = IF timer = {} THEN {k} ELSE timer
    /\ UNCHANGED <<order, nextSeq, aged, stray, outCh>>

QueueItem(k) ==
    QueueFull \/ NewSession(k) \/ QueueLate(k) \/ QueueNext(k) \/ QueueEarly(k)

\* Time passes for a key that is held back.
Ages ==
    /\ \E k \in buffer \ aged : aged' = aged \union {k}
    /\ UNCHANGED <<order, nextSeq, buffer, timer, stray, outCh>>

\* Mutant: only the keys that have waited long enough themselves leave.
MutOnTimeoutAged ==
    /\ \E e \in Sorted(aged) : outCh' = outCh \o e
    /\ nextSeq' = Max({nextSeq} \union {k.n + 1 : k \in aged})
    /\ buffer' = buffer \ aged /\ aged' = {}
    /\ timer' \in (IF buffer = aged THEN {{}} ELSE {{k} : k \in buffer \ aged})
    /\ UNCHANGED order

\* Mutant: no timer is set for the keys that stay.
MutOnTimeout ==
    LET leave == {k \in buffer : \E l \in aged : k = l \/ Before(k, l)}
        given == {k.n + 1 : k \in {l \in leave : IsCurrent(l.s)}} IN
    /\ \E e \in Sorted(leave) : outCh' = outCh \o e
    /\ nextSeq' = Max({nextSeq} \union given)
    /\ buffer' = buffer \ leave /\ aged' = {} /\ timer' = {}
    /\ UNCHANGED order

\* onTimeout: every key up to the last that has waited long enough leaves; a
\* timer is set for the oldest that stays.
OnTimeout ==
    LET leave == {k \in buffer : \E l \in aged : k = l \/ Before(k, l)}
        given == {k.n + 1 : k \in {l \in leave : IsCurrent(l.s)}} IN
    /\ \E e \in Sorted(leave) : outCh' = outCh \o e
    /\ nextSeq' = Max({nextSeq} \union given)
    /\ buffer' = buffer \ leave /\ aged' = {}
    /\ timer' \in (IF buffer = leave THEN {{}} ELSE {{k} : k \in buffer \ leave})
    /\ UNCHANGED order

\* It is time when the key the timer was set for has aged, or has left since.
TimerFires ==
    /\ timer # {} /\ timer \intersect buffer \subseteq aged
    /\ OnTimeout /\ UNCHANGED stray

StrayFires == stray /\ stray' = FALSE /\ OnTimeout

\* processInputQueue receives.
Receive == outCh # <<>> /\ outCh' = Tail(outCh)
           /\ UNCHANGED <<order, nextSeq, buffer, aged, timer, stray>>

-----------------------------------------------------------------------------
QueueTypeOK ==
    /\ order \in Seq(Session) /\ nextSeq \in 1..(MaxSeq + 1)
    /\ buffer \subseteq Key /\ aged \subseteq buffer
    /\ timer \subseteq Key /\ Cardinality(timer) <= 1 /\ stray \in BOOLEAN /\ outCh \in Seq(Key)

\* No send on outCh blocks, which would be with the lock held: what is held
\* back always has room in the channel.
NeverBlocks == Cardinality(buffer) + Len(outCh) <= Capacity

\* Nothing is held back without a timer that will see to it.
HeldHasTimer == buffer # {} => timer # {}
=============================================================================
